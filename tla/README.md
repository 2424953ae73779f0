# Team Memory: formal models

TLA+ models of Team Memory (`src/`): what its parts promise, checked with TLC on
small instances and, for the cloud authority, its durable history, the grants,
the ingestion of resources, the working replica and the pending overlay, proved
with TLAPS for every size.

## The system

Agents and clients of a team share one memory per *root*: entities, their
branches, relations, resources and chunks. The truth is an append-only log of
commits in a **cloud memory authority**; everything else is derived from it.

| Component | State | Operations | Hard parts | What makes it correct |
|---|---|---|---|---|
| Memory state (`memory/authority.ts`) | commits, operations, branches, seed | `execute`, `readActiveView`, `revert_commit` | a revert or tombstone changes how later commits replay | a commit is acknowledged only when the log still replays |
| Cloud memory authority (`history/cloud-authority.ts`) | log, records, conflicts, idempotency, outbox, conflict branches | `execute`, `resolveConflict`, reads, `rebuildActiveProjection` | optimistic concurrency by Conflict Key, equivalent writes, retries, resolutions of several commits | nothing is overwritten unseen, no write is lost or applied twice, each conflict ends once |
| Durable cloud history (`adapters/libsql/history-authority.ts`) | journal, idempotency and reporting tables, the authority each process reads from | `execute`, `resolveConflict`, `initialize`, reads | transactions, crash and restart, several processes, retries | callers see one authority; tables, answers and journal agree |
| Authorized sync and replica (`sync/working-replica.ts`) | active view, commit and permission watermarks, history records | authorized snapshot, delta, apply, `assertFresh` | revocation against delta, tombstones, reordered batches | the replica shows what its subject may read at the watermark it claims |
| Pending overlay (`sync/pending.ts`) | staged operations and their status | `stage`, `push`, `reconcile`, `materialize` | push against sync, lost answers, conflicts | a staged write is visible until the cloud decided it, and settled only by that |
| Durable replica (`adapters/filesystem/local-replica.ts`) | stores, manifest, state file | `persist`, load, `invalidate` | crash between files | a restart agrees with what was stored |
| Projection worker (`memory/projection-worker.ts`) | watermark per branch, vector, relation and BM25 stores | `project` | partial failure, concurrency, reverts | indexes converge to the active view |
| Policy engine and router (`rbac/policy-engine.ts`, `permission-router.ts`) | a decision cache, which the runtime is built without | `decide`, `execute` | alternative grants, delegation, task scopes, cache | never more than a grant, delegation and task scope allow together |
| RBAC authority and administration (`adapters/libsql/rbac-authority.ts`, `admin-service.ts`) | users, agents, roles, assignments, delegations, sessions, watermarks | save, revoke, authenticate | no transaction: watermark advanced apart from the change, calls of several statements, reads of several tables | every change of a subject's rights moves its watermark; a request sees no mixture of grants |
| Resources and ingestion (`resources/service.ts`, `ingestion/service.ts`) | content store, chunks, indexes | import, revise, tombstone, `ingest` | three stores without a transaction, chunks committed one by one, retry, removal meanwhile | content before history before indexes; an answered ingestion is whole; what is removed is not found |
| Gateway (`adapters/runtime/gateway.ts`) | none of its own | `writeMemory`, `onboardAgent`, `captureHostMemory`, ... | view, await, head; plans by name; a migration of two writes | a write is based on the view it was planned on; no fact is unreachable or lost |

How they interact: the gateway authenticates a session, plans a write on the
active view and sends it through the permission router to the durable history,
then lets the projection worker replay new commits into the indexes. A local
replica pulls authorized batches, keeps its own writes in the pending overlay,
pushes them and reconciles with the records it pulled. Left aside: retrieval
scoring, transports, hosts, command line, payload validation, the superseded
Postgres adapter (ranking, input/output and shapes, without protocol state).

## The modules

`MemoryModel` - pure operators, no state. An operation names an object and the
kind of the object selects the code path (an "update" of a resource is
`revise_resource`). `ConflictKeys`, `Effect`, `Expand` translate
`conflictKeysForOperation`, `operationEffect`, `expandOperation`; `Replay` is
`readActiveView` (reverted commits are skipped, a replay that throws is not
`ok`); `Executable` is "`execute` does not throw"; `ConflictSeed` is the view a
conflict branch starts from. Left out: operation and revision ids, timestamps,
branchRefs, `currentBranchId`, authorization, importance and other scores.
Content is a value and the one or two objects an object hangs from.

`CloudHistory` - the authority as a state machine; extends `MemoryModel`.
`commits` are the core's commits by branch, `records`, `acceptedRequests`,
`conflicts`, `outbox`, `idempotency` the fields of the same names. `execute` is
`AcceptWrite`, `ReuseEquivalent` or `CaptureConflict`; a retry of an answered
mutation changes nothing and is no action. `resolveConflict` makes a plan of
commits - reverts, applied operations, marker - and either runs it (`Resolve`)
or stops at the first commit that throws (`Interrupt`), which keeps those before
it, as the class does outside a transaction. Each call is one step because the
durable authority runs each in a write transaction. A commit id stands for one
client mutation; a resolution lists distinct conflicts.

`HistoryReplay`, `LogicalAuthority`, `LibsqlHistory` - the durable history.
`HistoryReplay` is the authority as a function of the journal of commands, with
the content of `CloudHistory` reduced to what this layer tells apart (accepted,
equivalent, conflict, resolved). `LogicalAuthority` is the abstract
specification: one authority that serves each client mutation at most once, in
some order, and answers it with its outcome in that order. `LibsqlHistory` is
the code: processes over one database; a call opens the write transaction
(`Begin`, or `Repeat` when its mutation has an answer), rebuilds the authority
and runs (`Run`), commits (`Commit`), installs the rebuilt authority and answers
(`Install`); processes `Crash` and `Restart`. `LibsqlHistory` implements
`LogicalAuthority` under the mapping "served commands = commands of the
journal". What happens inside an open transaction is invisible to others, so its
statements are one step; row timestamps are left out.

`AuthorizedView`, `WorkingReplica` - the authorized local replica.
`AuthorizedView` is pure, on top of `MemoryModel`: `ViewOf` is
`filterAuthorizedView` of the replayed log, `VisibleOperations` is
`authorizedHistoryRecords`, `Delta` and `RebuildRequired` are
`deltaFromRecords`, `ApplyDelta` the replica's method. `WorkingReplica` has the
cloud's log (`records`), the versions of one subject's grant (`grants`), the
replica (`store`), a synchronisation (`call`) and a local query (`query`).
`sync` is cut at its awaits: `Start` notes the replica's identity, `Decide` is
the router's decision, `Stamp` the adapter's read of the permission watermark,
`Answer` the rest of the adapter, which has no await, and `Apply...` what the
synchronizer does with the batch. A query is `Ask` and, after the await,
`RefuseQuery` or `AnswerQuery`. `Clear` is both `invalidate` and `clear`, which
differ in the pending operations only. Abstracted: one branch and one subject; a
branch has a single tag, its content's value, so that allow and deny lists of a
grant become the set of tags they admit; constraints and task scope are
intersected; a grant and its watermark change in one step here (that they do not
in the database belongs to `RbacAuthority`). `store.version` is an auxiliary
field, the grant version the snapshot was filtered with. Calls return; one that
rejects leaves the replica as it was.

`PendingOverlay` - the overlay and the durable replica under it, composed with
`CloudHistory` (the cloud of the actions is that module's, unchanged) and
`AuthorizedView` (what a batch brings). `operation` and `queue` are
`PendingOverlayState.records`, `replica` the durable replica with its copy of
the queue (`stored`), `stage`, `push`, `sync` the calls in flight. `Materialize`
is `materialize`: the snapshot completed by what each active operation was
staged on (`Rehydrate`), without what they shadow (`RemoveShadowed`), with the
operations executed on it; it fails when one cannot be. `Draft` is `stage` or
`stageResourceRevision` up to its await, `Install` the rest; `StartPush`,
`Send`, `ReceiveAnswer` the loop of `push` around its await, `PushThrows` any
failure of it; `StartSync`, `ApplyBatch` (or `Invalidate`, `SyncThrows`) and
`Reconcile` the synchronizer. `Restart(k)` loads what `persist` leaves when the
process dies at its k-th file operation (`RemovedAt`, `WrittenAt`). Abstracted:
one subject who sees everything; a record's command is its operation and base.

`PolicyEngine` - pure: permissions, constraints, task scopes, requests, and
`DecideUser`, `DecideAgent` after their reads. Lists are sets, undefined is
`None`, an action stands for the action with its resource kind. Denied relation
types and approvals are fields no permission or scope of the code fills.

`RbacAuthority` - the tables of `rbac-authority.ts`, with the administration and
a request over them. A call (`Start`) checks and reads, then holds the
statements it still has to make (`todo`) and the watermarks its last statement
owes (`due`); `Perform` makes a statement, `Advance` moves one watermark, `Vet`
is a check in the middle of a call (`createUser` with a role, onboarding, a
login of the host), `Die` the death of the process. A request is authenticated
and decided one select after the other (`Authenticate`, `Decide`). A select that
only lists whose watermark to move is taken with the statement before it; the
roles of a user, which the engine reads side by side, are read at once. `Expire`
is the clock passing the `expiresAt` of a delegation; that of a session
(`rbac-authority.ts:346`) and of an assignment (`policy-engine.ts:612`) and the
status of a role (`:635`) are left out, and what they refuse with them.
`versioned`, `possible` and `changes` are histories for the properties.

`ProjectionWorker` - a history reduced to one branch's accepted commits, the
three stores as maps from object to content, and `project`: `StartProject` reads
the watermark and the events, `ProjectNext` makes one store write (a removal by
filter lists first), `FinishProject` sets the watermark, `FailProject` is any
write that throws, `RestartWorker` forgets the watermark. `ConflictsSince`,
`Equivalent`, `Accepts` are the authority's rules on this history, as
`CloudHistory` has them in full.

`ResourceIngestion` extends it with `resources/service.ts` and
`ingestion/service.ts`, cut at every await: content (`PutContent`), head, history
(`WriteResource`), then view, revision, plan (`PlanChunks`), one head and one
commit per chunk (`ChunkHead`, `WriteChunk`), points and documents.
`EndCall` is the answer and every throw. The gateway's automatic ingestion after
an import or a revision is the step from `WriteResource` to `ViewResource`; a
captured host session is an import, an ingestion and a write of the gateway.

`GatewayWrite` extends `ProjectionWorker` with `writeMemory`: `Plan` is
`prepareStructuredMemoryOperations` - entities, facts and relation ends looked
up by name in a local view that includes what the plan itself creates,
duplicates and collisions answered as ambiguous, `ensureHasRelation` for every
fact - and `Write`, `ReadHead`, `Send` are its three awaited phases.
`ListLegacy` and `PlanMigration` are `migrateLegacyHostCaptures`, which lists,
writes anew, then tombstones in a second write (`SweepOf`). Similarity of facts
is a relation between values (`Alike`), random ids are drawn per caller. Left
out of the data: relation ends that are resources or chunks
(`gateway.ts:2438`), the status an update may set, the normal form of titles
(titles are equal or not), the score by which a duplicate is chosen (any of the
similar ones is taken), the relations a migration carries over and the captures
with an empty description it skips, and the branchRef in the payload of
tombstones (`:1891`), which `writeMemory` sets to main.

`SequenceLemmas`, `MemoryProofs` - lemmas the proofs share, about sequences,
enumerations of sets of positions and folds, and about `Replay`.
`CloudHistoryProofs`, `LibsqlHistoryProofs`, `RbacProofs`, `IngestionProofs`,
`ReplicaProofs`, `OverlayProofs` - the proofs (see there). `MCCloudHistory`,
`MCLibsqlHistory`, `MCWorkingReplica`, `MCPendingOverlay`, `MCRbac`,
`MCIngestion`, `MCGateway` - the instances for TLC.

In each module an operator commented "Defect:" is a variant of the definition
that follows it, with a plausible bug. Nothing uses it; put in place of its
original it shows that a property notices the bug.

## The runs

| Run | Result | Shows |
|---|---|---|
| `cloud_history` | passes, 12374 states | all properties of `CloudHistory` |
| `libsql_history` | passes, 20366 states | `LibsqlHistory` implements `LogicalAuthority`; tables, processes, release of the writer |
| `working_replica` | passes, 150154 states | the replica against the authorized view of its watermarks, the watermark of reads, catching up |
| `pending_overlay` | passes, 219486 states | staged operations over a cloud that conflicts and resolves, lost answers, restarts |
| `rbac` | passes, 1016006 states | watermarks, mixed reads, agents against their owners |
| `ingestion` | passes, 358878 states | content, history and indexes of a resource, beside the worker |
| `gateway` | passes, 77148 states | planned writes, the migration, the stores behind them |
| `resolution_not_storable` | violated | `ResolutionsStorable` |
| `replica_keeps_removed` | violated | `ReplicaIsAuthorizedView`, with tombstones |
| `conflict_never_pushed` | violated | `ConflictsReachCloud` |
| `failed_ingestion_retry` | violated | `FailedIngestionRetries` |
| `gateway_lost_update` | violated | `NoUnseenOverwrite` |

`cloud_history`: one branch with a seeded entity, three client mutations and two
resolutions. Each mutation may carry any of eight batches (updates with two
values, tombstone, creations that collide, an entity with a relation, two
branches of one entity) or a revert of any commit, from any accepted base.
Three writes are what a conflict on top of a stale base needs (a base, an unseen
commit, the incoming write); two conflicts in one resolution, equivalent writes,
and a resolution after a half-done one all occur. Branches never interact but
through the sequence numbers, so one is enough for TLC; the proofs allow any
number. The clients are interchangeable, hence the symmetry.

`libsql_history`: five commands at one position (a write, an unseen conflicting
one, the same mutation id with another base, two ways to settle the conflict),
two processes, two calls at once, each slot reused without limit, so that every
call can be retried, lost and repeated at every point.

`working_replica`: nine objects of every kind, three records of any of three
batches (an entity with two branches of which the later is open and the earlier
secret; a secret entity with a resource, a chunk and a relation between them; an
update), reverts of any record and a captured conflict, so that bootstrap, delta,
noop, rebuild after a revert and replacement after a grant change all occur; two
versions of a grant from {everything, no secrets, denied} and two task scopes.
Three records let a replica be bootstrapped, changed and reverted. One
synchronisation at a time, restarted for ever: of two that overlap an older delta
could be applied last, and nothing in the code or its documents says that a host
may overlap them. The batches keep the tags of what exists and remove nothing but by
revert, because other changes of what is visible are not delivered, see
disagreement 2; removals are what `replica_keeps_removed` adds. In the same way a
change of an entity's tag is not delivered as a change of what hangs from it, and
a relation created before its end became visible is not sent when it does.

`pending_overlay`: a root and a seeded entity; one staged operation creates an
entity or updates the seeded one, the other links the two; the other client
creates the same entity or removes the seeded one, so that every pair of them
conflicts, depends or is shadowed; one resolution of each kind. The process may
die between two persists or right after the pending operations were written
again (operation 12 of 17), and any number of times. One stager: with two, the
overlap of disagreement 9 comes first. Crashes between operations 4 and 10
lose the pending operations or the snapshot, as disagreement 10 says.

`rbac`: an administrator with an agent, a member with the agent of its own host,
two roles and a delegation id for no agent in particular. Two calls of any kind
that the checks allow when they start; each may die at every statement. One agent's request for a tagged read
runs beside them. `MaxDuring` is 1, because `OneChangeSeenWhole` speaks of a
single change (two changes between the reads of one request can allow what no
moment did: nothing isolates them). Ids of assignments and delegations are
reused only for the same user and agent, see disagreement 11.

`ingestion`: one resource, imported with a content of two chunks and revised to
one that has none; two calls of any kind, any number of times, each of which may
fail at every await, and a projector. Two chunks are what an ingestion that
stops in the middle needs.

`gateway`: an entity with a fact and its relation, and a legacy capture with a
fact. Two callers: a request that creates an entity with a fact and links it, a
request that updates entity and fact and replaces the relation between them, and
the migration, whose fact belongs to the entity the first request creates: so
names collide, facts meet and either may come first. In `gateway_lost_update` the
two requests update the seeded entity to different versions. Calls start while
the history, two commits at first, is shorter than `MaxCommits` (4): several
writes after each other or overlapping, the migration among them.

`CaughtUpStoresAgree` and the ingestion properties hold with one projector; the
module allows more, and two that overlap may leave an old state in the stores.

Deadlock is not checked in these runs: clients stop when their ids are used up
(`cloud_history`, `working_replica`, `pending_overlay`, `gateway`), a call that
finds the database busy changes nothing, and administrators and revisions stop
at their bounds.

Two notes on the properties of `WorkingReplica`. `ReplicaIsAuthorizedView` and
`RevisionBaseIsLatest` exempt a snapshot stamped with a later version than it
was filtered with (disagreement 6 below), and so does `NothingAlone`, the half of
`ShownAsDecided` about what hangs from what. A rebuild replaces the replica's history by
the records after the watermark it started from (`replaceHistory` of `records`,
not of all records): earlier ones are forgotten, and `RevisionBaseIsLatest` says
that what remains still holds the last record that matters to a local revision.

Fairness. `WorkingReplica` assumes that the host keeps synchronising and that
the awaits of a synchronisation return: always again a step of the
synchronisation. Some such step is always possible and nothing else changes
`call[c]`, so this is weak fairness of `Sync(c)`, written without `ENABLED`.
Without a host that synchronises, a replica is behind for good. Nothing is
assumed of queries, clients, grants; `CaughtUp` is reached again and again since
commits and grants stop at their bounds. `LibsqlHistory` assumes: a call that is under way in a live
process proceeds (`WF` on `Run`, `Commit`, `Install` of each call), because its
awaits are database statements that return or throw. Nothing is assumed about
clients, crashes or restarts. `CloudHistory` is a passive store and has no
liveness to state. Neither have the overlay, the gateway, the ingestion and the
worker: a push, a retry or a projection happens when a caller asks for it, and
no caller has to.

The code and its documents disagree in these points. The first five have a run:

1. `history_resolutions` is keyed by the resolution commit, with one row per
   conflict: a resolution of two conflicts, allowed by `CONTEXT.md:44`, is always
   rolled back in the durable authority (`resolution_not_storable`).
2. `authorizedHistoryRecords` keeps the operations whose object is in the view
   after all records. A tombstoned object is not, so its tombstone is dropped,
   the answer is a noop that advances the commit watermark, and the replica
   shows the object until something else replaces its snapshot. `CONTEXT.md:48`
   defines the watermark as the position of the changes applied locally
   (`replica_keeps_removed`).
3. `reconcile` marks an operation conflicted when it sees another client's commit
   at its keys, pushed or not; `push` sends only what is pending. Such an
   operation never reaches the cloud, which has no conflict to resolve, against
   `docs/adr/0002-cloud-authority-local-pending-overlay.md:5`
   (`conflict_never_pushed`).
4. An ingestion that failed between two chunks creates all chunks again under the
   same ids and is refused for ever; `test/ingestion-pipeline.test.ts:300` says
   that it can be retried (`failed_ingestion_retry`).
5. `writeMemory` reads the head after it planned on the view and awaited
   embeddings: a commit in between counts as seen, where `CONTEXT.md:36`
   promises a Memory Conflict of two commits that are not equivalent. Of two
   updates of an entity planned on one view both are accepted, and the later
   replaces the earlier (`gateway_lost_update`).

The models contain the following too; what excuses them is in the guards and
antecedents of the properties:

6. The router decides before the adapter reads the permission watermark
   (`working-replica.ts:542`): a grant that changes in between leaves a snapshot
   filtered with the old grant under the new watermark, which `assertFresh`
   accepts, although `CONTEXT.md:52` says that a change of the watermark makes the
   old snapshot invalid. No property of the project excludes this:
   `ReplicaIsAuthorizedView`, `RevisionBaseIsLatest` and `NothingAlone` exempt such a
   snapshot, `OnlyAdmitted` is content with the grant of the decision, and
   `ReadsAreStampedFresh` compares the watermark. What they do exclude is an
   object no named grant let through, and a read with an older watermark.
7. `take_incoming` reverts the remote commits first (`cloud-authority.ts:776`).
   Once a later commit builds on a remote creation the revert can never replay,
   and this resolution, which `CONTEXT.md:44` offers, is closed. Of an incoming
   batch it applies the first operation only (`:806`): `ResolutionMeaning` says so
   as the code has it. A write that
   updates what was removed meanwhile is refused instead of kept as a conflict
   (`:1102`), and an equivalent commit that answers a write may have been
   reverted since (`:570`).
8. A relation is accepted on a tombstoned entity (`memory/authority.ts:912`), the
   orphan of `test/memory-write-path.test.ts:689`. The durable authority compares
   a retry with its permission decision (`history-authority.ts:210`), so that a
   retry after a change of roles is refused
   (`docs/01-design/操作记录模块.md:138`).
9. Two `stage` calls that overlap lose the first operation (`pending.ts:353`).
   An operation that is refused blocks the ones behind it in every push. A late
   answer of a push sets an operation that a reconciliation settled back to
   pushed (`pending.ts:450`).
10. Invalidation of the durable replica drops the stored pending operations
    (tested so in `test/durable-local-replica.test.ts:336`), the in-memory one
    keeps them. A crash while the stores are rewritten can lose them.
11. A delegation id that is saved again for another agent moves only the new
    agent's watermark (`rbac-authority.ts:207`). A crash between a change and the
    advance of its watermark leaves it unmoved. Agents that no delegation names
    are never told of their owner's changes. A login of the host re-activates its
    agent and delegation (`main-agent-session.ts:61`). Alternative grants are
    combined field by field (`policy-engine.ts:232`): the constraints returned to
    a caller may admit what no single grant does.
12. Reverts are not projected, and relations of a removed entity stay in the
    relation store (`projection-worker.ts:73`); the BM25 documents of a removed
    resource stay; chunks of old revisions are never tombstoned. An ingestion
    under way while its resource is removed brings its points back
    (`ingestion/service.ts:374`). An equivalent revision is answered with a
    revision id that does not exist. A caller may ask for its own chunk size
    (`ingestion/service.ts:117`): two ingestions of a revision that cut it
    differently give its chunk ids two texts, the later one meets a conflict or
    an equivalent, goes on, and indexes texts the history does not have.
13. A migration of legacy captures whose facts are ambiguous removes the captures
    all the same (`gateway.ts:1550`); `MigratedUnlessRefused` exempts them. Between plan and head two writes may create one name or title twice,
    and a stale update of a fact may be accepted after its entity is gone.

## The proofs

### The authority

`CloudHistoryProofs` proves, for any objects, values, branches, mutations,
batches that satisfy `PermittedBatch`, and any length of history:

- `TypeCorrect`: `Spec => []TypeOK`;
- `NothingOverwritten`: `Spec => []NoSilentOverwrite`. Whatever was accepted
  between the head a request names and the request itself touched other Conflict
  Keys, resolutions and half-done resolutions included.

The assumptions are those the modules state: kinds of objects, a root, typed
batches, `None` outside the ids.

`NoSilentOverwrite` alone is not inductive. It speaks of the bases of requests,
while the guards speak of the records and of the head of the log. `IInv` adds
`Numbered` (a record's sequence number is its position), `ConflictsPointBack`
(conflicts name existing conflicted records), and `HeadIsLast` (the head of a
branch log is its latest accepted record). For a write the argument is that the
base's sequence is at least that of the first record with the base's id, so
what `NoSilentOverwrite` calls in between is among `AcceptedSince`, whose keys
the guard found disjoint. For a resolution each commit is based on the one
before it and the first on the head, hence nothing is in between
(`ChainIsClear`). Old requests stay safe because only later records are added.
These two treat `Replay` and `Executable` as opaque: what they rest on is the
conflict detection, not the content of the views.

Its second half proves, in the same generality:

- `HistoryIsConsistent`: `Spec => []HistoryConsistent`;
- `ProjectionIsRebuildable`: `Spec => []ProjectionRebuildable`;
- `MutationsHaveOneOutcome`: `Spec => []OneOutcomePerMutation`;
- `ConflictsArePreserved`: `Spec => []ConflictsPreserved`;
- `ConflictsResolvedOnce`: `Spec => []ResolvedOnce`.

Each has an inductive invariant on top of `IInv`. `LogInv` says that the log of
a branch repeats its accepted records, and its requests, in their order: there
is an increasing enumeration of their positions (`Listed`), which is what the
selections of the model (`At`) come to. With it goes that every log replays
(`LogReplays`) and that ids occur once. `OutcomeInv` splits the answers of a
mutation into none, accepted, conflicting and answered by an equivalent commit,
each with the records the mutation then has. `KeptInv` says what a conflict
keeps: the log it was forked from stays (`LogBeforeStays`), and the view of its
branch is that log with the incoming write. `SettledInv` counts the resolution
commits of each conflict. Every step of the authority is a write, with one of
its three outcomes, or a resolution whose plan runs to its end or stops
(`StepShapes`), and each invariant is shown for these.

What a replay computes is the subject of `MemoryProofs`. It is a fold; the laws
of folds the proofs need (one element more, a common beginning) are in
`SequenceLemmas`, from the recursion that `FoldLeft` stands for. Where an
argument needs induction over a list it names the set of the good prefixes and
shows that it has 0 and, with each number, the next (`SetInduction`,
`BoundedInduction`), since the induction theorems of the library take an
operator.

One assumption was added for these proofs: client mutations and resolutions draw
their commit ids from disjoint sets (`Mutations \cap Resolutions = {}`), as
the random ids of the code do.

### The durable history

`LibsqlHistoryProofs` proves, for any commands, processes, calls, retries and
crashes:

- `TypeCorrect`: `Spec => []TypeOK`;
- `ServesOnlyHistory`: `Spec => []ServesHistory`, what a process reads from is
  the replay of a prefix of the committed journal;
- `TablesAreConsistent`: `Spec => []TablesConsistent`;
- `ImplementsLogicalAuthority`: `Spec => LogicalSpec`, the refinement that the
  run `libsql_history` checks on its instance.

The invariant says what a call in its transaction carries: the history it
rebuilt is the replay of the journal as it stands while the transaction is open
(`CallsAreSound`), every stored answer is the one that the replay gives at some
entry of the journal, and every entry has one (`AnswersAreStored`), the
tables are the projection of the replay (`TablesAreProjection`), and a process
read a prefix (`ReadsHistory`). The answer to a mutation stays the same in every
longer journal because `Serve` only adds answers. `Sound` is the invariant of
one replayed history, and `ServeIsSound` shows that each command keeps it.
The refinement has one lemma per step: `Commit` serves its command, `Install`
and `Repeat` answer, all else stutters.

### The grants

`RbacProofs` proves, for any users, agents, roles, delegations, permissions and
requests, any number of administrative calls and any way in which their
statements, crashes and the reads of a request interleave:

- `RbacTypeCorrect`: `RbacSpec => []RbacTypeOK`;
- `AgentsStayWithinOwners`: `RbacSpec => []AgentWithinOwner`, an agent is
  allowed nothing that its owner is not, within constraints no wider;
- `AgentDecision`, the same of the pure decision and any permissions. The
  argument: every grant of an agent is an intersection with a grant of its
  owner (`EffectiveGrant`), a request that meets the intersection meets the
  owner's grant (`WithinSubset`), and combining narrower grants field by field
  stays narrower (`CombinedIsSubset`).

The type invariant is not inductive alone: a statement that waits in a call
writes a row later, and a check in the middle of a call makes a statement from
its caller. `RbacInv` adds that every statement left in a call can be performed
(`Doable`): a row of its table's type, or a check of a call that a user makes.

- `WatermarksCoverChanges`: `IdsAreNotReused /\ RbacSpec => []WatermarkCoversChange`.
  The watermark of a subject moves after every statement that changes what it
  may do.

The hypothesis `IdsAreNotReused` says that an id of an assignment always names
the same user and an id of a delegation the same agent, or the same owner if it
names no agent; without it the property is false (disagreement 11: `rbac-authority.ts:207`). The
invariant `WatermarkInv` adds to `RbacInv` that the rows of the tables, and those
that the calls have yet to write, respect it. The argument is one case per
table: a subject whose grants a statement changes is among those it is told to
advance (`Affected`), whether found by ownership, role, assignment or
delegation; all others are left alone, and between the statement and the advance
the subject is not settled.

- `OneChangeIsSeenWhole`: `RbacSpec => []OneChangeSeenWhole`. A request that is
  allowed while at most one statement changed a table was allowed by the tables
  before that statement or by the tables after it, although its reads are
  selects of their own.

Here the difficulty is that the invariant must speak of tables that are gone.
`WholeInv` says that there are tables `T` which differ from those of the moment
in one place (`OnePlace`), such that every fact the request goes on with was read
from `T` or from the present ones (`ReadSoFar`). The facts that do not concern
the changed table are the same in both; so a request allowed by facts of both
was allowed by one of the two as a whole. For the table of delegations it takes
that more delegations allow no less (`MoreIsAllowed`), and for the sessions that
the row a token names is one row: a token is issued by the last statement of one
call and by no other (`TokenInv`).

The assumptions are those the modules state (`PolicyEngineAssumption`,
`RbacAssumption`): typed seeds whose assignments and delegations are among those
that ids may be used for, `None` outside the ids, and sessions whose tokens are
unique and not those the calls will draw, as the column and `randomUUID` have it.

### The ingestion

`IngestionProofs` proves, for any resources, contents, number of chunks, callers
and projectors:

- `IngestionTypeCorrect`: `ResourceSpec => []IngestionTypeOK`;
- `RevisionsAreReadable`: `ResourceSpec => []CasFirst`, the content of every
  revision of the history is held;
- `SearchResultsHaveSources`:
  `OneSplit /\ ResourceSpec => []IndexedIsHistory`, what an index holds of a
  chunk was created by an accepted commit;
- `IngestionsAreWhole`: `OneSplit /\ ResourceSpec => []IngestedWhole`, an
  ingestion that has answered left every chunk of its revision in the history and
  in both indexes, unless the resource was removed.

`CasFirst` follows from `IngestionInv`, in which a call about to write a revision
has its content held. `IngestionInv` is also checked as an invariant of the
`ingestion` instance, as is `HistoryInv`, from which the other two follow. It
says four things: every chunk of the history is a piece of the
revision it belongs to (`CutOf`), the view shows only what was created and no
removed resource (`ViewOfLog`), the stores and every write that a projection has
yet to make are within what was created (`WorkerWithin`), and a call has created
the chunks it has passed and indexed those it says it has (`CallProgress`,
`CallIndexed`). The heart is the step that commits a chunk and meets an equivalent
or conflicting one (`WriteChunk`): the chunk that the history has then is the
same, because its id determines revision and position, and these its text.

The last fact is where `OneSplit` is needed: each content is always cut in the
same way, as all callers of the code do that pass no chunk size. With two ways
to cut one content TLC finds a state that violates `IndexedIsHistory` after 16
steps (disagreement 12), so the hypothesis cannot be dropped.

The assumptions are those of the modules (`IngestionAssumption`): typed contents
and splits, distinct chunk ids for the positions of each revision, finitely
many objects, seeds without chunks.

### The working replica

`ReplicaProofs` proves, for any objects, contents, batches, grants, task scopes
and any number of records and grant versions:

- `ReplicaIsTyped`: `Spec => []TypeOK`, for any number of synchronisations that
  overlap;
- `QueriesReadFreshStamps`: `OneAtATime /\ Spec => ReadsAreStampedFresh`;
- `OnlyAdmittedIsShown`: `OneAtATime /\ Spec => []OnlyAdmitted`, the half of
  `ShownAsDecided` about tags and ids. It needs nothing about what is
  removed: what a delta fails to remove was let through once, and a change of the
  grant replaces the snapshot;
- `ReplicaIsTheView`:
  `OneAtATime /\ Builds /\ Spec /\ []VisibilityIsSteady => []ReplicaIsAuthorizedView`;
- `WhatIsShownWasDecided` and `RevisionsAreBasedOnTheLatest`: under the same
  hypotheses `[]ShownAsDecided` and `[]RevisionBaseIsLatest`.

The last two go by lemmas about a replica that shows the view of its watermarks
(`ViewsShowNothingAlone`, `ViewsHaveTheirBase`), which the theorem before them
gives; no theorem assumes anything of the replica. None of them excludes the
race of disagreement 6.

`OneAtATime` says that there is one synchronisation, which may start again
without end. With two that overlap an older answer can be applied last, and
TLC finds that neither `ReadsAreStampedFresh` nor `OnlyAdmitted` holds. `Builds`
says that the clients commit creations and updates only (and reverts of any commit). `VisibilityIsSteady` says
of every stretch of the branch without a revert that what was there at its begin
is shown after it to the same versions of the grant as before. Both are about
the history and not the replica, and they are the restriction of the run
`working_replica`, all of whose logs and grants satisfy them by TLC (no run lists
them, being nothing the code promises); the run
`replica_keeps_removed` violates them and, with them, `ReplicaIsAuthorizedView`
(disagreement 2). What the restriction leaves is the protocol: which of replace,
delta and noop is answered, what a bootstrap, a rebuild after a revert, a grant
that changes at an await, a denial or an invalidation does to a batch that is
under way.

The invariant is `SyncInv`. The call under way found the replica there is
(`KnownIsHeld`), what it read lies in its past in the order it was read
(`CallInv`), the replica names a watermark the branch has reached (`StoreInv`),
and nothing decided is older than the permissions a waiting query compared
(`QueryInv`). A batch says what the view and the records of its watermark were
(`BatchInv`, `Says`); that stays true because records and grants only grow.
`ReadsAreStampedFresh` follows from these, and the base of a revision where the
replica is the view. `NothingAlone` needs also that a filtered view is closed: a
shown branch has a shown entity, a shown relation two shown ends (`ViewIsClosed`).

For `ReplicaIsTheView` the invariant `AnswersAreExact` says that a delta, applied to
the view it was asked for, gives the view it was made from. `ChangesAreExact` is
its heart: an object that no visible operation of the stretch names keeps its
record (`CommitTouchesItsObjects`, `UntouchedStays`); it is shown as before by
`VisibilityIsSteady`; one that is named is looked up in the later view and sent.
That a replay goes on from the shorter log is the law of folds over a common
beginning; commits reverted before the stretch stay reverted, and there is none
after it, since then the answer is a rebuild (`SameAreReverted`).

The assumptions are those of the module (`WorkingReplicaAssumption`): batches
that satisfy `PermittedBatch`, of operations whose records are complete
(`ClientOperation`: a branch or chunk names what it belongs to, a relation two
ends, as the types of the operations require), scopes that allow, and `None`
outside scopes and contents.

### The overlay

`OverlayProofs` proves, for any objects and operations, any number of staged
operations and overlapping `stage` calls, any interleaving with pushes,
synchronisations, other clients and resolutions, lost answers, and a crash at
any file operation (`TornAt`):

- `OverlayIsAlwaysTyped`: `OverlaySpec => []OverlayTypeOK`;
- `OperationsLeaveWhenDecided`: `OverlaySpec => []LeavesWhenDecided`;
- `RestartsAgree`: `OverlaySpec => []RestartAgrees`.

`RestartAgrees` claims nothing of a stored copy that is empty, because the replica
was invalidated or a persist died while the file was gone (disagreement 10): the
restart then has no pending operation at all, and the theorem does not exclude it.

The cloud below is that of `CloudHistory`, and its invariant `IInv` is part of
`OverlayInv`: a push is one of the writes of that module (`ExecuteMoves`), so its
lemmas are used again. What the overlay needs of each step of the cloud is
`CloudMoves`: records are only added, an answer that was given stays
(`AnswersStay`), and a record kept as a conflict is no resolution
(`MarkersAccepted`), which is why `reconcile` may take the resolutions it meets
for decided.

Neither `LeavesWhenDecided` nor `RestartAgrees` is inductive. A record may be
drafted, queued, pushed, stored and loaded again before its status is looked at, so
`Claims` says of each record, wherever it is kept, that the conflict it names is
the one the cloud answered its mutation with, and that a settled status has its
decision in the cloud's history. `StoredInv` says that a stored copy `Agreeing`
with the record in memory has the same operation, base and fragment, and that what
has left the overlay in memory may only be missing from the overlay in the copy if
it was decided there. Agreement survives a push, which changes
statuses in memory only, because an answer received late brings an operation back
to the overlay but never out of it. A push that waits has an answer to receive
(`PushInv`), a draft adds itself to operations that have a record (`Drafts`).

The type of the fragments is that of a view, so it takes that the three folds of
`materialize` stay among views (`RehydratedIsShown`, `UnshadowedIsShown`,
`MaterializedIsShown`).

### What the proofs ask of the models

A `CASE` with arms that overlap has no value a prover can determine, so
`ApplyOperation`, `PlanNext` and the like have disjoint arms; none of them
changed its value. Recursion is folds throughout. `SelectSeq` has no law the
provers could use: the selections of a log are `At` of the positions that
qualify (`LogUpTo`, `ActiveRecords`), and what is visible of a commit is the set of its operations
(`VisibleOperations`), since nothing depends on their order.

### Only model-checked

- Liveness: `KeepsCatchingUp` of the replica and `WriterFinishes` of the durable
  history, out of the prover's reach.
- `ResolutionMeaning`: it speaks of the whole view before and after a
  resolution, whose plan mixes reverts with new commits; what a replay does when
  commits in its middle are skipped needs lemmas not written yet.
- `ShadowsUntilDecided`, `UnreadableOnlyWithoutBase`: what the overlay shows is a
  replay of operations over a snapshot they were not staged on; the proofs have
  its type, not its content.
  `ShadowsUntilDecided` is also stated for the operations of its run: `Position`
  does not name all that a replacement writes or a tombstone of the root removes,
  and an update of a resource that an active operation removed leaves it removed,
  so a theorem for every operation needs these as exceptions.
- `GatewayWrite`: all. Its properties need every name of a view and a plan.
- `RemovedIsUnsearchable`, `CaughtUpStoresAgree`: they hold with one projector,
  and need the order of its store writes against the log.

## Not modelled

- Retrieval and scoring (`memory/retrieval.ts`, `ingestion/bm25.ts`): ranking of
  a read-only view by numbers; what it may read is `AuthorizedView`'s subject.
- Transports, hosts, command line, tools, payload validation: input and output
  around the gateway's calls, shapes of arguments.
- `adapters/legacy-postgres`: the superseded storage of the same authority.
- `agent/session.ts`: the in-memory session authority; the durable one is in
  `RbacAuthority`.
- In the gateway: `prepareStableMemoryOperations` (nothing calls it), patches of
  a resource by lines (a revision made from a read, without a base), the reads.

## Plan

In order of importance; each with its type invariant, its abstract
specification where there is one, and one run within the bounds above.

1. `CloudHistory`, `MemoryModel` (done), proofs (done) but for
   `ResolutionMeaning`.
2. `LibsqlHistory` against `LogicalAuthority` (done), proofs (done).
3. `AuthorizedView`, `WorkingReplica` (done), proofs (done) for one
   synchronisation at a time. To add: two overlapping synchronisations.
4. `PendingOverlay` with the durable replica and the cloud (done), proofs (done)
   but for what `materialize` shows.
5. `PolicyEngine`, `RbacAuthority` (done), proofs (done).
6. `ProjectionWorker`, `ResourceIngestion` (done), proofs (done) but for
   `RemovedIsUnsearchable`. To add: two projectors, two resources.
7. `GatewayWrite` (done). To prove: type correctness. To add: line patches.

The hazards, with the line where each bites and the properties about it, are
listed in `PROJECT.json`.
