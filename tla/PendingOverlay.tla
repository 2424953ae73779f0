---------------------------- MODULE PendingOverlay ----------------------------
(***************************************************************************)
(* The pending overlay (sync/pending.ts) over a durable local replica      *)
(* (adapters/filesystem/local-replica.ts) and the cloud authority: local   *)
(* operations are shown at once on top of the snapshot, pushed to the      *)
(* cloud one by one, and leave the overlay when a synchronisation brings   *)
(* the cloud's decision.                                                   *)
(*                                                                         *)
(* Calls overlap: a stage waits for the materialisation of its candidate,  *)
(* a push for each answer of the cloud, a synchronisation for its batch.   *)
(* The process may die at any time and start again from the files of the   *)
(* replica.  The subject may see everything here (module WorkingReplica    *)
(* has grants and scopes).                                                 *)
(***************************************************************************)
EXTENDS CloudHistory, AuthorizedView

CONSTANTS
    Main,           \* the branch the replica follows
    LocalMutations, \* clientMutationIds of the operations staged here
    StageOps,       \* the operations each of them may be
    Stagers,        \* the stage calls that may overlap
    TornAt          \* at which file operation of a persist the process dies;
                    \* 0 is between two persists

ASSUME PendingOverlayAssumption ==
    /\ Branches = {Main}
    /\ LocalMutations \subseteq Mutations
    /\ StageOps \in [LocalMutations -> SUBSET MutationOperation]
    /\ \A m \in LocalMutations : \A op \in StageOps[m] : PermittedBatch(<<op>>)
    /\ TornAt \subseteq Nat

VARIABLES
    operation,  \* the PendingOperationRecord of each clientMutationId
    queue,      \* this.state.records: clientMutationIds in order
    replica,    \* the durable replica, what it stores of the queue included
    stage, push, sync   \* the calls in flight

localVars == <<operation, queue, replica, stage, push, sync>>
allVars == <<vars, localVars>>

OverlayStatus == {"pending", "pushed", "conflicted"}
SettledStatus == {"resolved", "rejected", "superseded"}

\* incoming is the conflict the cloud captured the operation in, 0 if none.
PendingRecord ==
    [op: UNION {StageOps[m] : m \in LocalMutations}, base: CommitId \cup {None}, fragment: Shown,
     status: OverlayStatus \cup SettledStatus, incoming: Nat]

NoRecord == [status |-> "none"]

\* head is the last accepted commit of the replica's history records.
EmptyFiles == [valid |-> FALSE, watermark |-> None, snapshot |-> Hidden,
               head |-> None, stored |-> <<>>]

NoDraft == [mutation |-> None]
IdlePush == [step |-> "idle", list |-> <<>>]
IdleSync == [step |-> "idle", known |-> None]

OverlayInit ==
    /\ Init
    /\ operation = [m \in LocalMutations |-> NoRecord]
    /\ queue = <<>>
    /\ replica = EmptyFiles
    /\ stage = [c \in Stagers |-> NoDraft]
    /\ push = IdlePush
    /\ sync = IdleSync

-----------------------------------------------------------------------------
(* materialize.                                                            *)

\* Defect: an operation whose conflict is known is no longer shown.
HidesConflicted(status) == status \in {"pending", "pushed"}

IsOverlayActive(status) == status \in {"pending", "pushed", "conflicted"}

\* extractBaseFragment: the objects at the keys of an operation with what
\* hangs from them.
BaseFragment(shown, op) ==
    LET keys == ConflictKeys(op)
        named == {o \in Objects : <<"object", o>> \in keys}
        slots == {o \in Objects : <<"entity-branch", o>> \in keys}
        roots == (named \cap OfKind({"memory_entity", "resource"})) \cup slots
        kept(o) == CASE Kind[o] = "memory_relation" ->
                            o \in named \/ Ends(shown[o])
                                \cap (roots \cup (named \cap OfKind({"resource_chunk"}))) # {}
                     [] Kind[o] = "memory_entity_branch" -> shown[o].source \in roots
                     [] Kind[o] = "resource_chunk" ->
                            o \in named \/ shown[o].source \in roots
                     [] OTHER -> o \in roots
    IN  [o \in Objects |-> IF shown[o] # None /\ kept(o) THEN shown[o] ELSE None]

\* Defect: what the remote side removed stays missing under the operation.
NotRehydrated(shown, fragment) == shown

\* rehydrate adds what is missing and changes nothing else.
Rehydrate(shown, fragment) ==
    [o \in Objects |-> IF shown[o] # None THEN shown[o] ELSE fragment[o]]

SeedOf(shown) ==
    [ok |-> TRUE,
     objects |-> [o \in Objects |->
        IF shown[o] = None THEN AbsentObject
        ELSE [status |-> "active", content |-> shown[o]]]]

\* removeShadowed: like the seed of a conflict branch, also under a replacement.
Shadowed(shown, op) ==
    IF op.kind = "replace"
    THEN {x \in OfKind({"memory_relation"}) :
            /\ shown[x] # None
            /\ ConflictKeys(CreateOp(x, shown[x])) \cap ConflictKeys(op) # {}}
    ELSE RemovedForIncoming(SeedOf(shown), op)

RemoveShadowed(shown, op) ==
    [o \in Objects |-> IF o \in Shadowed(shown, op) THEN None ELSE shown[o]]

ShownOf(view) ==
    [o \in Objects |-> IF Active(view, o) THEN view.objects[o].content ELSE None]

\* The records of a list that are in the overlay.
ActiveRecords(records_) ==
    At(records_, {i \in DOMAIN records_ : IsOverlayActive(records_[i].status)})

\* All of them give their fragments first, then all remove what they shadow.
Rehydrated(shown, active) ==
    FoldLeft(LAMBDA s, r : Rehydrate(s, r.fragment), shown, active)

Unshadowed(shown, active) ==
    FoldLeft(LAMBDA s, r : RemoveShadowed(s, r.op), shown, active)

\* The view a list of records gives over a snapshot; it throws when the record
\* of one operation cannot be executed over what the others leave.
Materialize(snapshot, records_) ==
    LET active == ActiveRecords(records_)
        seed == SeedOf(Unshadowed(Rehydrated(snapshot, active), active))
        log == [i \in DOMAIN active |-> [id |-> i, ops |-> <<active[i].op>>]]
    IN  [ok |-> \A i \in DOMAIN log : Executable(seed, SubSeq(log, 1, i - 1), log[i]),
         shown |-> ShownOf(Replay(seed, log))]

RecordsOf(q) == [i \in DOMAIN q |-> operation[q[i]]]
Readable == replica.valid /\ replica.watermark # None
Overlay == Materialize(replica.snapshot, RecordsOf(queue))

-----------------------------------------------------------------------------
(* The durable replica.  persist removes the stores first, then writes them *)
(* again one after the other; it runs without an await.  The loader prefers *)
(* whatever stores it finds.                                               *)

\* The file operations of rebuildStructuredStores by number: the steps that
\* remove and write each store.  manifest and resources are only overwritten.
RemovedAt == [cursor |-> 1, relations |-> 2, history |-> 3, pending |-> 4, vectors |-> 6]
WrittenAt == [cursor |-> 9, history |-> 10, pending |-> 11, relations |-> 14,
              entities |-> 15, branches |-> 16, chunks |-> 17]

\* A store that keeps its content when a persist of it dies at operation k.
Survives(removed, written, k) == k < removed \/ k >= written

SnapshotStore(o, k) ==
    CASE Kind[o] = "memory_relation" ->
            Survives(RemovedAt.relations, WrittenAt.relations, k)
      [] Kind[o] = "memory_entity" -> Survives(RemovedAt.vectors, WrittenAt.entities, k)
      [] Kind[o] = "memory_entity_branch" ->
            Survives(RemovedAt.vectors, WrittenAt.branches, k)
      [] Kind[o] = "resource_chunk" -> Survives(RemovedAt.vectors, WrittenAt.chunks, k)
      [] OTHER -> TRUE

\* loadStateFromStores after a persist of the replica, which the constructor
\* runs on every start, died at operation k.
Loaded(k) ==
    LET cursor == Survives(RemovedAt.cursor, WrittenAt.cursor, k)
    IN  [valid |-> replica.valid,
         watermark |-> IF cursor THEN replica.watermark ELSE None,
         snapshot |-> [o \in Objects |->
            IF cursor /\ SnapshotStore(o, k) THEN replica.snapshot[o] ELSE None],
         head |-> IF Survives(RemovedAt.history, WrittenAt.history, k)
                  THEN replica.head ELSE None,
         stored |-> IF Survives(RemovedAt.pending, WrittenAt.pending, k)
                    THEN replica.stored ELSE <<>>]

\* replacePendingOperations: a copy of the queue goes to the replica.
StoredAs(q, ops) == [i \in DOMAIN q |-> [mutation |-> q[i], record |-> ops[q[i]]]]

\* The process dies and starts again: calls in flight are gone, the overlay is
\* constructed from what the replica stores.
Restart(k) ==
    LET files == Loaded(k)
        at(m) == {i \in DOMAIN files.stored : files.stored[i].mutation = m}
    IN  /\ replica' = files
        /\ queue' = [i \in DOMAIN files.stored |-> files.stored[i].mutation]
        /\ operation' = [m \in LocalMutations |->
                IF at(m) = {} THEN NoRecord
                ELSE files.stored[CHOOSE i \in at(m) : TRUE].record]
        /\ stage' = [c \in Stagers |-> NoDraft]
        /\ push' = IdlePush
        /\ sync' = IdleSync
        /\ UNCHANGED vars

-----------------------------------------------------------------------------
(* stage.                                                                  *)

\* The record is drafted on what the overlay shows and the candidate queue is
\* materialised.  The base is the head the replica knows, as in
\* stageResourceRevision.
Draft(c, m, op) ==
    LET view == Overlay
        record == [op |-> op, base |-> replica.head, status |-> "pending", incoming |-> 0,
                   fragment |-> BaseFragment(view.shown, op)]
    IN  /\ stage[c] = NoDraft
        /\ operation[m] = NoRecord /\ \A d \in Stagers : stage[d].mutation # m
        /\ Readable
        /\ view.ok
        /\ Materialize(replica.snapshot, Append(RecordsOf(queue), record)).ok
        /\ stage' = [stage EXCEPT ![c] =
                [mutation |-> m, record |-> record, candidate |-> Append(queue, m)]]
        /\ UNCHANGED <<vars, operation, queue, replica, push, sync>>

\* The candidate replaces the state, whatever became of the state meanwhile.
Install(c) ==
    /\ stage[c] # NoDraft
    /\ operation' = [operation EXCEPT ![stage[c].mutation] = stage[c].record]
    /\ queue' = stage[c].candidate
    /\ replica' = [replica EXCEPT !.stored = StoredAs(queue', operation')]
    /\ stage' = [stage EXCEPT ![c] = NoDraft]
    /\ UNCHANGED <<vars, push, sync>>

-----------------------------------------------------------------------------
(* push.  The loop runs over the records of the state it started with and   *)
(* stores the queue when it is through.                                     *)

Unsent(list, ops) ==
    LET waiting == {i \in DOMAIN list : ops[list[i]].status = "pending"}
    IN  IF waiting = {} THEN <<>> ELSE SubSeq(list, Min(waiting), Len(list))

\* The loop goes on with a list of records.
Continue(list, ops) ==
    IF Unsent(list, ops) = <<>>
    THEN /\ push' = IdlePush
         /\ replica' = [replica EXCEPT !.stored = StoredAs(queue, ops)]
    ELSE /\ push' = [step |-> "sending", list |-> Unsent(list, ops)]
         /\ UNCHANGED replica

StartPush ==
    /\ push.step = "idle"
    /\ Continue(queue, operation)
    /\ UNCHANGED <<vars, operation, queue, stage, sync>>

\* The cloud executes the command, or finds its stored result.
Execute(m) ==
    LET op == <<operation[m].op>>
        base == operation[m].base
        result == idempotency[<<Main, m>>]
    IN  \/ AcceptWrite(Main, m, base, op)
        \/ ReuseEquivalent(Main, m, base, op)
        \/ CaptureConflict(Main, m, base, op)
        \/ /\ result # NoResult /\ result.ops = op /\ result.base = base
           /\ UNCHANGED vars

Send ==
    /\ push.step = "sending"
    /\ Execute(Head(push.list))
    /\ push' = [push EXCEPT !.step = "answered"]
    /\ UNCHANGED <<operation, queue, replica, stage, sync>>

AnswerOf(m) ==
    IF idempotency[<<Main, m>>].status = "accepted"
    THEN [operation[m] EXCEPT !.status = "pushed"]
    ELSE [operation[m] EXCEPT !.status = "conflicted",
                              !.incoming = idempotency[<<Main, m>>].sequence]

ReceiveAnswer ==
    LET m == Head(push.list)
        answered == [operation EXCEPT ![m] = AnswerOf(m)]
    IN  /\ push.step = "answered"
        /\ operation' = answered
        /\ Continue(Tail(push.list), answered)
        /\ UNCHANGED <<vars, queue, stage, sync>>

\* The command is denied or refused, or its answer is lost: push throws and
\* stores nothing.
PushThrows ==
    /\ push.step # "idle"
    /\ push' = IdlePush
    /\ UNCHANGED <<vars, operation, queue, replica, stage, sync>>

-----------------------------------------------------------------------------
(* PendingOverlaySynchronizer.sync.                                        *)

Everything == [allowed |-> TRUE, tags |-> Values \cup {None},
               types |-> Values \cup {None}, objects |-> Objects]

ViewNow == ViewOf(commits[Main], Everything)

StartSync ==
    /\ sync.step = "idle"
    /\ sync' = [step |-> "asked", known |-> replica.watermark]
    /\ UNCHANGED <<vars, operation, queue, replica, stage, push>>

Before == IF sync.known = None THEN 0 ELSE sync.known

\* Defect: the watermark is that of the next record.
WatermarkAhead == sequence + 1

\* The sequence of the last record the cloud has.
WatermarkOf == sequence

\* What the cloud's batch makes of the replica: a replacement, a delta or
\* nothing but a watermark.  The cloud was told the watermark the call found.
Synchronized ==
    LET shown == ViewNow
        visible(i) == VisibleOperations(records[i].ops, shown)
        history == {i \in (Before + 1)..sequence : visible(i) # {}}
        accepted == history \cap AcceptedOn(Main)
        ops == UNION {visible(i) : i \in accepted}
        replaced == sync.known = None \/ RebuildRequired(ops)
        \* of a replacement the history is replaced too
        head == IF accepted # {} THEN records[Max(accepted)].id
                ELSE IF replaced THEN None ELSE replica.head
    IN  [replica EXCEPT !.valid = TRUE, !.watermark = WatermarkOf, !.head = head,
            !.snapshot = IF replaced THEN shown
                         ELSE IF accepted = {} THEN replica.snapshot
                         ELSE ApplyDelta(replica.snapshot, Delta(ops, shown))]

ApplyBatch ==
    /\ sync.step = "asked"
    /\ replica' = Synchronized
    /\ sync' = [sync EXCEPT !.step = "applied"]
    /\ UNCHANGED <<vars, operation, queue, stage, push>>

\* A synchronisation that is denied: the durable replica drops its pending
\* operations with everything else.
Invalidate ==
    /\ sync.step = "asked"
    /\ replica' = EmptyFiles
    /\ sync' = IdleSync
    /\ UNCHANGED <<vars, operation, queue, stage, push>>

SyncThrows ==
    /\ sync.step = "asked"
    /\ sync' = IdleSync
    /\ UNCHANGED <<vars, operation, queue, replica, stage, push>>

\* How a resolution settles the operation it decides on.
SettledAs(kind) ==
    CASE kind = "take_incoming" -> "resolved"
      [] kind = "keep_target" -> "rejected"
      [] OTHER -> "superseded"

Resolves(i, conflict) ==
    /\ records[i].ops[1].kind = "resolve_conflict"
    /\ conflict \in records[i].ops[1].conflicts

\* Defect: any accepted commit at its keys is taken for the operation's own.
ReconciledByKeys(m, seen) ==
    LET p == operation[m]
        remote == {i \in seen \cap AcceptedOn(Main) :
                    KeysOf(records[i].ops) \cap ConflictKeys(p.op) # {}}
    IN  IF remote # {} /\ IsOverlayActive(p.status)
        THEN [p EXCEPT !.status = "resolved"] ELSE p

\* One record of the queue after the records of the cloud have been looked
\* through.
Reconciled(m, seen) ==
    LET p == operation[m]
        resolutions == {i \in seen : p.incoming # 0 /\ Resolves(i, p.incoming)}
        own == {i \in seen \cap AcceptedOn(Main) : records[i].id = <<Main, m>>}
        remote == {i \in seen \cap AcceptedOn(Main) :
                    KeysOf(records[i].ops) \cap ConflictKeys(p.op) # {}}
    IN  IF ~IsOverlayActive(p.status) THEN p
        ELSE IF resolutions # {}
        THEN [p EXCEPT !.status =
                    SettledAs(records[Min(resolutions)].ops[1].resolution)]
        ELSE IF own # {} THEN [p EXCEPT !.status = "resolved"]
        ELSE IF remote # {} THEN [p EXCEPT !.status = "conflicted"]
        ELSE p

\* Defect: the outcome is kept in memory only.
ReconcileUnstored ==
    LET seen == (Before + 1)..sequence
        inQueue == {queue[i] : i \in DOMAIN queue}
    IN  /\ sync.step = "applied"
        /\ operation' = [m \in LocalMutations |->
                IF m \in inQueue THEN Reconciled(m, seen) ELSE operation[m]]
        /\ sync' = IdleSync
        /\ UNCHANGED <<vars, queue, replica, stage, push>>

\* reconcile looks at the records there are now, from the old watermark on.
Reconcile ==
    LET seen == (Before + 1)..sequence
        inQueue == {queue[i] : i \in DOMAIN queue}
    IN  /\ sync.step = "applied"
        /\ operation' = [m \in LocalMutations |->
                IF m \in inQueue THEN Reconciled(m, seen) ELSE operation[m]]
        /\ replica' = [replica EXCEPT !.stored = StoredAs(queue, operation')]
        /\ sync' = IdleSync
        /\ UNCHANGED <<vars, queue, stage, push>>

-----------------------------------------------------------------------------
Local ==
    \/ \E c \in Stagers, m \in LocalMutations :
            \E op \in StageOps[m] : Draft(c, m, op)
    \/ \E c \in Stagers : Install(c)
    \/ StartPush \/ Send \/ ReceiveAnswer \/ PushThrows
    \/ StartSync \/ ApplyBatch \/ Invalidate \/ SyncThrows \/ Reconcile
    \/ \E k \in TornAt : Restart(k)

\* The other clients, which write on the head here (module CloudHistory has them
\* conflict too), and the administrators.
Remote ==
    /\ \/ \E m \in Mutations \ LocalMutations, ops \in WriteBatches :
            AcceptWrite(Main, m, HeadOf(Main), ops)
       \/ \E r \in Resolutions : ResolveConflict(Main, r)
    /\ UNCHANGED localVars

OverlayNext == Local \/ Remote

OverlaySpec == OverlayInit /\ [][OverlayNext]_allVars

-----------------------------------------------------------------------------
(* Correctness.                                                            *)

LocalRecord(r) == r = NoRecord \/ r \in PendingRecord

OverlayTypeOK ==
    /\ \A m \in LocalMutations : LocalRecord(operation[m])
    /\ queue \in Seq(LocalMutations)
    /\ \A i \in DOMAIN queue : operation[queue[i]] # NoRecord
    /\ replica.valid \in BOOLEAN
    /\ replica.watermark \in 0..sequence \cup {None}
    /\ replica.snapshot \in Shown
    /\ replica.head \in CommitId \cup {None}
    /\ \A i \in DOMAIN replica.stored :
        /\ replica.stored[i].mutation \in LocalMutations
        /\ replica.stored[i].record \in PendingRecord
    /\ \A c \in Stagers : stage[c].mutation \in LocalMutations \cup {None}
    /\ push.step \in {"idle", "sending", "answered"}
    /\ push.list \in Seq(LocalMutations)
    /\ sync.step \in {"idle", "asked", "applied"} /\ Before \in 0..sequence

\* What the cloud decided on an operation, by what its status claims.
DecidedAs(m, status) ==
    LET resolvedAs(kind) == \E i \in AcceptedOn(Main) :
            /\ Resolves(i, operation[m].incoming)
            /\ records[i].ops[1].resolution = kind
    IN  CASE status = "resolved" ->
                \/ \E i \in AcceptedOn(Main) : records[i].id = <<Main, m>>
                \/ resolvedAs("take_incoming")
          [] status = "rejected" -> resolvedAs("keep_target")
          [] OTHER -> resolvedAs("manual_merge")

\* An operation leaves the overlay only by a decision of the cloud that says
\* what its status says: its own commit was accepted, or an administrator
\* resolved the conflict that holds it.  No crash, lost answer, repeated push or
\* late reconciliation settles it otherwise (push, reconcile).
LeavesWhenDecided ==
    \A m \in LocalMutations :
        operation[m].status \in SettledStatus => DecidedAs(m, operation[m].status)

\* The operations of the queue that are in the overlay.
InOverlay == {i \in DOMAIN queue : operation[queue[i]].status \in OverlayStatus}

\* What an operation names.
Position(op) ==
    {op.object} \cup (IF op.kind \in {"create", "update"} THEN Ends(op.content) ELSE {})

\* Until then it is what the local view shows at its position, whatever the
\* snapshot under it brings: the last active operation at a position is in
\* force there (materialize with rehydrate and removeShadowed).
ShadowsUntilDecided ==
    LET view == Overlay
        later(i) == UNION {Position(operation[queue[j]].op) : j \in {k \in InOverlay : k > i}}
    IN  Readable /\ view.ok =>
            \A i \in InOverlay :
                LET op == operation[queue[i]].op
                IN  Position(op) \cap later(i) = {} => InForce(SeedOf(view.shown), op)

\* Two things make a readable replica unreadable through its overlay: an active
\* operation hangs from an object, or the root, that the snapshot does not show
\* and no operation before it names; or one active operation creates an object
\* that another names, since a push that receives its answer after the
\* reconciliation brings an operation back among those that were staged without
\* it.  A remote update, tombstone or creation of the operation's own object
\* never does.
UnreadableOnlyWithoutBase ==
    Readable /\ ~Overlay.ok =>
        \/ replica.snapshot[Root] = None
        \/ \E i \in InOverlay :
            LET op == operation[queue[i]].op
            IN  \/ \E e \in Position(op) \ {op.object} :
                    /\ replica.snapshot[e] = None
                    /\ \A j \in InOverlay : j < i => operation[queue[j]].op.object # e
                \/ /\ op.kind = "create"
                   /\ \E j \in InOverlay \ {i} : op.object \in Position(operation[queue[j]].op)

\* Push stores statuses only when it is through, stage and reconcile at their
\* end, and the process may die before: unless the replica was invalidated and
\* dropped its copy, it stores every operation of the queue as it was staged, a
\* restart brings none back that has left the overlay, and those it no longer
\* shows the cloud has decided.  (The process itself may show such a one: a push
\* that receives its answer after the reconciliation sets it back to pushed.)
RestartAgrees ==
    replica.stored # <<>> =>
        /\ queue = [i \in DOMAIN replica.stored |-> replica.stored[i].mutation]
        /\ \A i \in DOMAIN queue :
            LET kept == replica.stored[i].record
                held == operation[queue[i]]
            IN  /\ <<kept.op, kept.base, kept.fragment>> = <<held.op, held.base, held.fragment>>
                /\ kept.status \in OverlayStatus => held.status \in OverlayStatus
                /\ kept.status \in SettledStatus => DecidedAs(queue[i], kept.status)

\* A conflicted operation waits for an administrator, who can only resolve a
\* conflict the cloud knows: unless a push is on its way with the answer, its
\* conflict is in the cloud.
ConflictsReachCloud ==
    \A m \in LocalMutations :
        push.step = "idle" /\ operation[m].status = "conflicted" =>
            \E n \in DOMAIN conflicts : conflicts[n].id = operation[m].incoming
===============================================================================
