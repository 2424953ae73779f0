---------------------------- MODULE ReplicaProofs ----------------------------
(***************************************************************************)
(* Proofs about the working replica: its type, that queries read a         *)
(* snapshot with a fresh watermark, that what it shows was let through by  *)
(* a grant it names, that it is the view of its watermarks, and that local *)
(* revisions are based on the latest record.                               *)
(*                                                                         *)
(* The first part is about pure operators: what a replay of the branch     *)
(* gives, that a filtered view is closed, what a batch says of the branch  *)
(* it was made from.  The invariant SyncInv of one synchronisation at a    *)
(* time says the same of the batch a call carries.  The last part follows  *)
(* the changes of a view from one record to a later one and shows that a   *)
(* delta brings exactly these, as long as nothing is removed.              *)
(***************************************************************************)
EXTENDS WorkingReplica, MemoryProofs

-----------------------------------------------------------------------------
(* What a replay of the branch gives.                                      *)

\* What the commits of a branch are made of: the operations of clients, and
\* reverts.
BranchOperation == ClientOperation \cup {RevertOp(n) : n \in Nat}

\* Reverts leave a view as it is and expand to themselves.
LEMMA BranchOperationsAreApplicable ==
    Applicable(BranchOperation) /\ Expandable(BranchOperation)
<1>1. ASSUME NEW n \in Nat, NEW op, op = RevertOp(n), NEW v \in MemoryView
      PROVE  ApplyOperation(v, op) = v
  BY <1>1 DEF RevertOp, ApplyOperation
<1>2. Applicable(BranchOperation)
  <2> SUFFICES ASSUME NEW v \in MemoryView, NEW op \in BranchOperation
               PROVE  ApplyOperation(v, op) \in MemoryView
    BY DEF Applicable
  <2>1. CASE op \in ClientOperation
    BY <2>1, OperationsAreApplicable DEF Applicable, ClientOperation
  <2>2. CASE op \in {RevertOp(n) : n \in Nat}
    BY <1>1, <2>2
  <2> QED
    BY <2>1, <2>2 DEF BranchOperation
<1>3. ASSUME NEW op \in BranchOperation
      PROVE  Expand(op) \in Seq(BranchOperation)
  <2>1. CASE op.kind = "replace"
    <3> DEFINE t == TombstoneOp(op.object)
               c == CreateOp(op.by, op.content)
    <3>1. op \in ClientOperation
      BY <2>1 DEF BranchOperation, RevertOp
    <3>2. t \in MutationOperation /\ c \in MutationOperation
      BY <2>1, <3>1, ReplaceParts DEF ClientOperation
    <3>3. t.kind = "tombstone" /\ c.kind = "create" /\ c.object = op.by /\ c.content = op.content
      BY DEF TombstoneOp, CreateOp
    <3>4. t \in BranchOperation /\ c \in BranchOperation
      BY <2>1, <3>1, <3>2, <3>3 DEF BranchOperation, ClientOperation
    <3>5. Expand(op) = <<t, c>>
      BY <2>1 DEF Expand
    <3> HIDE DEF t, c
    <3> QED
      BY <3>4, <3>5
  <2>2. CASE op.kind # "replace"
    <3>1. Expand(op) = <<op>>
      BY <2>2 DEF Expand
    <3> QED
      BY <3>1
  <2> QED
    BY <2>1, <2>2
<1> QED
  BY <1>2, <1>3 DEF Expandable

Commits == [id: Nat, ops: Seq(BranchOperation)]

\* What every step of a fold keeps, its result has.
LEMMA PathKeeps ==
    ASSUME NEW n \in Nat, NEW T, NEW base, NEW F, NEW r, Leads(n, T, base, F, r),
           NEW K, base \in K,
           \A t \in T \cap K, k \in 1..n : F[<<t, k>>] \in K
    PROVE  r \in K
<1>1. PICK h \in [0..n -> T] : IsPath(h, n, base, F) /\ h[n] = r
  BY DEF Leads
<1> DEFINE S == {k \in 0..n : h[k] \in K}
<1>2. 0 \in S
  BY <1>1 DEF IsPath
<1>3. ASSUME NEW k \in 0..n, k \in S, k < n
      PROVE  k + 1 \in S
  <2>1. k + 1 \in 1..n /\ (k + 1) - 1 = k
    BY <1>3
  <2>2. h[k + 1] = F[<<h[k], k + 1>>]
    BY <1>1, <2>1 DEF IsPath
  <2>3. h[k] \in T \cap K
    BY <1>1, <1>3
  <2> QED
    BY <2>1, <2>2, <2>3
<1>4. 0..n \subseteq S
  <2> HIDE DEF S
  <2> QED
    BY <1>2, <1>3, BoundedInduction
<1> QED
  BY <1>1, <1>4

\* Every object a view has is what its kind asks for.
FormedViews ==
    {v \in MemoryView : \A o \in Objects : Present(v, o) => WellFormed(o, v.objects[o].content)}

\* An operation of the branch keeps that.
LEMMA OperationIsFormed ==
    ASSUME NEW v \in FormedViews, NEW op \in BranchOperation
    PROVE  ApplyOperation(v, op) \in FormedViews
<1>1. v \in MemoryView /\ \A o \in Objects : Present(v, o) => WellFormed(o, v.objects[o].content)
  BY DEF FormedViews
<1>2. PICK w : w = ApplyOperation(v, op)
  OBVIOUS
<1>3. w \in MemoryView
  BY <1>1, <1>2, BranchOperationsAreApplicable DEF Applicable
<1>4. CASE ~v.ok \/ op.kind \notin {"create", "update", "tombstone"}
  BY <1>2, <1>4 DEF ApplyOperation
<1>5. ASSUME op.kind \in {"create", "update", "tombstone"}
      PROVE  /\ op \in ClientOperation /\ op.object \in Objects
             /\ op.kind \in {"create", "update"} => WellFormed(op.object, op.content)
  BY <1>5 DEF BranchOperation, RevertOp, ClientOperation, MutationOperation, OfKind
<1>6. ASSUME NEW o \in Objects, NEW status, NEW content, NEW u,
             u = Store(v, o, status, content), WellFormed(o, content)
      PROVE  \A x \in Objects : Present(u, x) => WellFormed(x, u.objects[x].content)
  BY <1>1, <1>6 DEF Store, Present, MemoryView
<1>7. ASSUME NEW u, u = [v EXCEPT !.ok = FALSE]
      PROVE  \A x \in Objects : Present(u, x) => WellFormed(x, u.objects[x].content)
  BY <1>1, <1>7 DEF Present, MemoryView
<1>8. CASE v.ok /\ op.kind = "create"
  <2>1. w = ApplyCreate(v, op.object, op.content)
    BY <1>2, <1>8 DEF ApplyOperation
  <2>2. \/ w = Store(v, op.object, "active", op.content)
        \/ w = [v EXCEPT !.ok = FALSE]
    BY <2>1, Zenon DEF ApplyCreate
  <2>3. \A x \in Objects : Present(w, x) => WellFormed(x, w.objects[x].content)
    BY <1>5, <1>6, <1>7, <1>8, <2>2
  <2> QED
    BY <1>2, <1>3, <2>3 DEF FormedViews
<1>9. CASE v.ok /\ op.kind = "update"
  <2>1. w = ApplyUpdate(v, op.object, op.content)
    BY <1>2, <1>9 DEF ApplyOperation
  <2>2. \/ \E status : w = Store(v, op.object, status, op.content)
        \/ w = [v EXCEPT !.ok = FALSE]
    BY <2>1, Zenon DEF ApplyUpdate
  <2>3. \A x \in Objects : Present(w, x) => WellFormed(x, w.objects[x].content)
    BY <1>5, <1>6, <1>7, <1>9, <2>2
  <2> QED
    BY <1>2, <1>3, <2>3 DEF FormedViews
<1>10. CASE v.ok /\ op.kind = "tombstone"
  <2>1. w = ApplyTombstone(v, op.object)
    BY <1>2, <1>10 DEF ApplyOperation
  <2>2. \A x \in Objects : Present(w, x) => Present(v, x)
    BY <1>1, <2>1 DEF ApplyTombstone, Cascade, Present, MemoryView, MemoryObject
  <2>3. \A x \in Objects : w.objects[x].content = v.objects[x].content
    BY <1>1, <2>1 DEF ApplyTombstone, MemoryView, MemoryObject
  <2>4. \A x \in Objects : Present(w, x) => WellFormed(x, w.objects[x].content)
    BY <1>1, <2>2, <2>3
  <2> QED
    BY <1>2, <1>3, <2>4 DEF FormedViews
<1> QED
  BY <1>4, <1>8, <1>9, <1>10

\* Commits of a branch replay, whatever is reverted.
LEMMA CommitsReplay ==
    ASSUME NEW reverted
    PROVE  Replayable(reverted, Commits)
<1> SUFFICES ASSUME NEW v \in MemoryView, NEW commit \in Commits
             PROVE  ApplyCommit(reverted, v, commit) \in MemoryView
  BY DEF Replayable
<1>1. commit.ops \in Seq(BranchOperation)
  BY DEF Commits
<1>2. PICK some \in BranchOperation : TRUE
  BY DEF BranchOperation
<1>3. Expanded(commit.ops) \in Seq(BranchOperation)
  BY <1>1, <1>2, BranchOperationsAreApplicable, ExpandedSteps
<1>4. ApplyAll(v, Expanded(commit.ops)) \in MemoryView
  BY <1>2, <1>3, BranchOperationsAreApplicable, ApplyAllSteps
<1> QED
  BY <1>4 DEF ApplyCommit

\* So does a replay of the branch.
LEMMA ReplayIsFormed ==
    ASSUME NEW log \in Seq(Commits)
    PROVE  Replay(SeedView, log) \in FormedViews
<1>1. SeedView \in FormedViews
  <2>1. SeedView \in MemoryView
    BY DEF SeedView, MemoryView, MemoryObject, AbsentObject, NoContent, Content
  <2>2. ASSUME NEW o \in Objects, Present(SeedView, o)
        PROVE  WellFormed(o, SeedView.objects[o].content)
    <3>1. o \in SeedObjects /\ SeedView.objects[o].content = NoContent
      BY <2>2 DEF SeedView, Present, AbsentObject
    <3>2. Kind[o] = "memory_entity"
      BY <3>1, MemoryModelAssumption
    <3> QED
      BY <3>1, <3>2 DEF WellFormed, NoContent
  <2> QED
    BY <2>1, <2>2 DEF FormedViews
<1>2. ASSUME NEW v \in FormedViews, NEW ops \in Seq(BranchOperation)
      PROVE  ApplyAll(v, ops) \in FormedViews
  <2>1. PICK F : F = [p \in MemoryView \X (1..Len(ops)) |-> ApplyOperation(p[1], ops[p[2]])]
    OBVIOUS
  <2>2. v \in MemoryView
    BY DEF FormedViews
  <2>3. Leads(Len(ops), MemoryView, v, F, ApplyAll(v, ops))
    BY <2>1, <2>2, BranchOperationsAreApplicable, ApplyAllPath
  <2>4. ASSUME NEW t \in MemoryView \cap FormedViews, NEW k \in 1..Len(ops)
        PROVE  F[<<t, k>>] \in FormedViews
    <3>1. F[<<t, k>>] = ApplyOperation(t, ops[k]) /\ ops[k] \in BranchOperation
      BY <2>1, ElementOfSeq
    <3> QED
      BY <3>1, OperationIsFormed
  <2>5. Len(ops) \in Nat
    BY LenProperties
  <2> QED
    BY <2>3, <2>4, <2>5, PathKeeps
<1>3. ASSUME NEW ops \in Seq(BranchOperation)
      PROVE  Expanded(ops) \in Seq(BranchOperation)
  <2>1. PICK some \in BranchOperation : TRUE
    BY DEF BranchOperation
  <2> QED
    BY <2>1, BranchOperationsAreApplicable, ExpandedSteps
<1> DEFINE reverted == RevertedCommits(log)
<1>4. ASSUME NEW v \in FormedViews, NEW commit \in Commits
      PROVE  ApplyCommit(reverted, v, commit) \in FormedViews
  BY <1>2, <1>3 DEF ApplyCommit, Commits
<1>5. Replayable(reverted, Commits)
  BY CommitsReplay
<1> HIDE DEF reverted
<1>6. PICK F : F = [p \in MemoryView \X (1..Len(log)) |-> ApplyCommit(reverted, p[1], log[p[2]])]
  OBVIOUS
<1>7. Leads(Len(log), MemoryView, SeedView, F, ReplayWith(reverted, SeedView, log))
  <2>1. SeedView \in MemoryView
    BY <1>1 DEF FormedViews
  <2> QED
    BY <1>5, <1>6, <2>1, ReplayWithPath
<1>8. ASSUME NEW t \in MemoryView \cap FormedViews, NEW k \in 1..Len(log)
      PROVE  F[<<t, k>>] \in FormedViews
  <2>1. F[<<t, k>>] = ApplyCommit(reverted, t, log[k]) /\ log[k] \in Commits
    BY <1>6, ElementOfSeq
  <2> QED
    BY <1>4, <2>1
<1>9. Len(log) \in Nat
  BY LenProperties
<1>10. ReplayWith(reverted, SeedView, log) \in FormedViews
  BY <1>1, <1>7, <1>8, <1>9, PathKeeps
<1> QED
  BY <1>10, ReplayIsFold DEF reverted

-----------------------------------------------------------------------------
(* What an authorized view shows.                                          *)

\* A view shows contents.
LEMMA ViewIsShown ==
    ASSUME NEW log \in Seq(Commits), NEW admission
    PROVE  ViewOf(log, admission) \in Shown
<1>1. Replay(SeedView, log) \in MemoryView
  BY ReplayIsFormed DEF FormedViews
<1>2. \A o \in Objects : Replay(SeedView, log).objects[o].content \in Content
  BY <1>1 DEF MemoryView, MemoryObject
<1> QED
  BY <1>2 DEF ViewOf, Shown

\* Only what the admission lets through.
LEMMA ViewIsAdmitted ==
    ASSUME NEW log, NEW admission, NEW o \in Objects,
           ViewOf(log, admission)[o] # None
    PROVE  Admits(admission, o, ViewOf(log, admission)[o])
<1> DEFINE view == Replay(SeedView, log)
           roots == AdmittedRoots(view, OperationsInForce(log), admission)
<1>1. CASE Kind[o] = "memory_entity_branch"
  <2>1. view.objects[o].content.value \in admission.tags /\ ViewOf(log, admission)[o] = view.objects[o].content
    BY <1>1 DEF ViewOf
  <2> QED
    BY <1>1, <2>1 DEF Admits
<1>2. CASE Kind[o] \in {"memory_entity", "resource"}
  <2>1. o \in AdmittedEnds(view, roots)
    BY <1>2 DEF ViewOf
  <2>2. o \in roots
    BY <1>2, <2>1 DEF AdmittedEnds, OfKind
  <2>3. o = Root \/ o \in admission.objects
    BY <2>2 DEF AdmittedRoots
  <2> QED
    BY <1>2, <2>3 DEF Admits
<1> QED
  BY <1>1, <1>2 DEF Admits

\* And nothing without what it hangs from.
LEMMA ViewIsClosed ==
    ASSUME NEW log \in Seq(Commits), NEW admission, None \notin Content, NEW o \in Objects,
           ViewOf(log, admission)[o] # None, NEW x \in Ends(ViewOf(log, admission)[o])
    PROVE  x \in Objects /\ ViewOf(log, admission)[x] # None
<1> DEFINE view == Replay(SeedView, log)
           shown == ViewOf(log, admission)
           roots == AdmittedRoots(view, OperationsInForce(log), admission)
           ends == AdmittedEnds(view, roots)
<1>1. view \in MemoryView /\ \A y \in Objects : Present(view, y) => WellFormed(y, view.objects[y].content)
  BY ReplayIsFormed DEF FormedViews
<1>2. Kind[o] \in ObjectKinds
  BY MemoryModelAssumption
<1>3. /\ Active(view, o) /\ shown[o] = view.objects[o].content
      /\ Kind[o] = "memory_entity_branch" => view.objects[o].content.source \in roots
      /\ Kind[o] = "memory_relation" => Ends(view.objects[o].content) \subseteq ends
      /\ Kind[o] \in {"memory_entity", "resource", "resource_chunk"} => o \in ends
  BY DEF ViewOf
<1>4. ASSUME NEW y \in ends
      PROVE  y \in Objects /\ shown[y] # None
  <2>1. y \in Objects /\ Active(view, y) /\ Kind[y] \in {"memory_entity", "resource", "resource_chunk"}
    BY <1>4 DEF AdmittedEnds, AdmittedRoots, OfKind
  <2>2. shown[y] = view.objects[y].content
    BY <1>4, <2>1 DEF ViewOf
  <2>3. view.objects[y].content \in Content
    BY <1>1, <2>1 DEF MemoryView, MemoryObject
  <2> QED
    BY <2>1, <2>2, <2>3
<1>5. WellFormed(o, shown[o])
  BY <1>1, <1>3 DEF Active, Present
<1>6. x \in ends
  <2>1. CASE Kind[o] = "memory_entity_branch"
    <3>1. x = shown[o].source
      BY <1>5, <2>1 DEF WellFormed, Ends
    <3> QED
      BY <1>3, <2>1, <3>1 DEF AdmittedEnds
  <2>2. CASE Kind[o] = "memory_relation"
    BY <1>3, <2>2
  <2>3. CASE Kind[o] = "resource_chunk"
    <3>1. x = shown[o].source
      BY <1>5, <2>3 DEF WellFormed, Ends
    <3>2. o \notin roots
      BY <2>3 DEF AdmittedRoots
    <3>3. shown[o].source \in roots
      BY <1>3, <2>3, <3>2 DEF AdmittedEnds
    <3> QED
      BY <3>1, <3>3 DEF AdmittedEnds
  <2>4. CASE Kind[o] \in {"memory_entity", "resource"}
    BY <1>5, <2>4 DEF WellFormed, Ends
  <2> QED
    BY <1>2, <2>1, <2>2, <2>3, <2>4 DEF ObjectKinds
<1> HIDE DEF ends, shown
<1> QED
  BY <1>4, <1>6 DEF shown

-----------------------------------------------------------------------------
(* The types of everything a synchronisation handles.                      *)

BranchRecord == [id: Nat, ops: Seq(BranchOperation), status: {"accepted", "conflicted"}]

\* A function that gives the new contents of some objects.
Changes == UNION {[D -> Content] : D \in SUBSET Objects}

AnyBatch ==
    Batch \cup [kind: {"delta"}, identity: Identity, history: SUBSET (1..MaxRecords),
                delta: [changed: Changes, removed: SUBSET Objects]]

Steps == {"idle", "deciding", "stamping", "answering", "applying"}

CallRecord ==
    [step: Steps, known: Identity \cup {None}, scope: Scopes \cup {None},
     version: 0..MaxVersions, stamp: 0..MaxVersions, batch: AnyBatch]

QueryRecord == [step: {"idle", "asked"}, permission: 0..MaxVersions, current: 0..MaxVersions]

RecordsTyped ==
    /\ records \in Seq(BranchRecord) /\ Len(records) <= MaxRecords
    /\ \A s \in DOMAIN records : records[s].id = s

GrantsTyped == grants \in Seq(Grants) /\ Len(grants) \in Version

\* A call under way has a scope; one that waits for its answer has read the
\* permission watermark.
CallsTyped ==
    /\ call \in [Calls -> CallRecord]
    /\ \A c \in Calls :
        /\ call[c].step # "idle" => call[c].scope \in Scopes
        /\ call[c].step = "answering" => call[c].stamp \in Version

Typed == RecordsTyped /\ GrantsTyped /\ CallsTyped /\ store \in Replica /\ query \in QueryRecord

\* What an operation of the branch names.
LEMMA OperationParts ==
    ASSUME NEW op \in BranchOperation
    PROVE  /\ op.kind \in {"create", "update", "tombstone"} => op.object \in Objects
           /\ op.kind = "create" /\ Kind[op.object] = "memory_entity_branch"
                => op.content.source \in Objects
<1>1. CASE op \in ClientOperation
  <2>1. op.kind \in {"create", "update", "tombstone"} => op.object \in Objects
    BY <1>1 DEF ClientOperation, MutationOperation, OfKind
  <2>2. ASSUME op.kind = "create", Kind[op.object] = "memory_entity_branch"
        PROVE  op.content.source \in Objects
    BY <1>1, <2>2 DEF ClientOperation, WellFormed
  <2> QED
    BY <2>1, <2>2
<1>2. CASE op \notin ClientOperation
  BY <1>2 DEF BranchOperation, RevertOp
<1> QED
  BY <1>1, <1>2

\* The log up to a watermark is a list of commits.
LEMMA LogIsTyped ==
    ASSUME RecordsTyped, NEW n \in 0..Len(records)
    PROVE  LogUpTo(n) \in Seq(Commits)
<1> DEFINE I == {s \in 1..n : records[s].status = "accepted"}
           accepted == At(records, I)
<1>1. Len(records) \in Nat /\ \A s \in 1..Len(records) : records[s] \in BranchRecord
  BY LenProperties, ElementOfSeq DEF RecordsTyped
<1>2. I \in SUBSET (1..n) /\ n \in Nat
  BY <1>1
<1>3. LogUpTo(n) = [i \in DOMAIN accepted |-> [id |-> accepted[i].id, ops |-> accepted[i].ops]]
  BY DEF LogUpTo
<1> HIDE DEF I
<1>4. Cardinality(I) \in Nat /\ DOMAIN accepted = 1..Cardinality(I)
  BY <1>2, AtLength
<1>5. TakesFrom(accepted, records, I)
  BY <1>2, AtElements
<1> HIDE DEF accepted
<1>6. ASSUME NEW i \in 1..Cardinality(I)
      PROVE  [id |-> accepted[i].id, ops |-> accepted[i].ops] \in Commits
  <2>1. PICK s \in I : accepted[i] = records[s]
    BY <1>5 DEF TakesFrom
  <2>2. records[s] \in BranchRecord
    BY <1>1, <1>2
  <2> QED
    BY <2>1, <2>2 DEF BranchRecord, Commits
<1>7. LogUpTo(n) \in [1..Cardinality(I) -> Commits]
  BY <1>3, <1>4, <1>6
<1> QED
  BY <1>4, <1>7, FunctionIsSeq

\* So a view of the branch is one that can be shown.
LEMMA ViewAtIsShown ==
    ASSUME RecordsTyped, NEW n \in 0..Len(records), NEW v, NEW scope
    PROVE  ViewAt(n, v, scope) \in Shown
BY LogIsTyped, ViewIsShown DEF ViewAt

\* The operations of a record that are visible are operations of the branch.
LEMMA VisibleIsTyped ==
    ASSUME RecordsTyped, NEW s \in 1..Len(records), NEW shown
    PROVE  VisibleOf(s, shown) \subseteq BranchOperation
<1>1. records[s] \in BranchRecord
  BY ElementOfSeq DEF RecordsTyped
<1>2. PICK ops \in Seq(BranchOperation) : ops = Expanded(records[s].ops)
  <2>1. PICK some \in BranchOperation : TRUE
    BY DEF BranchOperation
  <2>2. records[s].ops \in Seq(BranchOperation)
    BY <1>1 DEF BranchRecord
  <2> QED
    BY <2>1, <2>2, BranchOperationsAreApplicable, ExpandedSteps
<1>3. \A i \in DOMAIN ops : ops[i] \in BranchOperation
  BY <1>2, ElementOfSeq, LenProperties
<1> QED
  BY <1>2, <1>3 DEF VisibleOf, VisibleOperations, ToSet

\* A delta gives contents to objects and removes objects.
LEMMA DeltaIsTyped ==
    ASSUME NEW ops \in SUBSET BranchOperation, NEW shown \in Shown
    PROVE  Delta(ops, shown) \in [changed: Changes, removed: SUBSET Objects]
<1>1. Delivered(ops, shown) \in SUBSET Objects
  BY DEF Delivered
<1>2. [o \in Delivered(ops, shown) |-> shown[o]] \in [Delivered(ops, shown) -> Content]
  BY DEF Delivered, Shown
<1>3. Touched(ops) \subseteq Objects
  BY OperationParts DEF Touched
<1>4. Removed(ops, shown) \subseteq Objects
  BY <1>3, OperationParts DEF Removed
<1>5. [o \in Delivered(ops, shown) |-> shown[o]] \in Changes
  BY <1>1, <1>2 DEF Changes
<1> QED
  BY <1>4, <1>5 DEF Delta

\* What the cloud answers is a batch.
LEMMA BatchIsTyped ==
    ASSUME Typed, NEW known \in Identity \cup {None}, NEW identity \in Identity,
           NEW shown \in Shown
    PROVE  BatchFor(known, identity, shown) \in AnyBatch
<1> DEFINE since == IF Replacing(known, identity) THEN 0 ELSE known.commit
           history == HistoryAfter(since, shown)
           accepted == {s \in history : records[s].status = "accepted"}
           ops == UNION {VisibleOf(s, shown) : s \in accepted}
<1>1. Len(records) \in Nat /\ Len(records) <= MaxRecords /\ MaxRecords \in Nat
  BY LenProperties, WorkingReplicaAssumption DEF Typed, RecordsTyped
<1>2. since \in Nat
  <2>1. CASE Replacing(known, identity)
    BY <2>1
  <2>2. CASE ~Replacing(known, identity)
    <3>1. known \in Identity
      BY <2>2 DEF Replacing
    <3> QED
      BY <1>1, <2>2, <3>1 DEF Identity, Watermark
  <2> QED
    BY <2>1, <2>2
<1> HIDE DEF since
<1>3. history \subseteq 1..Len(records)
  BY <1>1, <1>2 DEF HistoryAfter
<1>4. history \in SUBSET (1..MaxRecords)
  BY <1>1, <1>3
<1>5. ops \in SUBSET BranchOperation
  BY <1>3, VisibleIsTyped DEF Typed
<1>6. Delta(ops, shown) \in [changed: Changes, removed: SUBSET Objects]
  BY <1>5, DeltaIsTyped
<1>7. BatchFor(known, identity, shown) \in
        {[kind |-> "replace", identity |-> identity, history |-> history, snapshot |-> shown],
         [kind |-> "noop", identity |-> identity, history |-> history],
         [kind |-> "delta", identity |-> identity, history |-> history,
          delta |-> Delta(ops, shown)]}
  BY Zenon DEF BatchFor, since
<1> HIDE DEF history, ops
<1> QED
  BY <1>4, <1>6, <1>7 DEF AnyBatch, Batch

-----------------------------------------------------------------------------
(* Steps keep the types.                                                   *)
\* What is there when nothing has happened.
LEMMA EmptyIsTyped ==
    IdleCall \in CallRecord /\ EmptyReplica \in Replica /\ IdleQuery \in QueryRecord
<1>1. 0 \in 0..MaxVersions
  BY WorkingReplicaAssumption
<1>2. NoBatch \in AnyBatch
  BY DEF AnyBatch, Batch, NoBatch
<1>3. IdleCall \in CallRecord
  BY <1>1, <1>2 DEF IdleCall, CallRecord, Steps
<1>4. EmptyReplica \in Replica
  BY <1>1 DEF EmptyReplica, Replica, Hidden, Shown
<1>5. IdleQuery \in QueryRecord
  BY <1>1 DEF IdleQuery, QueryRecord
<1> QED
  BY <1>3, <1>4, <1>5

\* Nothing has happened at first.
LEMMA StartsTyped == Init => Typed
<1> SUFFICES ASSUME Init PROVE Typed
  OBVIOUS
<1>1. RecordsTyped
  BY WorkingReplicaAssumption DEF Init, RecordsTyped
<1>2. GrantsTyped
  <2>1. FirstGrant \in Grants /\ 1 \in Version
    BY WorkingReplicaAssumption DEF Version
  <2> QED
    BY <2>1 DEF Init, GrantsTyped
<1>3. CallsTyped
  <2>1. IdleCall.step = "idle"
    BY DEF IdleCall
  <2> QED
    BY <2>1, EmptyIsTyped DEF Init, CallsTyped
<1>4. store \in Replica /\ query \in QueryRecord
  BY EmptyIsTyped DEF Init
<1> QED
  BY <1>1, <1>2, <1>3, <1>4 DEF Typed

\* A record at the end of the branch.
LEMMA RecordTyped ==
    ASSUME Typed, NEW ops \in Seq(BranchOperation), NEW status \in {"accepted", "conflicted"},
           Record(ops, status)
    PROVE  Typed'
<1> DEFINE r == [id |-> Len(records) + 1, ops |-> ops, status |-> status]
<1>1. records \in Seq(BranchRecord) /\ Len(records) \in Nat
  BY LenProperties DEF Typed, RecordsTyped
<1>2. r \in BranchRecord
  BY <1>1 DEF BranchRecord
<1>3. records' = Append(records, r)
  BY DEF Record
<1> HIDE DEF r
<1>4. /\ records' \in Seq(BranchRecord) /\ Len(records') = Len(records) + 1
      /\ \A s \in 1..Len(records) : records'[s] = records[s]
      /\ records'[Len(records) + 1] = r
  BY <1>1, <1>2, <1>3, AppendProperties
<1>5. DOMAIN records = 1..Len(records) /\ DOMAIN records' = 1..(Len(records) + 1)
  BY <1>1, <1>4, LenProperties
<1>6. RecordsTyped'
  <2>1. \A s \in DOMAIN records' : records'[s].id = s
    BY <1>1, <1>4, <1>5 DEF r, Typed, RecordsTyped
  <2>2. Len(records') <= MaxRecords
    BY <1>1, <1>4, WorkingReplicaAssumption DEF Record
  <2> QED
    BY <1>4, <2>1, <2>2 DEF RecordsTyped
<1> QED
  BY <1>6 DEF Record, Typed, GrantsTyped, CallsTyped

\* The lists of operations that are recorded.
LEMMA RecordedOperations ==
    ASSUME Typed
    PROVE  Batches \cup Incoming \cup Reverts \subseteq Seq(BranchOperation)
<1>1. Batches \cup Incoming \subseteq Seq(BranchOperation)
  <2>1. Batches \cup Incoming \subseteq Seq(ClientOperation)
    BY WorkingReplicaAssumption
  <2>2. \A s \in Seq(ClientOperation) : s \in Seq(BranchOperation)
    BY SeqDef DEF BranchOperation
  <2> QED
    BY <2>1, <2>2
<1>2. ASSUME NEW i \in DOMAIN records
      PROVE  <<RevertOp(records[i].id)>> \in Seq(BranchOperation)
  <2>1. records[i].id \in Nat
    BY <1>2, LenProperties, ElementOfSeq DEF Typed, RecordsTyped, BranchRecord
  <2>2. RevertOp(records[i].id) \in BranchOperation
    BY <2>1 DEF BranchOperation
  <2> QED
    BY <2>2
<1> QED
  BY <1>1, <1>2 DEF Reverts

\* A step of one call changes that call.
LEMMA CallTyped ==
    ASSUME CallsTyped, NEW c \in Calls, NEW r \in CallRecord,
           r.step # "idle" => r.scope \in Scopes,
           r.step = "answering" => r.stamp \in Version,
           call' = [call EXCEPT ![c] = r]
    PROVE  CallsTyped'
BY DEF CallsTyped

\* Every step keeps the types.
LEMMA StepsTyped == Typed /\ [Next]_vars => Typed'
<1> SUFFICES ASSUME Typed, [Next]_vars
             PROVE  Typed'
  OBVIOUS
<1> USE DEF Typed
<1>1. CurrentVersion \in Version /\ Version \subseteq 0..MaxVersions
  BY WorkingReplicaAssumption DEF Version, GrantsTyped, CurrentVersion
<1>2. IdleCall \in CallRecord
  BY EmptyIsTyped
<1>3. EmptyReplica \in Replica
  BY EmptyIsTyped
<1>4. IdleQuery \in QueryRecord
  BY EmptyIsTyped
<1>5. ASSUME NEW c \in Calls
      PROVE  /\ call[c] \in CallRecord
             /\ call[c].step # "idle" => call[c].scope \in Scopes
             /\ call[c].step = "answering" => call[c].stamp \in Version
  BY <1>5 DEF CallsTyped
<1>6. ASSUME NEW c \in Calls, Finished(c)
      PROVE  CallsTyped'
  <2>1. IdleCall.step = "idle"
    BY DEF IdleCall
  <2> QED
    BY <1>2, <1>6, <2>1, CallTyped DEF Finished
<1>7. ASSUME NEW ops \in Batches \cup Reverts, Commit(ops)
      PROVE  Typed'
  BY <1>7, RecordedOperations, RecordTyped DEF Commit
<1>8. ASSUME NEW ops \in Incoming, Capture(ops)
      PROVE  Typed'
  BY <1>8, RecordedOperations, RecordTyped DEF Capture
<1>9. ASSUME NEW g \in Grants, ChangeGrant(g)
      PROVE  Typed'
  <2>1. grants \in Seq(Grants) /\ Len(grants) \in Version /\ Len(grants) < MaxVersions
    BY <1>9 DEF ChangeGrant, GrantsTyped, CurrentVersion
  <2>2. grants' = Append(grants, g)
    BY <1>9 DEF ChangeGrant
  <2>3. grants' \in Seq(Grants) /\ Len(grants') = Len(grants) + 1
    BY <2>1, <2>2, AppendProperties
  <2>4. GrantsTyped'
    BY <2>1, <2>3, WorkingReplicaAssumption DEF GrantsTyped, Version
  <2> QED
    BY <1>9, <2>4 DEF ChangeGrant, RecordsTyped, CallsTyped
<1>10. ASSUME NEW c \in Calls, NEW scope \in Scopes, Start(c, scope)
       PROVE  Typed'
  <2> DEFINE r == [IdleCall EXCEPT !.step = "deciding", !.known = store.identity, !.scope = scope]
  <2>1. r \in CallRecord /\ r.step = "deciding" /\ r.scope = scope
    BY <1>2 DEF IdleCall, CallRecord, Steps, Replica
  <2>2. call' = [call EXCEPT ![c] = r]
    BY <1>10 DEF Start
  <2> HIDE DEF r
  <2>3. CallsTyped'
    BY <2>1, <2>2, CallTyped
  <2> QED
    BY <1>10, <2>3 DEF Start, RecordsTyped, GrantsTyped
<1>11. ASSUME NEW c \in Calls, Decide(c)
       PROVE  Typed'
  <2> DEFINE allowed == grants[CurrentVersion].allowed
             r == [call[c] EXCEPT !.step = IF allowed THEN "stamping" ELSE "applying",
                        !.version = CurrentVersion,
                        !.batch = IF allowed THEN @ ELSE [kind |-> "denied"]]
  <2>1. call' = [call EXCEPT ![c] = r]
    BY <1>11 DEF Decide, CallsTyped
  <2>2. call[c].step = "deciding" /\ call[c].scope \in Scopes
    BY <1>5, <1>11 DEF Decide
  <2>3. [kind |-> "denied"] \in AnyBatch
    BY DEF AnyBatch, Batch
  <2>4. r \in CallRecord /\ r.step \in {"stamping", "applying"} /\ r.scope = call[c].scope
    BY <1>1, <1>5, <2>3 DEF CallRecord, Steps
  <2> HIDE DEF r
  <2>5. CallsTyped'
    BY <2>1, <2>2, <2>4, CallTyped
  <2> QED
    BY <1>11, <2>5 DEF Decide, RecordsTyped, GrantsTyped
<1>12. ASSUME NEW c \in Calls, Stamp(c)
       PROVE  Typed'
  <2> DEFINE r == [call[c] EXCEPT !.step = "answering", !.stamp = CurrentVersion]
  <2>1. call' = [call EXCEPT ![c] = r]
    BY <1>12 DEF Stamp, CallsTyped
  <2>2. call[c].step = "stamping" /\ call[c].scope \in Scopes
    BY <1>5, <1>12 DEF Stamp
  <2>3. r \in CallRecord /\ r.stamp = CurrentVersion /\ r.scope = call[c].scope
    BY <1>1, <1>5 DEF CallRecord, Steps
  <2> HIDE DEF r
  <2>4. CallsTyped'
    BY <1>1, <2>1, <2>2, <2>3, CallTyped
  <2> QED
    BY <1>12, <2>4 DEF Stamp, RecordsTyped, GrantsTyped
<1>13. ASSUME NEW c \in Calls, Answer(c)
       PROVE  Typed'
  <2> DEFINE identity == AnswerIdentity(c)
             shown == ViewAt(identity.commit, call[c].version, call[c].scope)
             batch == BatchFor(call[c].known, identity, shown)
             r == [call[c] EXCEPT !.step = "applying", !.batch = batch]
  <2>1. call[c].step = "answering" /\ call[c].scope \in Scopes /\ call[c].stamp \in Version
    BY <1>5, <1>13 DEF Answer
  <2>2. Len(records) \in Nat /\ Len(records) \in Watermark
    BY LenProperties, WorkingReplicaAssumption DEF RecordsTyped, Watermark
  <2>3. identity \in Identity /\ identity.commit = Len(records)
    BY <2>1, <2>2 DEF AnswerIdentity, Identity
  <2>4. shown \in Shown
    BY <2>2, <2>3, ViewAtIsShown
  <2>5. call' = [call EXCEPT ![c] = r]
    BY <1>13 DEF Answer, CallsTyped
  <2> HIDE DEF identity, shown
  <2>6. batch \in AnyBatch
    BY <1>5, <2>3, <2>4, BatchIsTyped DEF CallRecord
  <2> HIDE DEF batch
  <2>7. r \in CallRecord /\ r.step = "applying" /\ r.scope = call[c].scope
    BY <1>5, <2>6 DEF CallRecord, Steps
  <2> HIDE DEF r
  <2>8. CallsTyped'
    BY <2>1, <2>5, <2>7, CallTyped
  <2> QED
    BY <1>13, <2>8 DEF Answer, RecordsTyped, GrantsTyped
<1>14. ASSUME NEW c \in Calls, ApplyDenial(c)
       PROVE  Typed'
  BY <1>3, <1>6, <1>14 DEF ApplyDenial, RecordsTyped, GrantsTyped
<1>15. ASSUME NEW c \in Calls, ApplyReplace(c)
       PROVE  Typed'
  <2>1. call[c].batch.kind = "replace" /\ call[c].batch \in AnyBatch /\ call[c].version \in 0..MaxVersions
    BY <1>5, <1>15 DEF ApplyReplace, CallRecord
  <2>2. /\ call[c].batch.identity \in Identity /\ call[c].batch.snapshot \in Shown
        /\ call[c].batch.history \in SUBSET (1..MaxRecords)
    BY <2>1 DEF AnyBatch, Batch
  <2>3. store' \in Replica
    BY <1>15, <2>1, <2>2 DEF ApplyReplace, Replica
  <2> QED
    BY <1>6, <1>15, <2>3 DEF ApplyReplace, RecordsTyped, GrantsTyped
<1>16. ASSUME NEW c \in Calls, ApplyChanges(c)
       PROVE  Typed'
  <2>1. call[c].batch.kind \in {"delta", "noop"} /\ call[c].batch \in AnyBatch
    BY <1>5, <1>16 DEF ApplyChanges, CallRecord
  <2>2. /\ call[c].batch.identity \in Identity
        /\ call[c].batch.history \in SUBSET (1..MaxRecords)
    BY <2>1 DEF AnyBatch, Batch
  <2>3. CASE call[c].batch.kind = "delta"
    <3>1. call[c].batch.delta.changed \in Changes
      BY <2>1, <2>3 DEF AnyBatch, Batch
    <3>2. PICK snapshot : /\ snapshot = ApplyDelta(store.snapshot, call[c].batch.delta)
                          /\ store' = [store EXCEPT !.identity = call[c].batch.identity,
                                !.history = @ \cup call[c].batch.history, !.snapshot = snapshot]
      BY <1>16, <2>3 DEF ApplyChanges
    <3>3. snapshot \in Shown
      BY <3>1, <3>2 DEF ApplyDelta, Shown, Replica, Changes
    <3>4. store' \in Replica
      BY <2>2, <3>2, <3>3 DEF Replica
    <3> QED
      BY <1>6, <1>16, <3>4 DEF ApplyChanges, RecordsTyped, GrantsTyped
  <2>4. CASE call[c].batch.kind = "noop"
    <3>1. store' = [store EXCEPT !.identity = call[c].batch.identity,
                                !.history = @ \cup call[c].batch.history]
      BY <1>16, <2>4 DEF ApplyChanges
    <3>2. store' \in Replica
      BY <2>2, <3>1 DEF Replica
    <3> QED
      BY <1>6, <1>16, <3>2 DEF ApplyChanges, RecordsTyped, GrantsTyped
  <2> QED
    BY <2>1, <2>3, <2>4
<1>17. ASSUME NEW c \in Calls, ApplyToNothing(c)
       PROVE  Typed'
  BY <1>6, <1>17 DEF ApplyToNothing, RecordsTyped, GrantsTyped
<1>18. ASSUME Ask
       PROVE  Typed'
  <2>1. store.identity \in Identity
    BY <1>18 DEF Ask, Replica
  <2>2. query' \in QueryRecord
    BY <1>1, <1>18, <2>1 DEF Ask, QueryRecord, Identity
  <2> QED
    BY <1>18, <2>2 DEF Ask, RecordsTyped, GrantsTyped, CallsTyped
<1>19. ASSUME RefuseQuery \/ AnswerQuery \/ Clear
       PROVE  Typed'
  BY <1>3, <1>4, <1>19 DEF RefuseQuery, AnswerQuery, Clear, RecordsTyped, GrantsTyped, CallsTyped
<1>20. ASSUME UNCHANGED vars
       PROVE  Typed'
  BY <1>20 DEF vars, RecordsTyped, GrantsTyped, CallsTyped
<1> QED
  BY <1>7, <1>8, <1>9, <1>10, <1>11, <1>12, <1>13, <1>14, <1>15, <1>16, <1>17, <1>18,
     <1>19, <1>20 DEF Next, Sync

\* Every variable has its type: records are numbered by their place, the
\* replica and the batches on their way hold contents of known objects.
THEOREM ReplicaIsTyped == Spec => []TypeOK
<1>1. Typed => TypeOK
  <2> SUFFICES ASSUME Typed PROVE TypeOK
    OBVIOUS
  <2>1. /\ Len(records) <= MaxRecords
        /\ \A s \in DOMAIN records : /\ records[s].id = s
                                     /\ records[s].status \in {"accepted", "conflicted"}
    <3>1. ASSUME NEW s \in DOMAIN records
          PROVE  records[s] \in BranchRecord
      BY LenProperties, ElementOfSeq DEF Typed, RecordsTyped
    <3> QED
      BY <3>1 DEF Typed, RecordsTyped, BranchRecord
  <2>2. Len(grants) \in Version /\ \A v \in DOMAIN grants : grants[v] \in Grants
    BY LenProperties, ElementOfSeq DEF Typed, GrantsTyped
  <2>3. ASSUME NEW batch \in AnyBatch
        PROVE  batch \in Batch \/ IsDelta(batch)
    BY DEF AnyBatch, IsDelta, Changes
  <2>4. DOMAIN call = Calls /\ \A c \in Calls : call[c] \in CallRecord
    BY DEF Typed, CallsTyped
  <2>5. query \in QueryRecord /\ store \in Replica
    BY DEF Typed
  <2> QED
    BY <2>1, <2>2, <2>3, <2>4, <2>5 DEF TypeOK, CallRecord, Steps, QueryRecord
<1>2. Init /\ [][Next]_vars => []Typed
  BY StartsTyped, StepsTyped, PTL
<1> QED
  BY <1>1, <1>2, PTL DEF Spec

-----------------------------------------------------------------------------
(* The branch and the versions of the grant only grow: what a watermark    *)
(* stands for stays what it is.                                            *)

Grown ==
    /\ Len(records) <= Len(records') /\ \A s \in 1..Len(records) : records'[s] = records[s]
    /\ Len(grants) <= Len(grants') /\ \A v \in 1..Len(grants) : grants'[v] = grants[v]

\* No step changes a record or a version of the grant.
LEMMA StepsGrow == Typed /\ [Next]_vars => Grown
<1> SUFFICES ASSUME Typed, [Next]_vars
             PROVE  Grown
  OBVIOUS
<1>1. /\ records \in Seq(BranchRecord) /\ Len(records) \in Nat
      /\ grants \in Seq(Grants) /\ Len(grants) \in Nat
  BY LenProperties DEF Typed, RecordsTyped, GrantsTyped
<1>2. ASSUME NEW ops \in Seq(BranchOperation), NEW status \in {"accepted", "conflicted"},
             Record(ops, status)
      PROVE  Grown
  <2> DEFINE r == [id |-> Len(records) + 1, ops |-> ops, status |-> status]
  <2>1. r \in BranchRecord /\ records' = Append(records, r) /\ grants' = grants
    BY <1>1, <1>2 DEF BranchRecord, Record
  <2> HIDE DEF r
  <2>2. Len(records') = Len(records) + 1 /\ \A s \in 1..Len(records) : records'[s] = records[s]
    BY <1>1, <2>1, AppendProperties
  <2> QED
    BY <1>1, <2>1, <2>2 DEF Grown
<1>3. ASSUME NEW ops \in Batches \cup Reverts, Commit(ops)
      PROVE  Grown
  BY <1>2, <1>3, RecordedOperations DEF Commit
<1>4. ASSUME NEW ops \in Incoming, Capture(ops)
      PROVE  Grown
  BY <1>2, <1>4, RecordedOperations DEF Capture
<1>5. ASSUME NEW g \in Grants, ChangeGrant(g)
      PROVE  Grown
  <2>1. grants' = Append(grants, g) /\ records' = records
    BY <1>5 DEF ChangeGrant
  <2>2. Len(grants') = Len(grants) + 1 /\ \A v \in 1..Len(grants) : grants'[v] = grants[v]
    BY <1>1, <2>1, AppendProperties
  <2> QED
    BY <1>1, <2>1, <2>2 DEF Grown
<1>6. ASSUME UNCHANGED <<records, grants>>
      PROVE  Grown
  BY <1>1, <1>6 DEF Grown
<1>7. ASSUME NEW c \in Calls, Sync(c)
      PROVE  Grown
  BY <1>6, <1>7 DEF Sync, Start, Decide, Stamp, Answer, ApplyDenial, ApplyReplace,
     ApplyChanges, ApplyToNothing
<1> QED
  BY <1>3, <1>4, <1>5, <1>6, <1>7 DEF Next, Ask, RefuseQuery, AnswerQuery, Clear, vars

\* A record that is accepted and shows.
Shows(s, shown) == records[s].status = "accepted" /\ VisibleOf(s, shown) # {}

\* So the view at a watermark stays, and what shows in it.
LEMMA ViewsStay ==
    ASSUME Typed, Grown
    PROVE  /\ \A n \in 0..Len(records), v \in 1..Len(grants) :
                \A scope : ViewAt(n, v, scope)' = ViewAt(n, v, scope)
           /\ \A s \in 1..Len(records) :
                \A shown : Shows(s, shown)' <=> Shows(s, shown)
<1>1. Len(records) \in Nat
  BY LenProperties DEF Typed, RecordsTyped
<1>2. ASSUME NEW n \in 0..Len(records), NEW v \in 1..Len(grants), NEW scope
      PROVE  ViewAt(n, v, scope)' = ViewAt(n, v, scope)
  <2> DEFINE I == {s \in 1..n : records[s].status = "accepted"}
  <2>1. /\ I \in SUBSET (1..n) /\ n \in Nat
        /\ I = {s \in 1..n : records'[s].status = "accepted"}
    BY <1>1 DEF Grown
  <2> HIDE DEF I
  <2>2. PICK old, new : old = records /\ new = records'
    OBVIOUS
  <2>3. Prolongs(new, old, n)
    BY <1>1, <2>2 DEF Grown, Prolongs
  <2>4. At(new, I) = At(old, I)
    <3>1. PICK J : J = I \cup {n + 1}
      OBVIOUS
    <3>2. I \in SUBSET (1..n) /\ n \in Nat
      BY <2>1
    <3> QED
      BY <2>3, <3>1, <3>2, AtOfLonger
  <2>5. LogUpTo(n)' = LogUpTo(n)
    BY <2>1, <2>2, <2>4 DEF LogUpTo, I
  <2>6. grants'[v] = grants[v]
    BY DEF Grown
  <2> QED
    BY <2>5, <2>6 DEF ViewAt
<1>3. ASSUME NEW s \in 1..Len(records), NEW shown
      PROVE  Shows(s, shown)' <=> Shows(s, shown)
  <2>1. records'[s] = records[s]
    BY DEF Grown
  <2> QED
    BY <2>1 DEF Shows, VisibleOf
<1> QED
  BY <1>2, <1>3

-----------------------------------------------------------------------------
(* What a batch says of the branch it was made from.                       *)

\* A replacement holds the whole view and keeps the last record that shows; a
\* change is made for the permission and the scope that were known, and
\* brings every record after the known watermark that shows.
Says(batch, known, identity, shown) ==
    /\ batch.identity = identity
    /\ \/ /\ batch.kind = "replace" /\ batch.snapshot = shown
          /\ \A s \in 1..identity.commit : Shows(s, shown) =>
                \E t \in batch.history : records[t].status = "accepted" /\ t >= s
       \/ /\ batch.kind \in {"delta", "noop"}
          /\ known # None
          /\ known.permission = identity.permission /\ known.scope = identity.scope
          /\ \A s \in (known.commit + 1)..identity.commit :
                Shows(s, shown) => s \in batch.history
          /\ batch.kind = "delta" =>
                /\ \A o \in DOMAIN batch.delta.changed : batch.delta.changed[o] = shown[o]
                /\ \E t \in batch.history :
                        records[t].status = "accepted" /\ t > known.commit
          /\ batch.kind = "noop" =>
                \A s \in (known.commit + 1)..identity.commit : ~Shows(s, shown)

\* And lists records up to its watermark.
Bounded(batch) == batch.history \subseteq 1..batch.identity.commit

\* What the cloud answers at the end of the branch.
LEMMA BatchSays ==
    ASSUME Typed, NEW known \in Identity \cup {None}, NEW identity \in Identity,
           identity.commit = Len(records), NEW shown \in Shown,
           NEW batch, batch = BatchFor(known, identity, shown)
    PROVE  Says(batch, known, identity, shown) /\ Bounded(batch)
<1> DEFINE since == IF Replacing(known, identity) THEN 0 ELSE known.commit
           history == HistoryAfter(since, shown)
           accepted == {s \in history : records[s].status = "accepted"}
           ops == UNION {VisibleOf(s, shown) : s \in accepted}
<1>1. Len(records) \in Nat
  BY LenProperties DEF Typed, RecordsTyped
<1>2. since \in Nat
  <2>1. CASE Replacing(known, identity)
    BY <2>1
  <2>2. CASE ~Replacing(known, identity)
    <3>1. known \in Identity
      BY <2>2 DEF Replacing
    <3> QED
      BY <1>1, <2>2, <3>1 DEF Identity, Watermark
  <2> QED
    BY <2>1, <2>2
<1>3. \/ /\ Replacing(known, identity) \/ RebuildRequired(ops)
         /\ batch = [kind |-> "replace", identity |-> identity, history |-> history,
                     snapshot |-> shown]
      \/ /\ ~Replacing(known, identity) /\ accepted = {}
         /\ batch = [kind |-> "noop", identity |-> identity, history |-> history]
      \/ /\ ~Replacing(known, identity) /\ accepted # {}
         /\ batch = [kind |-> "delta", identity |-> identity, history |-> history,
                     delta |-> Delta(ops, shown)]
  BY Zenon DEF BatchFor
<1>4. ~Replacing(known, identity) => /\ known # None /\ since = known.commit
                                     /\ known.permission = identity.permission
                                     /\ known.scope = identity.scope
  BY DEF Replacing
<1>5. Replacing(known, identity) => since = 0
  OBVIOUS
<1> HIDE DEF since
<1>6. history \subseteq (since + 1)..Len(records) /\ history \subseteq 1..Len(records)
  BY <1>1, <1>2 DEF HistoryAfter
<1>7. ASSUME NEW s \in (since + 1)..Len(records), Shows(s, shown)
      PROVE  s \in accepted /\ s \in history
  BY <1>7 DEF HistoryAfter, Shows
<1>8. accepted \subseteq history /\ \A s \in accepted : records[s].status = "accepted"
  OBVIOUS
<1>9. RebuildRequired(ops) => accepted # {}
  BY DEF RebuildRequired
<1>10. \A o \in DOMAIN Delta(ops, shown).changed : Delta(ops, shown).changed[o] = shown[o]
  BY DEF Delta
<1> HIDE DEF history, accepted, ops
<1>11. CASE batch = [kind |-> "replace", identity |-> identity, history |-> history,
                     snapshot |-> shown] /\ (Replacing(known, identity) \/ RebuildRequired(ops))
  <2>1. batch.kind = "replace" /\ batch.identity = identity /\ batch.history = history /\ batch.snapshot = shown
    BY <1>11
  <2>2. ASSUME NEW s \in 1..Len(records), Shows(s, shown)
        PROVE  \E t \in history : records[t].status = "accepted" /\ t >= s
    <3>1. CASE s > since
      <4>1. s \in (since + 1)..Len(records)
        BY <1>1, <1>2, <3>1
      <4> QED
        BY <1>7, <1>8, <2>2, <4>1
    <3>2. CASE ~(s > since)
      <4>1. since # 0
        BY <1>1, <1>2, <3>2
      <4>2. PICK t \in accepted : TRUE
        BY <1>5, <1>9, <1>11, <4>1
      <4>3. t \in history /\ t \in (since + 1)..Len(records)
        BY <1>6, <1>8, <4>2
      <4> QED
        BY <1>1, <1>2, <1>8, <3>2, <4>3
    <3> QED
      BY <3>1, <3>2
  <2> QED
    BY <1>6, <2>1, <2>2 DEF Says, Bounded
<1>12. CASE batch = [kind |-> "noop", identity |-> identity, history |-> history]
            /\ ~Replacing(known, identity) /\ accepted = {}
  <2>1. batch.kind = "noop" /\ batch.identity = identity /\ batch.history = history
    BY <1>12
  <2>2. \A s \in (known.commit + 1)..identity.commit : ~Shows(s, shown)
    BY <1>4, <1>7, <1>12
  <2> QED
    BY <1>4, <1>6, <1>12, <2>1, <2>2 DEF Says, Bounded
<1>13. CASE batch = [kind |-> "delta", identity |-> identity, history |-> history,
                     delta |-> Delta(ops, shown)]
            /\ ~Replacing(known, identity) /\ accepted # {}
  <2>1. /\ batch.kind = "delta" /\ batch.identity = identity /\ batch.history = history
        /\ batch.delta = Delta(ops, shown)
    BY <1>13
  <2>2. \A s \in (known.commit + 1)..identity.commit : Shows(s, shown) => s \in history
    BY <1>4, <1>7, <1>13
  <2>3. \E t \in history : records[t].status = "accepted" /\ t > known.commit
    <3>1. PICK t \in accepted : TRUE
      BY <1>13
    <3>2. t \in history /\ t \in (since + 1)..Len(records)
      BY <1>6, <1>8, <3>1
    <3> QED
      BY <1>1, <1>2, <1>4, <1>8, <1>13, <3>1, <3>2
  <2> QED
    BY <1>4, <1>6, <1>10, <1>13, <2>1, <2>2, <2>3 DEF Says, Bounded
<1> QED
  BY <1>3, <1>11, <1>12, <1>13

-----------------------------------------------------------------------------
(* One synchronisation at a time.  What the replica holds, what the call   *)
(* under way knows of it, and what its answer says.                        *)

OneAtATime == \A c, d \in Calls : c = d

Answered(c) == call[c].step = "applying" /\ call[c].batch.kind # "denied"
Decided(c) == call[c].step \in {"stamping", "answering"} \/ Answered(c)

\* The view the answer of a call was made from.
SeenBy(c) == ViewAt(call[c].batch.identity.commit, call[c].version, call[c].scope)

\* A batch is for the scope and the watermark of its call, and says what the
\* view and the records of its watermark were.
BatchInv(c) ==
    /\ call[c].batch.identity \in Identity
    /\ call[c].batch.identity.scope = call[c].scope
    /\ call[c].batch.identity.permission = call[c].stamp
    /\ call[c].batch.identity.commit <= Len(records)
    /\ Says(call[c].batch, call[c].known, call[c].batch.identity, SeenBy(c))
    /\ Bounded(call[c].batch)

\* What a call has read lies in its past, in the order it was read.
CallInv(c) ==
    /\ call[c].known # None => /\ call[c].known \in Identity
                               /\ call[c].known.permission <= Len(grants)
                               /\ call[c].known.commit <= Len(records)
    /\ Decided(c) => /\ call[c].version \in 1..Len(grants)
                     /\ call[c].known # None => call[c].known.permission <= call[c].version
    /\ call[c].step = "answering" \/ Answered(c) =>
            call[c].version <= call[c].stamp /\ call[c].stamp <= Len(grants)
    /\ Answered(c) => BatchInv(c)

\* The call under way found the replica there is, unless that is gone.
KnownIsHeld ==
    \A c \in Calls : call[c].step # "idle" /\ store.valid => call[c].known = store.identity

StoreInv ==
    \/ store = EmptyReplica
    \/ /\ store.valid
       /\ store.identity \in Identity
       /\ store.version \in 1..store.identity.permission
       /\ store.identity.permission <= Len(grants)
       /\ store.identity.commit <= Len(records)

\* No decision and no replica is older than the permissions a query compares.
QueryInv ==
    query.step = "asked" =>
        /\ query.permission <= Len(grants)
        /\ store.valid => query.permission <= store.identity.permission
        /\ \A c \in Calls : Decided(c) => query.permission <= call[c].version

SyncInv ==
    /\ OneAtATime /\ Typed /\ StoreInv /\ KnownIsHeld /\ QueryInv
    /\ \A c \in Calls : CallInv(c)

\* The last record that shows is kept, from one watermark to a later one.
LEMMA SaysStays ==
    ASSUME Typed, Grown,
           NEW batch \in AnyBatch, NEW known, NEW identity \in Identity, NEW shown,
           known # None => known \in Identity,
           identity.commit <= Len(records), Bounded(batch),
           Says(batch, known, identity, shown)
    PROVE  Says(batch, known, identity, shown)'
<1>1. identity.commit \in Nat /\ Len(records) \in Nat
  BY LenProperties, WorkingReplicaAssumption DEF Identity, Watermark, Typed, RecordsTyped
<1>2. ASSUME NEW s \in 1..identity.commit
      PROVE  (Shows(s, shown)' <=> Shows(s, shown)) /\ records'[s] = records[s]
  <2>1. s \in 1..Len(records)
    BY <1>1
  <2> QED
    BY <2>1, ViewsStay DEF Grown
<1>3. batch.identity = identity /\ batch.history \subseteq 1..identity.commit
  BY DEF Says, Bounded
<1>4. known # None => known.commit \in Nat
  BY WorkingReplicaAssumption DEF Identity, Watermark
<1>5. known # None => (known.commit + 1)..identity.commit \subseteq 1..identity.commit
  BY <1>1, <1>4
<1>6. CASE /\ batch.kind = "replace" /\ batch.snapshot = shown
           /\ \A s \in 1..identity.commit : Shows(s, shown) =>
                \E t \in batch.history : records[t].status = "accepted" /\ t >= s
  BY <1>2, <1>3, <1>6 DEF Says
<1>7. CASE ~(batch.kind = "replace" /\ batch.snapshot = shown)
  <2>1. /\ batch.kind \in {"delta", "noop"}
        /\ known # None
        /\ known.permission = identity.permission /\ known.scope = identity.scope
        /\ \A s \in (known.commit + 1)..identity.commit :
              Shows(s, shown) => s \in batch.history
        /\ batch.kind = "delta" =>
              /\ \A o \in DOMAIN batch.delta.changed : batch.delta.changed[o] = shown[o]
              /\ \E t \in batch.history :
                      records[t].status = "accepted" /\ t > known.commit
        /\ batch.kind = "noop" =>
              \A s \in (known.commit + 1)..identity.commit : ~Shows(s, shown)
    BY <1>7 DEF Says
  <2>2. \A s \in (known.commit + 1)..identity.commit : Shows(s, shown)' => s \in batch.history
    BY <1>2, <1>5, <2>1
  <2>3. batch.kind = "delta" =>
            \E t \in batch.history : records'[t].status = "accepted" /\ t > known.commit
    BY <1>2, <1>3, <2>1
  <2>4. batch.kind = "noop" =>
            \A s \in (known.commit + 1)..identity.commit : ~Shows(s, shown)'
    BY <1>2, <1>5, <2>1
  <2> QED
    BY <1>3, <2>1, <2>2, <2>3, <2>4 DEF Says
<1> QED
  BY <1>6, <1>7 DEF Says

\* What holds of a call holds until the call takes a step.
LEMMA CallStays ==
    ASSUME Typed, Typed', Grown, NEW c \in Calls, CallInv(c), call'[c] = call[c]
    PROVE  CallInv(c)'
<1>1. /\ Len(records') \in Nat /\ Len(grants') \in Nat
      /\ Len(records) <= Len(records') /\ Len(grants) <= Len(grants')
  BY LenProperties DEF Grown, Typed, RecordsTyped, GrantsTyped
<1>2. call[c] \in CallRecord
  BY DEF Typed, CallsTyped
<1>3. Len(grants) \in Nat /\ Len(records) \in Nat
  BY LenProperties DEF Typed, GrantsTyped, RecordsTyped
<1>4. Answered(c)' <=> Answered(c)
  BY DEF Answered
<1>5. Decided(c)' <=> Decided(c)
  BY <1>4 DEF Decided
<1>6. ASSUME Answered(c)
      PROVE  BatchInv(c)'
  <2>1. BatchInv(c)
    BY <1>6 DEF CallInv
  <2>2. PICK batch, known, identity, version, scope :
            /\ batch = call[c].batch /\ known = call[c].known /\ identity = batch.identity
            /\ version = call[c].version /\ scope = call[c].scope
    OBVIOUS
  <2>3. /\ identity.commit \in 0..Len(records) /\ version \in 1..Len(grants)
        /\ batch \in AnyBatch /\ identity \in Identity
        /\ known # None => known \in Identity
    BY <1>2, <1>3, <1>6, <2>1, <2>2, WorkingReplicaAssumption
       DEF BatchInv, CallInv, Decided, CallRecord, Identity, Watermark
  <2>4. PICK shown : shown = ViewAt(identity.commit, version, scope)
    OBVIOUS
  <2>5. SeenBy(c) = shown
    BY <2>2, <2>4 DEF SeenBy
  <2>6. SeenBy(c)' = shown
    <3>1. ViewAt(identity.commit, version, scope)' = shown
      BY <2>3, <2>4, ViewsStay
    <3> QED
      BY <2>2, <3>1 DEF SeenBy
  <2>7. Says(batch, known, identity, shown)'
    <3>1. Says(batch, known, identity, shown) /\ Bounded(batch) /\ identity.commit <= Len(records)
      BY <2>1, <2>2, <2>5 DEF BatchInv
    <3> QED
      BY <2>3, <3>1, SaysStays
  <2>8. Says(call[c].batch, call[c].known, call[c].batch.identity, SeenBy(c))'
    BY <2>2, <2>6, <2>7 DEF Says, Shows, VisibleOf
  <2>9. identity.commit <= Len(records')
    BY <1>1, <1>3, <2>3
  <2> QED
    BY <2>1, <2>2, <2>8, <2>9 DEF BatchInv, Bounded
<1>7. ASSUME call[c].known # None
      PROVE  /\ call[c].known \in Identity
             /\ call[c].known.permission <= Len(grants')
             /\ call[c].known.commit <= Len(records')
  <2>1. call[c].known \in Identity /\ call[c].known.permission <= Len(grants)
        /\ call[c].known.commit <= Len(records)
    BY <1>7 DEF CallInv
  <2> QED
    BY <1>1, <1>3, <2>1, WorkingReplicaAssumption DEF Identity, Watermark, Version
<1>8. ASSUME Decided(c)
      PROVE  /\ call[c].version \in 1..Len(grants')
             /\ call[c].known # None => call[c].known.permission <= call[c].version
  BY <1>1, <1>3, <1>8 DEF CallInv
<1>9. ASSUME call[c].step = "answering" \/ Answered(c)
      PROVE  call[c].version <= call[c].stamp /\ call[c].stamp <= Len(grants')
  <2>1. call[c].version <= call[c].stamp /\ call[c].stamp <= Len(grants)
    BY <1>9 DEF CallInv
  <2>2. call[c].stamp \in Nat
    BY <1>2, WorkingReplicaAssumption DEF CallRecord
  <2> QED
    BY <1>1, <1>3, <2>1, <2>2
<1> QED
  BY <1>4, <1>5, <1>6, <1>7, <1>8, <1>9 DEF CallInv

\* A replica that a step leaves alone still stands for a watermark of the branch.
LEMMA StoreStays ==
    ASSUME Typed, Typed', Grown, StoreInv, store' = store
    PROVE  StoreInv'
<1>1. /\ Len(records') \in Nat /\ Len(grants') \in Nat
      /\ Len(records) \in Nat /\ Len(grants) \in Nat
      /\ Len(records) <= Len(records') /\ Len(grants) <= Len(grants')
  BY LenProperties DEF Grown, Typed, RecordsTyped, GrantsTyped
<1>2. CASE store = EmptyReplica
  BY <1>2 DEF StoreInv
<1>3. CASE store # EmptyReplica
  <2>1. /\ store.valid /\ store.identity \in Identity
        /\ store.version \in 1..store.identity.permission
        /\ store.identity.permission <= Len(grants)
        /\ store.identity.commit <= Len(records)
    BY <1>3 DEF StoreInv
  <2>2. store.identity.permission \in Nat /\ store.identity.commit \in Nat
    BY <2>1, WorkingReplicaAssumption DEF Identity, Watermark, Version
  <2> QED
    BY <1>1, <2>1, <2>2 DEF StoreInv
<1> QED
  BY <1>2, <1>3

\* What the replica stands for when it is valid.
LEMMA ValidStore ==
    ASSUME StoreInv
    PROVE  /\ store.valid => /\ store.identity \in Identity
                             /\ store.version \in 1..store.identity.permission
                             /\ store.identity.permission <= Len(grants)
                             /\ store.identity.commit <= Len(records)
           /\ ~store.valid => store.identity = None
           /\ store.valid \in BOOLEAN => (store.valid \/ ~store.valid)
BY DEF StoreInv, EmptyReplica

\* Before the first synchronisation nothing is held.
LEMMA SyncStarts == OneAtATime /\ Init => SyncInv
<1> SUFFICES ASSUME OneAtATime, Init PROVE SyncInv
  OBVIOUS
<1>1. Typed
  BY StartsTyped
<1>2. StoreInv
  BY DEF Init, StoreInv
<1>3. \A c \in Calls : call[c] = IdleCall
  BY DEF Init
<1>4. /\ IdleCall.step = "idle" /\ IdleCall.known = None
      /\ query.step = "idle"
  BY DEF Init, IdleCall, IdleQuery
<1>5. KnownIsHeld
  BY <1>3, <1>4 DEF KnownIsHeld
<1>6. QueryInv
  BY <1>4 DEF QueryInv
<1>7. \A c \in Calls : CallInv(c)
  BY <1>3, <1>4 DEF CallInv, Decided, Answered
<1> QED
  BY <1>1, <1>2, <1>5, <1>6, <1>7 DEF SyncInv

\* The cloud takes a step, or nothing does.
LEMMA CloudSteps ==
    ASSUME SyncInv, Typed', Grown, UNCHANGED <<store, call, query>>
    PROVE  SyncInv'
<1>1. StoreInv'
  BY StoreStays DEF SyncInv
<1>2. \A c \in Calls : CallInv(c)'
  BY CallStays DEF SyncInv
<1>3. KnownIsHeld'
  BY DEF SyncInv, KnownIsHeld
<1>4. \A c \in Calls : Decided(c)' <=> Decided(c)
  BY DEF Decided, Answered
<1>5. ASSUME query.step = "asked"
      PROVE  query.permission <= Len(grants')
  <2>1. query.permission <= Len(grants)
    BY <1>5 DEF SyncInv, QueryInv
  <2>2. query.permission \in Nat /\ Len(grants) \in Nat /\ Len(grants') \in Nat
    BY LenProperties, WorkingReplicaAssumption DEF SyncInv, Typed, GrantsTyped, QueryRecord
  <2> QED
    BY <2>1, <2>2 DEF Grown
<1>6. QueryInv'
  BY <1>4, <1>5 DEF SyncInv, QueryInv
<1> QED
  BY <1>1, <1>2, <1>3, <1>6 DEF SyncInv

\* A call that is over has nothing to say.
LEMMA FinishedCall ==
    ASSUME SyncInv, NEW c \in Calls, Finished(c)
    PROVE  /\ call'[c].step = "idle"
           /\ CallInv(c)'
           /\ ~Decided(c)'
           /\ KnownIsHeld'
<1>1. call'[c] = IdleCall
  BY DEF SyncInv, Typed, CallsTyped, Finished
<1>2. IdleCall.step = "idle" /\ IdleCall.known = None
  BY DEF IdleCall
<1>3. ~Answered(c)' /\ ~Decided(c)'
  BY <1>1, <1>2 DEF Answered, Decided
<1>4. \A d \in Calls : call'[d].step = "idle"
  BY <1>1, <1>2 DEF SyncInv, OneAtATime
<1> QED
  BY <1>1, <1>2, <1>3, <1>4 DEF CallInv, KnownIsHeld

\* The replica changes: invariants of everything else.
LEMMA ReplicaSteps ==
    ASSUME SyncInv, Typed', UNCHANGED <<records, grants>>, StoreInv', KnownIsHeld',
           \A c \in Calls : CallInv(c)', QueryInv'
    PROVE  SyncInv'
BY DEF SyncInv

\* A synchronisation takes its next step.
LEMMA CallSteps ==
    ASSUME SyncInv, Typed', Grown, NEW c \in Calls, UNCHANGED <<records, grants, store, query>>,
           CallInv(c)', call'[c].step # "idle",
           store.valid => call'[c].known = store.identity,
           Decided(c)' => \/ Decided(c) /\ call'[c].version = call[c].version
                          \/ call'[c].version = Len(grants)
    PROVE  SyncInv'
<1>1. StoreInv'
  BY StoreStays DEF SyncInv
<1>2. \A d \in Calls : CallInv(d)'
  BY DEF SyncInv, OneAtATime
<1>3. KnownIsHeld'
  BY DEF SyncInv, OneAtATime, KnownIsHeld
<1>4. ASSUME query.step = "asked", NEW d \in Calls, Decided(d)'
      PROVE  query.permission <= call'[d].version
  <2>1. d = c
    BY DEF SyncInv, OneAtATime
  <2>2. query.permission <= Len(grants)
    BY <1>4 DEF SyncInv, QueryInv
  <2>3. Decided(c) => query.permission <= call[c].version
    BY <1>4 DEF SyncInv, QueryInv
  <2> QED
    BY <1>4, <2>1, <2>2, <2>3
<1>5. QueryInv'
  BY <1>4 DEF SyncInv, QueryInv
<1> QED
  BY <1>1, <1>2, <1>3, <1>5 DEF SyncInv

\* Noting the identity, deciding and reading the watermark.
LEMMA EarlySteps ==
    ASSUME SyncInv, Typed', Grown, NEW c \in Calls,
           (\E scope \in Scopes : Start(c, scope)) \/ Decide(c) \/ Stamp(c)
    PROVE  SyncInv'
<1>1. /\ call[c] \in CallRecord /\ CallInv(c)
      /\ UNCHANGED <<records, grants, store, query>>
  BY DEF SyncInv, Typed, CallsTyped, Start, Decide, Stamp
<1>2. CurrentVersion = Len(grants) /\ Len(grants) \in 1..MaxVersions
  BY DEF CurrentVersion, SyncInv, Typed, GrantsTyped, Version
<1>3. ASSUME NEW scope \in Scopes, Start(c, scope)
      PROVE  SyncInv'
  <2>1. call'[c] = [IdleCall EXCEPT !.step = "deciding", !.known = store.identity,
                                    !.scope = scope]
    BY <1>3 DEF Start, SyncInv, Typed, CallsTyped
  <2>2. call'[c].step = "deciding" /\ call'[c].known = store.identity
    BY <2>1 DEF IdleCall
  <2>3. ~Decided(c)' /\ ~Answered(c)'
    BY <2>2 DEF Decided, Answered
  <2>4. store.identity # None => /\ store.identity \in Identity
                                 /\ store.identity.permission <= Len(grants)
                                 /\ store.identity.commit <= Len(records)
    BY ValidStore DEF SyncInv
  <2>5. CallInv(c)'
    BY <1>1, <2>2, <2>3, <2>4 DEF CallInv
  <2> QED
    BY <1>1, <2>2, <2>3, <2>5, CallSteps
<1>4. CASE Decide(c)
  <2> DEFINE allowed == grants[CurrentVersion].allowed
  <2>1. call'[c] = [call[c] EXCEPT !.step = IF allowed THEN "stamping" ELSE "applying",
                        !.version = CurrentVersion,
                        !.batch = IF allowed THEN @ ELSE [kind |-> "denied"]]
    BY <1>4 DEF Decide, SyncInv, Typed, CallsTyped
  <2>2. /\ call[c].step = "deciding" /\ call'[c].known = call[c].known
        /\ call'[c].version = Len(grants)
        /\ \/ call'[c].step = "stamping"
           \/ call'[c].step = "applying" /\ call'[c].batch = [kind |-> "denied"]
    <3>1. call[c].step = "deciding"
      BY <1>4 DEF Decide
    <3> QED
      BY <1>1, <1>2, <2>1, <3>1 DEF CallRecord
  <2>3. ~Answered(c)' /\ call'[c].step # "answering"
    BY <2>2 DEF Answered
  <2>4. CallInv(c)'
    BY <1>1, <1>2, <2>2, <2>3 DEF CallInv
  <2>5. store.valid => call'[c].known = store.identity
    BY <2>2 DEF SyncInv, KnownIsHeld
  <2> QED
    BY <1>1, <2>2, <2>4, <2>5, CallSteps
<1>5. CASE Stamp(c)
  <2>1. call'[c] = [call[c] EXCEPT !.step = "answering", !.stamp = CurrentVersion]
    BY <1>5 DEF Stamp, SyncInv, Typed, CallsTyped
  <2>2. /\ call[c].step = "stamping" /\ call'[c].known = call[c].known
        /\ call'[c].version = call[c].version /\ call'[c].stamp = Len(grants)
        /\ call'[c].step = "answering"
    <3>1. call[c].step = "stamping"
      BY <1>5 DEF Stamp
    <3> QED
      BY <1>1, <1>2, <2>1, <3>1 DEF CallRecord
  <2>3. ~Answered(c)' /\ Decided(c)' /\ Decided(c)
    BY <2>2 DEF Answered, Decided
  <2>4. CallInv(c)'
    BY <1>1, <1>2, <2>2, <2>3 DEF CallInv
  <2>5. store.valid => call'[c].known = store.identity
    BY <2>2 DEF SyncInv, KnownIsHeld
  <2> QED
    BY <1>1, <2>2, <2>3, <2>4, <2>5, CallSteps
<1> QED
  BY <1>3, <1>4, <1>5

\* The cloud answers.
LEMMA AnswerSteps ==
    ASSUME SyncInv, Typed', Grown, NEW c \in Calls, Answer(c)
    PROVE  SyncInv'
<1>1. /\ call[c] \in CallRecord /\ CallInv(c) /\ call[c].step = "answering"
      /\ call[c].scope \in Scopes /\ call[c].stamp \in Version
      /\ UNCHANGED <<records, grants, store, query>>
  BY DEF SyncInv, Typed, CallsTyped, Answer
<1>2. PICK identity, shown, batch :
        /\ identity = AnswerIdentity(c)
        /\ shown = ViewAt(identity.commit, call[c].version, call[c].scope)
        /\ batch = BatchFor(call[c].known, identity, shown)
        /\ call' = [call EXCEPT ![c].step = "applying", ![c].batch = batch]
  BY DEF Answer
<1>3. Len(records) \in Watermark /\ Len(records) \in Nat
  BY LenProperties, WorkingReplicaAssumption DEF SyncInv, Typed, RecordsTyped, Watermark
<1>4. /\ identity \in Identity /\ identity.commit = Len(records)
      /\ identity.scope = call[c].scope /\ identity.permission = call[c].stamp
  BY <1>1, <1>2, <1>3 DEF AnswerIdentity, Identity
<1>5. shown \in Shown
  BY <1>2, <1>3, <1>4, ViewAtIsShown DEF SyncInv, Typed
<1>6. call'[c] = [call[c] EXCEPT !.step = "applying", !.batch = batch]
  BY <1>2 DEF SyncInv, Typed, CallsTyped
<1>7. /\ call'[c].step = "applying" /\ call'[c].batch = batch
      /\ call'[c].known = call[c].known /\ call'[c].version = call[c].version
      /\ call'[c].stamp = call[c].stamp /\ call'[c].scope = call[c].scope
  BY <1>1, <1>6 DEF CallRecord
<1>8. Says(batch, call[c].known, identity, shown) /\ Bounded(batch)
  BY <1>1, <1>2, <1>4, <1>5, BatchSays DEF SyncInv, CallRecord
<1>9. batch.identity = identity /\ batch.kind # "denied"
  BY <1>8 DEF Says
<1>10. Decided(c) /\ Decided(c)' /\ Answered(c)'
  BY <1>1, <1>7, <1>9 DEF Decided, Answered
<1>11. SeenBy(c)' = shown
  <2>1. SeenBy(c)' = ViewAt(identity.commit, call[c].version, call[c].scope)'
    BY <1>7, <1>9 DEF SeenBy, ViewAt, LogUpTo
  <2>2. ViewAt(identity.commit, call[c].version, call[c].scope)' = shown
    BY <1>1, <1>2, <1>7 DEF ViewAt, LogUpTo
  <2> QED
    BY <2>1, <2>2
<1>12. BatchInv(c)'
  <2>1. Says(batch, call[c].known, identity, shown)'
    BY <1>1, <1>7, <1>8 DEF Says, Shows, VisibleOf
  <2>2. Says(call[c].batch, call[c].known, call[c].batch.identity, SeenBy(c))'
    BY <1>1, <1>7, <1>8, <1>9, <1>11 DEF Says, Shows, VisibleOf
  <2> QED
    BY <1>1, <1>3, <1>4, <1>7, <1>8, <1>9, <2>2 DEF BatchInv, Bounded
<1>13. CallInv(c)'
  BY <1>1, <1>7, <1>10, <1>12 DEF CallInv
<1>14. store.valid => call'[c].known = store.identity
  BY <1>1, <1>7 DEF SyncInv, KnownIsHeld
<1> QED
  BY <1>1, <1>7, <1>10, <1>13, <1>14, CallSteps

\* The replica is emptied by a call that is over, a query or the host.
LEMMA EmptyingSteps ==
    ASSUME SyncInv, Typed', Grown,
           (\E c \in Calls : ApplyDenial(c)) \/ RefuseQuery \/ Clear
    PROVE  SyncInv'
<1>1. UNCHANGED <<records, grants>> /\ store' = EmptyReplica /\ ~EmptyReplica.valid
  BY DEF ApplyDenial, RefuseQuery, Clear, EmptyReplica
<1>2. StoreInv'
  BY <1>1 DEF StoreInv
<1>3. KnownIsHeld'
  BY <1>1 DEF KnownIsHeld
<1>4. ASSUME NEW c \in Calls, ApplyDenial(c)
      PROVE  SyncInv'
  <2>1. Finished(c) /\ query' = query
    BY <1>4 DEF ApplyDenial
  <2>2. \A d \in Calls : CallInv(d)' /\ ~Decided(d)'
    BY <2>1, FinishedCall DEF SyncInv, OneAtATime
  <2>3. QueryInv'
    BY <1>1, <2>1, <2>2 DEF QueryInv, SyncInv
  <2> QED
    BY <1>1, <1>2, <1>3, <2>2, <2>3, ReplicaSteps
<1>5. CASE RefuseQuery \/ Clear
  <2>1. call' = call /\ (query' = query \/ query'.step = "idle")
    BY <1>5 DEF RefuseQuery, Clear, IdleQuery
  <2>2. \A c \in Calls : CallInv(c)'
    BY <2>1, CallStays DEF SyncInv
  <2>3. \A c \in Calls : Decided(c)' <=> Decided(c)
    BY <2>1 DEF Decided, Answered
  <2>4. QueryInv'
    BY <1>1, <2>1, <2>3 DEF QueryInv, SyncInv
  <2> QED
    BY <1>1, <1>2, <1>3, <2>2, <2>4, ReplicaSteps
<1> QED
  BY <1>4, <1>5

\* A call that is over leaves a replica of its answer.
LEMMA FillingSteps ==
    ASSUME SyncInv, Typed', Grown, NEW c \in Calls, Finished(c),
           Answered(c), UNCHANGED <<records, grants, query>>,
           store'.valid, store'.identity = call[c].batch.identity,
           \/ store'.version = call[c].version
           \/ store.valid /\ call[c].known # None /\ store'.version = store.version
    PROVE  SyncInv'
<1>1. call[c] \in CallRecord /\ BatchInv(c) /\ CallInv(c)
  BY DEF CallInv, SyncInv, Typed, CallsTyped
<1>2. /\ call[c].version \in 1..Len(grants)
      /\ call[c].version <= call[c].stamp /\ call[c].stamp <= Len(grants)
      /\ call[c].stamp \in Nat /\ Len(grants) \in Nat
      /\ call[c].known # None => call[c].known.permission <= call[c].version
  BY <1>1, LenProperties, WorkingReplicaAssumption
     DEF CallInv, Decided, CallRecord, SyncInv, Typed, GrantsTyped
<1>3. /\ store'.identity \in Identity /\ store'.identity.permission = call[c].stamp
      /\ store'.identity.commit <= Len(records)
  BY <1>1 DEF BatchInv
<1>4. store'.version \in 1..store'.identity.permission
  <2>1. CASE store'.version = call[c].version
    BY <1>2, <1>3, <2>1
  <2>2. CASE store.valid /\ call[c].known # None /\ store'.version = store.version
    <3>1. call[c].known = store.identity /\ store.identity \in Identity
          /\ store.version \in 1..store.identity.permission
      BY <2>2, ValidStore DEF SyncInv, KnownIsHeld, Answered
    <3>2. store.identity # None
      BY <2>2, <3>1
    <3>3. store.identity.permission <= call[c].version /\ store.identity.permission \in Nat
      BY <1>2, <3>1, <3>2, WorkingReplicaAssumption DEF Identity, Version
    <3> QED
      BY <1>2, <1>3, <2>2, <3>1, <3>3
  <2> QED
    BY <2>1, <2>2
<1>5. StoreInv'
  BY <1>2, <1>3, <1>4 DEF StoreInv
<1>6. KnownIsHeld' /\ \A d \in Calls : CallInv(d)' /\ ~Decided(d)'
  BY FinishedCall DEF SyncInv, OneAtATime
<1>7. ASSUME query.step = "asked"
      PROVE  query.permission <= Len(grants) /\ query.permission <= call[c].stamp
  <2>1. query.permission <= Len(grants) /\ query.permission <= call[c].version
    BY <1>7 DEF SyncInv, QueryInv, Decided
  <2>2. query.permission \in Nat
    BY WorkingReplicaAssumption DEF SyncInv, Typed, QueryRecord
  <2> QED
    BY <1>2, <2>1, <2>2
<1>8. QueryInv'
  BY <1>3, <1>6, <1>7 DEF QueryInv
<1> QED
  BY <1>5, <1>6, <1>8, ReplicaSteps

\* An answer is applied.
LEMMA ApplyingSteps ==
    ASSUME SyncInv, Typed', Grown, NEW c \in Calls, ApplyReplace(c) \/ ApplyChanges(c)
    PROVE  SyncInv'
<1>1. Answered(c) /\ Finished(c) /\ UNCHANGED <<records, grants, query>>
  BY DEF ApplyReplace, ApplyChanges, Answered
<1>2. CASE ApplyReplace(c)
  <2>1. store'.valid /\ store'.identity = call[c].batch.identity
        /\ store'.version = call[c].version
    BY <1>2 DEF ApplyReplace
  <2> QED
    BY <1>1, <2>1, FillingSteps
<1>3. CASE ApplyChanges(c)
  <2>1. store \in Replica /\ store.valid
    BY <1>3 DEF ApplyChanges, SyncInv, Typed
  <2>2. \E snapshot : store' = [store EXCEPT !.identity = call[c].batch.identity,
                !.history = @ \cup call[c].batch.history, !.snapshot = snapshot]
    <3>1. CASE call[c].batch.kind = "delta"
      BY <1>3, <3>1 DEF ApplyChanges
    <3>2. CASE call[c].batch.kind # "delta"
      <4>1. store' = [store EXCEPT !.identity = call[c].batch.identity,
                                   !.history = @ \cup call[c].batch.history]
        BY <1>3, <3>2 DEF ApplyChanges
      <4>2. store' = [store EXCEPT !.identity = call[c].batch.identity,
                !.history = @ \cup call[c].batch.history, !.snapshot = store.snapshot]
        BY <2>1, <4>1 DEF Replica
      <4> QED
        BY <4>2
    <3> QED
      BY <3>1, <3>2
  <2>3. store'.valid /\ store'.identity = call[c].batch.identity
        /\ store'.version = store.version
    BY <2>1, <2>2 DEF Replica
  <2>4. call[c].known # None
    <3>1. Says(call[c].batch, call[c].known, call[c].batch.identity, SeenBy(c))
      BY <1>1 DEF SyncInv, CallInv, BatchInv
    <3>2. call[c].batch.kind \in {"delta", "noop"}
      BY <1>3 DEF ApplyChanges
    <3> QED
      BY <3>1, <3>2 DEF Says
  <2> QED
    BY <1>1, <2>1, <2>3, <2>4, FillingSteps
<1> QED
  BY <1>2, <1>3

\* The remaining steps of calls and queries leave the replica as it is.
LEMMA QuietSteps ==
    ASSUME SyncInv, Typed', Grown,
           (\E c \in Calls : ApplyToNothing(c)) \/ Ask \/ AnswerQuery
    PROVE  SyncInv'
<1>1. UNCHANGED <<records, grants, store>>
  BY DEF ApplyToNothing, Ask, AnswerQuery
<1>2. StoreInv'
  BY <1>1, StoreStays DEF SyncInv
<1>3. ASSUME NEW c \in Calls, ApplyToNothing(c)
      PROVE  SyncInv'
  <2>1. Finished(c) /\ query' = query
    BY <1>3 DEF ApplyToNothing
  <2>2. KnownIsHeld' /\ \A d \in Calls : CallInv(d)' /\ ~Decided(d)'
    BY <2>1, FinishedCall DEF SyncInv, OneAtATime
  <2>3. QueryInv'
    BY <1>1, <2>1, <2>2 DEF QueryInv, SyncInv
  <2> QED
    BY <1>1, <1>2, <2>2, <2>3, ReplicaSteps
<1>4. CASE Ask \/ AnswerQuery
  <2>1. call' = call
    BY <1>4 DEF Ask, AnswerQuery
  <2>2. \A c \in Calls : CallInv(c)'
    BY <2>1, CallStays DEF SyncInv
  <2>3. \A c \in Calls : Decided(c)' <=> Decided(c)
    BY <2>1 DEF Decided, Answered
  <2>4. KnownIsHeld'
    BY <1>1, <2>1 DEF SyncInv, KnownIsHeld
  <2>5. CASE AnswerQuery
    <3>1. query'.step = "idle"
      BY <2>5 DEF AnswerQuery, IdleQuery
    <3>2. QueryInv'
      BY <3>1 DEF QueryInv
    <3> QED
      BY <1>1, <1>2, <2>2, <2>4, <3>2, ReplicaSteps
  <2>6. CASE Ask
    <3>1. /\ store.valid /\ store.identity # None
          /\ query'.permission = store.identity.permission
      BY <2>6, ValidStore DEF Ask, SyncInv
    <3>2. store.identity.permission <= Len(grants)
      BY <3>1, ValidStore DEF SyncInv
    <3>3. ASSUME NEW c \in Calls, Decided(c)
          PROVE  store.identity.permission <= call[c].version
      <4>1. call[c].known = store.identity
        BY <3>1, <3>3 DEF SyncInv, KnownIsHeld, Decided, Answered
      <4> QED
        BY <3>1, <3>3, <4>1 DEF SyncInv, CallInv
    <3>4. QueryInv'
      <4>1. store.identity \in Identity
        BY <3>1, ValidStore DEF SyncInv
      <4>2. store.identity.permission <= store.identity.permission
        BY <4>1, WorkingReplicaAssumption DEF Identity, Version
      <4> QED
        BY <1>1, <2>1, <2>3, <3>1, <3>2, <3>3, <4>2 DEF QueryInv
    <3> QED
      BY <1>1, <1>2, <2>2, <2>4, <3>4, ReplicaSteps
  <2> QED
    BY <1>4, <2>5, <2>6
<1> QED
  BY <1>3, <1>4

\* Every step keeps all of it.
LEMMA SyncSteps == SyncInv /\ [Next]_vars => SyncInv'
<1> SUFFICES ASSUME SyncInv, [Next]_vars
             PROVE  SyncInv'
  OBVIOUS
<1>1. Typed' /\ Grown
  BY StepsTyped, StepsGrow DEF SyncInv
<1>2. ASSUME NEW c \in Calls, Sync(c)
      PROVE  SyncInv'
  BY <1>1, <1>2, EarlySteps, AnswerSteps, EmptyingSteps, ApplyingSteps, QuietSteps DEF Sync
<1>3. CASE \/ \E ops \in Batches \cup Reverts : Commit(ops)
           \/ \E ops \in Incoming : Capture(ops)
           \/ \E g \in Grants : ChangeGrant(g)
  <2>1. UNCHANGED <<store, call, query>>
    BY <1>3 DEF Commit, Capture, Record, ChangeGrant
  <2> QED
    BY <1>1, <2>1, CloudSteps
<1>4. CASE UNCHANGED vars
  <2>1. UNCHANGED <<store, call, query>>
    BY <1>4 DEF vars
  <2> QED
    BY <1>1, <2>1, CloudSteps
<1>5. CASE RefuseQuery \/ Clear
  BY <1>1, <1>5, EmptyingSteps
<1>6. CASE Ask \/ AnswerQuery
  BY <1>1, <1>6, QuietSteps
<1> QED
  BY <1>2, <1>3, <1>4, <1>5, <1>6 DEF Next

\* What one synchronisation after the other maintains.
LEMMA SyncHolds == OneAtATime /\ Spec => []SyncInv
<1>1. OneAtATime /\ Init => SyncInv
  BY SyncStarts
<1>2. SyncInv /\ [Next]_vars => SyncInv'
  BY SyncSteps
<1> QED
  BY <1>1, <1>2, PTL DEF Spec

\* One synchronisation at a time, a query that passes the freshness check never
\* reads a snapshot whose permission watermark is older than the one the check
\* compared with, however the replica was cleared, rebuilt or changed between
\* the check and the read.
THEOREM QueriesReadFreshStamps == OneAtATime /\ Spec => ReadsAreStampedFresh
<1>1. ASSUME SyncInv, [Next]_vars
      PROVE  [query.step = "asked" /\ query' = IdleQuery /\ store.valid /\ store' = store
                => store.identity.permission >= query.current]_vars
  <2> SUFFICES ASSUME query.step = "asked", query' = IdleQuery, store.valid, store' = store
               PROVE  store.identity.permission >= query.current \/ UNCHANGED vars
    OBVIOUS
  <2>1. query.permission <= store.identity.permission
    BY <1>1 DEF SyncInv, QueryInv
  <2>2. query' # query
    BY DEF IdleQuery
  <2>3. AnswerQuery \/ RefuseQuery
    BY <1>1, <2>2 DEF Next, Commit, Capture, Record, ChangeGrant, Sync, Start, Decide, Stamp,
       Answer, ApplyDenial, ApplyReplace, ApplyChanges, ApplyToNothing, Ask, Clear, vars
  <2>4. CASE AnswerQuery
    <3>1. query.current = query.permission
      BY <2>4 DEF AnswerQuery, Outdated
    <3>2. query.permission \in Nat /\ store.identity \in Identity
      BY <1>1, ValidStore, WorkingReplicaAssumption DEF SyncInv, Typed, QueryRecord
    <3> QED
      BY <2>1, <3>1, <3>2, WorkingReplicaAssumption DEF Identity, Version
  <2>5. CASE RefuseQuery
    BY <2>5 DEF RefuseQuery, EmptyReplica
  <2> QED
    BY <2>3, <2>4, <2>5
<1> QED
  BY <1>1, SyncHolds, PTL DEF Spec, ReadsAreStampedFresh

-----------------------------------------------------------------------------
(* What the replica shows.                                                 *)

\* An answer that replaces the snapshot, and one that changes it.
Replaced(c) ==
    /\ call[c].batch.kind = "replace" /\ SeenBy(c) \in Shown
    /\ store'.version = call[c].version /\ store'.snapshot = SeenBy(c)
    /\ store'.history = call[c].batch.history
    /\ call[c].version <= store'.identity.permission

Changed(c) ==
    /\ call[c].batch.kind \in {"delta", "noop"}
    /\ store.valid /\ store'.version = store.version
    /\ store'.history = store.history \cup call[c].batch.history
    /\ store.identity.permission = store'.identity.permission
    /\ store.identity.scope = store'.identity.scope
    /\ call[c].known = store.identity
    /\ call[c].version = store.identity.permission
    /\ store'.snapshot = IF call[c].batch.kind = "delta"
                         THEN ApplyDelta(store.snapshot, call[c].batch.delta)
                         ELSE store.snapshot
    /\ \A o \in Objects :
            \/ store'.snapshot[o] \in {store.snapshot[o], None}
            \/ store'.snapshot[o] = SeenBy(c)[o]

Filled(c) ==
    /\ UNCHANGED <<records, grants>> /\ Answered(c)
    /\ store'.valid
    /\ store'.identity = call[c].batch.identity
    /\ Replaced(c) \/ Changed(c)

\* The replica stays, is emptied, or takes an answer.
LEMMA StoreSteps ==
    ASSUME SyncInv, [Next]_vars
    PROVE  store' = store \/ store' = EmptyReplica \/ \E c \in Calls : Filled(c)
<1>1. ASSUME NEW c \in Calls, ApplyReplace(c)
      PROVE  Filled(c)
  <2>1. Answered(c)
    BY <1>1 DEF ApplyReplace, Answered
  <2>2. /\ Says(call[c].batch, call[c].known, call[c].batch.identity, SeenBy(c))
        /\ call[c].batch.identity \in Identity /\ call[c].batch.identity.commit <= Len(records)
        /\ call[c].batch.identity.permission = call[c].stamp
        /\ call[c].version <= call[c].stamp
    BY <2>1 DEF SyncInv, CallInv, BatchInv
  <2>3. call[c].batch.snapshot = SeenBy(c)
    BY <1>1, <2>2 DEF ApplyReplace, Says
  <2>4. call[c].batch.identity.commit \in 0..Len(records)
    BY <2>2, LenProperties, WorkingReplicaAssumption
       DEF SyncInv, Typed, RecordsTyped, Identity, Watermark
  <2>5. SeenBy(c) \in Shown
    BY <2>4, ViewAtIsShown DEF SeenBy, SyncInv, Typed
  <2> QED
    BY <1>1, <2>1, <2>2, <2>3, <2>5 DEF ApplyReplace, Filled, Replaced
<1>2. ASSUME NEW c \in Calls, ApplyChanges(c)
      PROVE  Filled(c)
  <2>1. Answered(c) /\ store.valid /\ store \in Replica
        /\ call[c].batch.kind \in {"delta", "noop"}
    BY <1>2 DEF ApplyChanges, Answered, SyncInv, Typed
  <2>2. /\ Says(call[c].batch, call[c].known, call[c].batch.identity, SeenBy(c))
        /\ call[c].batch.identity.permission = call[c].stamp
        /\ call[c].batch.identity.scope = call[c].scope
        /\ call[c].version <= call[c].stamp
        /\ call[c].known # None => call[c].known.permission <= call[c].version
        /\ call[c].version \in Nat /\ call[c].stamp \in Nat
        /\ call[c].batch.identity \in Identity
    BY <2>1, WorkingReplicaAssumption
       DEF SyncInv, CallInv, BatchInv, Decided, Typed, CallsTyped, CallRecord
  <2>3. /\ call[c].known # None
        /\ call[c].known.permission = call[c].stamp /\ call[c].known.scope = call[c].scope
        /\ call[c].batch.kind = "delta" => \A o \in DOMAIN call[c].batch.delta.changed :
                call[c].batch.delta.changed[o] = SeenBy(c)[o]
    BY <2>1, <2>2 DEF Says
  <2>4. call[c].known = store.identity
    BY <2>1 DEF SyncInv, KnownIsHeld, Answered
  <2>5. call[c].version = call[c].stamp
    BY <2>2, <2>3
  <2>6. PICK snapshot :
            /\ store' = [store EXCEPT !.identity = call[c].batch.identity,
                    !.history = @ \cup call[c].batch.history, !.snapshot = snapshot]
            /\ IF call[c].batch.kind = "delta"
               THEN snapshot = ApplyDelta(store.snapshot, call[c].batch.delta)
               ELSE snapshot = store.snapshot
    <3>1. CASE call[c].batch.kind = "delta"
      BY <1>2, <3>1 DEF ApplyChanges
    <3>2. CASE call[c].batch.kind # "delta"
      <4>1. store' = [store EXCEPT !.identity = call[c].batch.identity,
                                   !.history = @ \cup call[c].batch.history]
        BY <1>2, <3>2 DEF ApplyChanges
      <4>2. store' = [store EXCEPT !.identity = call[c].batch.identity,
                !.history = @ \cup call[c].batch.history, !.snapshot = store.snapshot]
        BY <2>1, <4>1 DEF Replica
      <4> QED
        BY <3>2, <4>2
    <3> QED
      BY <3>1, <3>2
  <2>7. \A o \in Objects : \/ snapshot[o] \in {store.snapshot[o], None}
                           \/ snapshot[o] = SeenBy(c)[o]
    <3>1. CASE call[c].batch.kind = "delta"
      BY <2>3, <2>6, <3>1 DEF ApplyDelta
    <3>2. CASE call[c].batch.kind # "delta"
      BY <2>6, <3>2
    <3> QED
      BY <3>1, <3>2
  <2>8. /\ store'.valid /\ store'.version = store.version
        /\ store'.identity = call[c].batch.identity /\ store'.snapshot = snapshot
        /\ store'.history = store.history \cup call[c].batch.history
    BY <2>1, <2>6 DEF Replica
  <2>9. UNCHANGED <<records, grants>>
    BY <1>2 DEF ApplyChanges
  <2>10. store'.snapshot = IF call[c].batch.kind = "delta"
                           THEN ApplyDelta(store.snapshot, call[c].batch.delta)
                           ELSE store.snapshot
    BY <2>6, <2>8
  <2> QED
    BY <2>1, <2>2, <2>3, <2>4, <2>5, <2>7, <2>8, <2>9, <2>10 DEF Filled, Changed
<1> QED
  BY <1>1, <1>2 DEF Next, Sync, Commit, Capture, Record, ChangeGrant, Start, Decide, Stamp, Answer,
     ApplyDenial, ApplyToNothing, Ask, RefuseQuery, AnswerQuery, Clear, vars

\* One synchronisation at a time, everything the replica shows was let through
\* by its scope and by the grant its snapshot was decided on or the one it is
\* stamped with, and by no other: over all grants, commits, deltas, rebuilds and
\* queries in between.
THEOREM OnlyAdmittedIsShown == OneAtATime /\ Spec => []OnlyAdmitted
<1>1. OneAtATime /\ Init => OnlyAdmitted
  BY DEF Init, OnlyAdmitted, EmptyReplica
<1>2. SyncInv /\ OnlyAdmitted /\ [Next]_vars => OnlyAdmitted'
  <2> SUFFICES ASSUME SyncInv, OnlyAdmitted, [Next]_vars, store'.valid, NEW o \in Objects,
                      store'.snapshot[o] # None
               PROVE  \E v \in {store'.version, store'.identity.permission} :
                        Admits(Narrow(grants'[v], store'.identity.scope), o, store'.snapshot[o])
    BY DEF OnlyAdmitted
  <2>1. Typed /\ Grown
    BY StepsGrow DEF SyncInv
  <2>2. ASSUME NEW c \in Calls, Answered(c), SeenBy(c)[o] # None
        PROVE  Admits(Narrow(grants[call[c].version], call[c].batch.identity.scope), o, SeenBy(c)[o])
    <3>1. call[c].batch.identity.scope = call[c].scope
      BY <2>2 DEF SyncInv, CallInv, BatchInv
    <3> QED
      BY <2>2, <3>1, ViewIsAdmitted DEF SeenBy, ViewAt
  <2>3. CASE store' = store
    <3>1. /\ store.identity \in Identity /\ store.version \in 1..store.identity.permission
          /\ store.identity.permission <= Len(grants) /\ Len(grants) \in Nat
      BY <2>1, <2>3, ValidStore, LenProperties DEF SyncInv, Typed, GrantsTyped
    <3>2. PICK v \in {store.version, store.identity.permission} :
            Admits(Narrow(grants[v], store.identity.scope), o, store.snapshot[o])
      BY <2>3 DEF OnlyAdmitted
    <3>3. v \in 1..Len(grants)
      BY <3>1, WorkingReplicaAssumption DEF Identity, Version
    <3>4. grants'[v] = grants[v]
      BY <2>1, <3>3 DEF Grown
    <3> QED
      BY <2>3, <3>2, <3>4
  <2>4. CASE store' = EmptyReplica
    BY <2>4 DEF EmptyReplica
  <2>5. ASSUME NEW c \in Calls, Filled(c), Replaced(c)
        PROVE  \E v \in {store'.version, store'.identity.permission} :
                 Admits(Narrow(grants'[v], store'.identity.scope), o, store'.snapshot[o])
    <3>1. /\ call[c].version \in {store'.version, store'.identity.permission}
          /\ store'.snapshot[o] = SeenBy(c)[o] /\ grants' = grants
          /\ store'.identity = call[c].batch.identity /\ Answered(c)
      BY <2>5 DEF Filled, Replaced
    <3> QED
      BY <2>2, <3>1
  <2>6. ASSUME NEW c \in Calls, Filled(c), Changed(c)
        PROVE  \E v \in {store'.version, store'.identity.permission} :
                 Admits(Narrow(grants'[v], store'.identity.scope), o, store'.snapshot[o])
    <3>1. /\ store.valid /\ store'.version = store.version /\ grants' = grants
          /\ store'.identity.permission = store.identity.permission
          /\ store'.identity.scope = store.identity.scope
          /\ call[c].version = store.identity.permission
          /\ store'.identity = call[c].batch.identity /\ Answered(c)
      BY <2>6 DEF Filled, Changed
    <3>2. CASE store'.snapshot[o] = store.snapshot[o]
      BY <3>1, <3>2 DEF OnlyAdmitted
    <3>3. CASE store'.snapshot[o] = SeenBy(c)[o]
      BY <2>2, <3>1, <3>3
    <3> QED
      BY <2>6, <3>2, <3>3 DEF Changed
  <2> QED
    BY <2>3, <2>4, <2>5, <2>6, StoreSteps DEF Filled
<1> QED
  BY <1>1, <1>2, SyncHolds, PTL DEF Spec

\* Where the replica shows the view of its watermarks, a part or a relation is
\* shown with what it hangs from: a view is closed.
LEMMA ViewsShowNothingAlone == SyncInv /\ ReplicaIsAuthorizedView => NothingAlone
<1> SUFFICES ASSUME SyncInv, ReplicaIsAuthorizedView, store.valid,
                    store.version = store.identity.permission,
                    NEW o \in Objects, store.snapshot[o] # None,
                    NEW x \in Ends(store.snapshot[o])
             PROVE  store.snapshot[x] # None
  BY DEF NothingAlone
<1>1. PICK log, admission :
          /\ log = LogUpTo(store.identity.commit)
          /\ admission = Narrow(grants[store.version], store.identity.scope)
  OBVIOUS
<1>2. store.snapshot = ViewOf(log, admission)
  BY <1>1 DEF ReplicaIsAuthorizedView, ViewAt
<1>3. log \in Seq(Commits)
  <2>1. store.identity.commit \in 0..Len(records)
    BY ValidStore, LenProperties, WorkingReplicaAssumption
       DEF SyncInv, Typed, RecordsTyped, Identity, Watermark
  <2> QED
    BY <1>1, <2>1, LogIsTyped DEF SyncInv, Typed
<1>4. None \notin Content
  BY WorkingReplicaAssumption, Zenon
<1> QED
  BY <1>2, <1>3, <1>4, ViewIsClosed

\* The history lists records of the branch.
HistoryKept == store.history \subseteq 1..Len(records)

\* Every batch, and so what is kept of batches, lists records of the branch.
LEMMA HistoryHolds == OneAtATime /\ Spec => []HistoryKept
<1>1. OneAtATime /\ Init => HistoryKept
  BY DEF Init, HistoryKept, EmptyReplica
<1>2. SyncInv /\ HistoryKept /\ [Next]_vars => HistoryKept'
  <2> SUFFICES ASSUME SyncInv, HistoryKept, [Next]_vars
               PROVE  store'.history \subseteq 1..Len(records')
    BY DEF HistoryKept
  <2>1. Len(records) \in Nat /\ Len(records') \in Nat /\ Len(records) <= Len(records')
    BY StepsTyped, StepsGrow, LenProperties DEF SyncInv, Typed, RecordsTyped, Grown
  <2>2. ASSUME NEW c \in Calls, Filled(c)
        PROVE  call[c].batch.history \subseteq 1..Len(records)
    <3>1. /\ Bounded(call[c].batch) /\ call[c].batch.identity \in Identity
          /\ call[c].batch.identity.commit <= Len(records)
      BY <2>2 DEF Filled, SyncInv, CallInv, BatchInv
    <3>2. call[c].batch.identity.commit \in Nat
      BY <3>1, WorkingReplicaAssumption DEF Identity, Watermark
    <3> QED
      BY <2>1, <3>1, <3>2 DEF Bounded
  <2> QED
    BY <2>1, <2>2, StoreSteps DEF HistoryKept, Filled, Replaced, Changed, EmptyReplica
<1> QED
  BY <1>1, <1>2, SyncHolds, PTL DEF Spec

\* As long as the replica shows the view of its watermarks, a local revision that
\* is based on the last accepted record in its history has seen every accepted
\* change of what the replica shows: rebuilds, deltas and batches that change
\* nothing all keep the record it needs.
LEMMA ViewsHaveTheirBase ==
    OneAtATime /\ Spec /\ []ReplicaIsAuthorizedView => []RevisionBaseIsLatest
<1>1. OneAtATime /\ Init => RevisionBaseIsLatest
  BY DEF Init, RevisionBaseIsLatest, EmptyReplica
<1>2. ASSUME SyncInv, HistoryKept, ReplicaIsAuthorizedView', RevisionBaseIsLatest, [Next]_vars
      PROVE  RevisionBaseIsLatest'
  <2> SUFFICES ASSUME store'.valid, store'.version = store'.identity.permission,
                      NEW s \in 1..store'.identity.commit,
                      records'[s].status = "accepted",
                      VisibleOf(s, store.snapshot)' # {}
               PROVE  \E t \in store'.history : records'[t].status = "accepted" /\ t >= s
    BY DEF RevisionBaseIsLatest
  <2>1. Typed /\ Grown
    BY <1>2, StepsGrow DEF SyncInv
  <2>2. CASE store' = store
    <3>1. store.identity \in Identity /\ store.identity.commit <= Len(records)
      BY <1>2, <2>2, ValidStore DEF SyncInv
    <3>2. s \in 1..Len(records) /\ s \in Nat /\ Len(records) \in Nat
      BY <2>1, <2>2, <3>1, LenProperties, WorkingReplicaAssumption
         DEF Typed, RecordsTyped, Identity, Watermark
    <3>3. records'[s] = records[s]
      BY <2>1, <3>2 DEF Grown
    <3>4. VisibleOf(s, store.snapshot) # {}
      BY <2>2, <3>3 DEF VisibleOf
    <3>5. PICK t \in store.history : records[t].status = "accepted" /\ t >= s
      BY <1>2, <2>2, <3>3, <3>4 DEF RevisionBaseIsLatest
    <3>6. t \in 1..Len(records)
      BY <1>2, <3>5 DEF HistoryKept
    <3> QED
      BY <2>1, <2>2, <3>5, <3>6 DEF Grown
  <2>3. CASE store' = EmptyReplica
    BY <2>3 DEF EmptyReplica
  <2>4. ASSUME NEW c \in Calls, Filled(c)
        PROVE  \E t \in store'.history : records'[t].status = "accepted" /\ t >= s
    <3> DEFINE batch == call[c].batch
               shown == SeenBy(c)
    <3>1. /\ records' = records /\ grants' = grants /\ Answered(c)
          /\ store'.identity = batch.identity
      BY <2>4 DEF Filled
    <3>2. /\ Says(batch, call[c].known, batch.identity, shown)
          /\ batch.identity \in Identity /\ batch.identity.scope = call[c].scope
      BY <1>2, <3>1 DEF SyncInv, CallInv, BatchInv
    <3>3. store'.version = call[c].version
      BY <2>4 DEF Filled, Replaced, Changed
    <3>4. store'.snapshot = shown
      <4>1. store'.snapshot = ViewAt(store.identity.commit, store.version, store.identity.scope)'
        BY <1>2 DEF ReplicaIsAuthorizedView
      <4> QED
        BY <3>1, <3>2, <3>3, <4>1 DEF SeenBy, ViewAt, LogUpTo
    <3>5. Shows(s, shown) /\ s \in 1..batch.identity.commit
      BY <3>1, <3>4 DEF Shows, VisibleOf
    <3>6. CASE Replaced(c)
      <4>1. PICK t \in batch.history : records[t].status = "accepted" /\ t >= s
        BY <3>2, <3>5, <3>6 DEF Says, Replaced
      <4> QED
        BY <3>1, <3>6, <4>1 DEF Replaced
    <3>7. CASE Changed(c)
      <4>1. /\ store.valid /\ call[c].known = store.identity
            /\ store.identity \in Identity
            /\ store'.history = store.history \cup batch.history
            /\ batch.kind \in {"delta", "noop"}
            /\ store.version = store.identity.permission
        BY <1>2, <3>7, ValidStore DEF Changed, SyncInv
      <4>2. store.identity.commit \in Nat /\ s \in Nat
        BY <3>2, <3>5, <4>1, WorkingReplicaAssumption DEF Identity, Watermark
      <4>3. CASE s > store.identity.commit
        <5>1. s \in (call[c].known.commit + 1)..batch.identity.commit
          BY <3>5, <4>1, <4>2, <4>3
        <5>2. s \in batch.history
          BY <3>2, <3>5, <4>1, <5>1 DEF Says
        <5> QED
          BY <3>1, <3>5, <4>1, <4>2, <5>2 DEF Shows
      <4>4. CASE ~(s > store.identity.commit) /\ batch.kind = "delta"
        <5>1. PICK t \in batch.history : records[t].status = "accepted" /\ t > store.identity.commit
          BY <3>2, <4>1, <4>4 DEF Says
        <5>2. t \in Nat
          BY <1>2, <3>1, <3>2, <5>1 DEF SyncInv, CallInv, BatchInv, Bounded
        <5> QED
          BY <3>1, <4>1, <4>2, <4>4, <5>1, <5>2
      <4>5. CASE ~(s > store.identity.commit) /\ batch.kind = "noop"
        <5>1. store'.snapshot = store.snapshot
          BY <3>7, <4>5 DEF Changed
        <5>2. s \in 1..store.identity.commit
          BY <3>5, <4>2, <4>5
        <5>3. records[s].status = "accepted" /\ VisibleOf(s, store.snapshot) # {}
          BY <3>4, <3>5, <5>1 DEF Shows
        <5>4. PICK t \in store.history : records[t].status = "accepted" /\ t >= s
          BY <1>2, <4>1, <5>2, <5>3 DEF RevisionBaseIsLatest
        <5> QED
          BY <3>1, <4>1, <5>4
      <4> QED
        BY <4>1, <4>3, <4>4, <4>5
    <3> QED
      BY <2>4, <3>6, <3>7 DEF Filled
  <2> QED
    BY <1>2, <2>2, <2>3, <2>4, StoreSteps
<1> QED
  BY <1>1, <1>2, SyncHolds, HistoryHolds, PTL DEF Spec

-----------------------------------------------------------------------------
(* What changes of the branch make of its view.                            *)

\* Operations that create or update, and no others.
BuildOperation == {op \in ClientOperation : op.kind \in {"create", "update"}}

\* Accepted records build, or revert a commit.
RecordsBuild ==
    \A s \in 1..Len(records) : records[s].status = "accepted" =>
        \/ records[s].ops \in Seq(BuildOperation)
        \/ \E n \in Nat : records[s].ops = <<RevertOp(n)>>

\* An operation that builds changes its object at most.
LEMMA BuildTouchesItsObject ==
    ASSUME NEW v \in MemoryView, NEW op \in BuildOperation, NEW o \in Objects, o # op.object
    PROVE  ApplyOperation(v, op).objects[o] = v.objects[o]
<1>1. op.kind \in {"create", "update"} /\ op.object \in Objects
  BY DEF BuildOperation, ClientOperation, MutationOperation, OfKind
<1>2. \/ \E status, content : ApplyOperation(v, op) = Store(v, op.object, status, content)
      \/ ApplyOperation(v, op) = [v EXCEPT !.ok = FALSE]
      \/ ApplyOperation(v, op) = v
  <2>1. CASE ~v.ok
    BY <2>1 DEF ApplyOperation
  <2>2. CASE v.ok /\ op.kind = "create"
    BY <2>2, Zenon DEF ApplyOperation, ApplyCreate
  <2>3. CASE v.ok /\ op.kind = "update"
    <3>1. ApplyOperation(v, op) = ApplyUpdate(v, op.object, op.content)
      BY <2>3 DEF ApplyOperation
    <3> QED
      BY <3>1, Zenon DEF ApplyUpdate
  <2> QED
    BY <1>1, <2>1, <2>2, <2>3
<1>3. CASE ApplyOperation(v, op) = [v EXCEPT !.ok = FALSE]
  BY <1>3 DEF MemoryView
<1>4. ASSUME NEW status, NEW content,
             ApplyOperation(v, op) = Store(v, op.object, status, content)
      PROVE  ApplyOperation(v, op).objects[o] = v.objects[o]
  BY <1>1, <1>4 DEF Store, MemoryView
<1> QED
  BY <1>2, <1>3, <1>4

\* What builds is recorded as it is.
LEMMA BuildsAreExpandable == Expandable(BuildOperation) /\ BuildOperation \subseteq BranchOperation
<1>1. ASSUME NEW op \in BuildOperation
      PROVE  Expand(op) \in Seq(BuildOperation)
  <2>1. Expand(op) = <<op>>
    BY DEF BuildOperation, Expand
  <2> QED
    BY <2>1
<1> QED
  BY <1>1 DEF Expandable, BuildOperation, BranchOperation

\* The expansion of what builds only builds.
LEMMA ExpandedBuilds ==
    ASSUME NEW ops \in Seq(BuildOperation), NEW op \in ToSet(Expanded(ops))
    PROVE  op \in BuildOperation
<1>1. CASE BuildOperation = {}
  <2>1. ops = <<>>
    BY <1>1, ElementOfSeq, LenProperties, EmptySeq
  <2>2. RevertOp(0) \in BranchOperation /\ <<>> \in Seq(BranchOperation)
    BY DEF BranchOperation
  <2>3. Expanded(<<>>) = <<>>
    BY <2>2, BranchOperationsAreApplicable, ExpandedSteps
  <2> QED
    BY <2>1, <2>3 DEF ToSet
<1>2. ASSUME NEW some \in BuildOperation
      PROVE  op \in BuildOperation
  <2>1. PICK all \in Seq(BuildOperation) : all = Expanded(ops)
    BY <1>2, BuildsAreExpandable, ExpandedSteps
  <2> QED
    BY <2>1, ElementOfSeq, LenProperties DEF ToSet
<1> QED
  BY <1>1, <1>2

LeavesAlone(ops, o) == \A op \in ToSet(Expanded(ops)) : op.object # o

\* A commit that builds leaves alone what none of its operations names.
LEMMA CommitTouchesItsObjects ==
    ASSUME NEW v \in MemoryView, NEW ops \in Seq(BuildOperation), NEW o \in Objects,
           LeavesAlone(ops, o)
    PROVE  ApplyAll(v, Expanded(ops)).objects[o] = v.objects[o]
<1>1. CASE BuildOperation = {}
  <2>1. ops = <<>>
    BY <1>1, ElementOfSeq, LenProperties, EmptySeq
  <2>2. Expanded(<<>>) = <<>> /\ ApplyAll(v, <<>>) = v
    <3>1. RevertOp(0) \in BranchOperation
      BY DEF BranchOperation
    <3>2. <<>> \in Seq(BranchOperation)
      OBVIOUS
    <3> QED
      BY <3>1, <3>2, BranchOperationsAreApplicable, ExpandedSteps, ApplyAllSteps
  <2> QED
    BY <2>1, <2>2
<1>2. ASSUME NEW some \in BuildOperation
      PROVE  ApplyAll(v, Expanded(ops)).objects[o] = v.objects[o]
  <2>1. PICK all \in Seq(BuildOperation) : all = Expanded(ops)
    BY <1>2, BuildsAreExpandable, ExpandedSteps
  <2>2. PICK F : F = [p \in MemoryView \X (1..Len(all)) |-> ApplyOperation(p[1], all[p[2]])]
    OBVIOUS
  <2>3. Applicable(BuildOperation)
    BY BuildsAreExpandable, BranchOperationsAreApplicable DEF Applicable
  <2>4. Leads(Len(all), MemoryView, v, F, ApplyAll(v, all))
    BY <2>2, <2>3, ApplyAllPath
  <2> DEFINE K == {w \in MemoryView : w.objects[o] = v.objects[o]}
  <2>5. ASSUME NEW t \in MemoryView \cap K, NEW k \in 1..Len(all)
        PROVE  F[<<t, k>>] \in K
    <3>1. F[<<t, k>>] = ApplyOperation(t, all[k]) /\ all[k] \in BuildOperation
      BY <2>2, ElementOfSeq
    <3>2. all[k] \in ToSet(all)
      BY LenProperties DEF ToSet
    <3>3. all[k].object # o
      BY <2>1, <3>2 DEF LeavesAlone
    <3>4. ApplyOperation(t, all[k]) \in MemoryView
      BY <2>3, <3>1 DEF Applicable
    <3> QED
      BY <3>1, <3>3, <3>4, BuildTouchesItsObject
  <2>6. Len(all) \in Nat /\ v \in K
    BY LenProperties
  <2> HIDE DEF K
  <2>7. ApplyAll(v, all) \in K
    BY <2>4, <2>5, <2>6, PathKeeps
  <2> QED
    BY <2>1, <2>7 DEF K
<1> QED
  BY <1>1, <1>2


CommitOf(record) == [id |-> record.id, ops |-> record.ops]

\* The log up to the next record has one commit more, if that was accepted.
LEMMA LogOneMore ==
    ASSUME RecordsTyped, NEW k \in 0..Len(records), k < Len(records)
    PROVE  LogUpTo(k + 1) = IF records[k + 1].status = "accepted"
                            THEN Append(LogUpTo(k), CommitOf(records[k + 1]))
                            ELSE LogUpTo(k)
<1> DEFINE I == {s \in 1..k : records[s].status = "accepted"}
           J == {s \in 1..(k + 1) : records[s].status = "accepted"}
<1>1. Len(records) \in Nat /\ k \in Nat /\ k + 1 \in 0..Len(records)
  BY LenProperties DEF RecordsTyped
<1>2. I \in SUBSET (1..k)
  OBVIOUS
<1>3. J = IF records[k + 1].status = "accepted" THEN I \cup {k + 1} ELSE I
  BY <1>1
<1>4. LogUpTo(k) = [i \in DOMAIN At(records, I) |-> CommitOf(At(records, I)[i])]
  BY DEF LogUpTo, CommitOf
<1>5. LogUpTo(k + 1) = [i \in DOMAIN At(records, J) |-> CommitOf(At(records, J)[i])]
  BY DEF LogUpTo, CommitOf
<1>6. LogUpTo(k) \in Seq(Commits) /\ LogUpTo(k + 1) \in Seq(Commits)
  BY <1>1, LogIsTyped
<1> HIDE DEF I, J
<1>7. CASE records[k + 1].status # "accepted"
  BY <1>3, <1>4, <1>5, <1>7
<1>8. CASE records[k + 1].status = "accepted"
  <2>1. PICK list, n : list = records /\ n = Cardinality(I)
    OBVIOUS
  <2>2. Prolongs(list, list, k)
    BY DEF Prolongs
  <2>3. J = I \cup {k + 1}
    BY <1>3, <1>8
  <2>4. /\ DOMAIN At(list, J) = 1..(n + 1)
        /\ \A i \in 1..n : At(list, J)[i] = At(list, I)[i]
        /\ At(list, J)[n + 1] = list[k + 1]
    BY <1>1, <1>2, <2>1, <2>2, <2>3, AtOfLonger
  <2>5. DOMAIN At(list, I) = 1..n /\ n \in Nat
    BY <1>1, <1>2, <2>1, AtLength
  <2>6. PICK old, new : old = LogUpTo(k) /\ new = LogUpTo(k + 1)
    OBVIOUS
  <2>7. /\ old \in Seq(Commits) /\ DOMAIN old = 1..n
        /\ DOMAIN new = 1..(n + 1) /\ new[n + 1] = CommitOf(list[k + 1])
        /\ \A i \in 1..n : new[i] = old[i]
    BY <1>4, <1>5, <1>6, <2>1, <2>4, <2>5, <2>6
  <2>8. Len(old) = n
    BY <2>5, <2>7, LenProperties
  <2>9. new \in Seq(Commits) /\ Len(new) = n + 1
    BY <1>6, <2>5, <2>6, <2>7, LenProperties
  <2>10. new = Append(old, CommitOf(list[k + 1]))
    <3>1. PICK both : both = Append(old, CommitOf(list[k + 1]))
      OBVIOUS
    <3>2. /\ DOMAIN both = 1..(n + 1) /\ both[n + 1] = CommitOf(list[k + 1])
          /\ \A i \in 1..n : both[i] = old[i]
          /\ both = [i \in 1..(n + 1) |-> both[i]]
      BY <2>5, <2>7, <2>8, <3>1 DEF Append
    <3>3. new = [i \in 1..(n + 1) |-> new[i]]
      BY <1>5, <2>1, <2>4, <2>6
    <3>4. ASSUME NEW i \in 1..(n + 1)
          PROVE  new[i] = both[i]
      <4>1. CASE i = n + 1
        BY <2>7, <3>2, <4>1
      <4>2. CASE i # n + 1
        <5>1. i \in 1..n
          BY <2>5, <4>2
        <5> QED
          BY <2>7, <3>2, <5>1
      <4> QED
        BY <4>1, <4>2
    <3> QED
      BY <3>1, <3>2, <3>3, <3>4
  <2> QED
    BY <1>8, <2>1, <2>6, <2>10
<1> QED
  BY <1>7, <1>8

\* No commit after record m is a revert.
NoRevertAfter(m) ==
    \A s \in (m + 1)..Len(records) : records[s].status = "accepted" =>
        records[s].ops \in Seq(BuildOperation)

\* Nor are others reverted then, than were before.
LEMMA SameAreReverted ==
    ASSUME RecordsTyped, NEW m \in 0..Len(records), NoRevertAfter(m)
    PROVE  RevertedCommits(LogUpTo(Len(records))) = RevertedCommits(LogUpTo(m))
<1> DEFINE I(n) == {s \in 1..n : records[s].status = "accepted"}
<1>1. Len(records) \in Nat /\ m \in Nat /\ Len(records) \in 0..Len(records)
  BY LenProperties DEF RecordsTyped
<1>2. ASSUME NEW n \in 0..Len(records), NEW c
      PROVE  c \in RevertedCommits(LogUpTo(n)) <=>
                \E s \in I(n) : \E j \in DOMAIN records[s].ops :
                    IsRevert(records[s].ops[j]) /\ c = records[s].ops[j].commit
  <2>1. n \in Nat /\ I(n) \in SUBSET (1..n)
    BY <1>1
  <2>2. LogUpTo(n) = [i \in DOMAIN At(records, I(n)) |-> CommitOf(At(records, I(n))[i])]
    BY DEF LogUpTo, CommitOf
  <2> HIDE DEF I
  <2>3. DOMAIN At(records, I(n)) = 1..Cardinality(I(n))
    BY <2>1, AtLength
  <2>4. TakesFrom(At(records, I(n)), records, I(n))
    BY <2>1, AtElements
  <2>5. PICK log, taken, K, top :
            /\ log = LogUpTo(n) /\ taken = At(records, I(n)) /\ K = I(n)
            /\ top = Cardinality(I(n))
    OBVIOUS
  <2>6. /\ DOMAIN log = 1..top
        /\ \A i \in DOMAIN log : \E s \in K : log[i].ops = records[s].ops
        /\ \A s \in K : \E i \in DOMAIN log : log[i].ops = records[s].ops
    <3>1. /\ \A i \in 1..top : \E s \in K : taken[i] = records[s]
          /\ \A s \in K : \E i \in 1..top : taken[i] = records[s]
      BY <2>4, <2>5 DEF TakesFrom
    <3>2. log = [i \in 1..top |-> CommitOf(taken[i])]
      BY <2>2, <2>3, <2>5
    <3>3. DOMAIN log = 1..top /\ \A i \in 1..top : log[i].ops = taken[i].ops
      BY <3>2 DEF CommitOf
    <3> QED
      BY <3>1, <3>3
  <2>7. c \in RevertedCommits(log) <=>
            \E i \in DOMAIN log : \E j \in DOMAIN log[i].ops :
                IsRevert(log[i].ops[j]) /\ c = log[i].ops[j].commit
    BY DEF RevertedCommits
  <2> QED
    BY <2>5, <2>6, <2>7
<1>3. ASSUME NEW s \in I(Len(records)), NEW j \in DOMAIN records[s].ops,
             IsRevert(records[s].ops[j])
      PROVE  s \in I(m)
  <2>1. CASE s \in 1..m
    BY <1>3, <2>1
  <2>2. CASE s \notin 1..m
    <3>1. records[s].ops \in Seq(BuildOperation)
      BY <1>1, <1>3, <2>2 DEF NoRevertAfter
    <3>2. records[s].ops[j] \in BuildOperation
      BY <3>1, ElementOfSeq, LenProperties
    <3> QED
      BY <1>3, <3>2 DEF BuildOperation, IsRevert
  <2> QED
    BY <2>1, <2>2
<1>4. I(m) \subseteq I(Len(records))
  BY <1>1
<1>5. PICK before, after : /\ before = RevertedCommits(LogUpTo(m))
                           /\ after = RevertedCommits(LogUpTo(Len(records)))
  OBVIOUS
<1>6. \A c : c \in after <=> c \in before
  <2> SUFFICES ASSUME NEW c PROVE c \in after <=> c \in before
    OBVIOUS
  <2> HIDE DEF I
  <2> QED
    BY <1>1, <1>2, <1>3, <1>4, <1>5
<1> QED
  BY <1>5, <1>6


ViewUpTo(n) == Replay(SeedView, LogUpTo(n))

\* So what the commits since record m leave alone is as it was.
LEMMA UntouchedStays ==
    ASSUME RecordsTyped, NEW m \in 0..Len(records), NoRevertAfter(m), NEW o \in Objects,
           \A s \in (m + 1)..Len(records) :
                records[s].status = "accepted" => LeavesAlone(records[s].ops, o)
    PROVE  ViewUpTo(Len(records)).objects[o] = ViewUpTo(m).objects[o]
<1>1. Len(records) \in Nat /\ m \in Nat
  BY LenProperties DEF RecordsTyped
<1>2. PICK reverted, n : reverted = RevertedCommits(LogUpTo(m)) /\ n = Len(records)
  OBVIOUS
<1> DEFINE At_(k) == ReplayWith(reverted, SeedView, LogUpTo(k))
<1>3. ViewUpTo(m) = At_(m) /\ ViewUpTo(n) = At_(n)
  BY <1>2, SameAreReverted, ReplayIsFold DEF ViewUpTo
<1>4. SeedView \in MemoryView
  BY DEF SeedView, MemoryView, MemoryObject, AbsentObject, NoContent, Content
<1>5. Replayable(reverted, Commits)
  BY CommitsReplay
<1> DEFINE S == {k \in 0..n : k >= m => At_(k).objects[o] = At_(m).objects[o]}
<1>6. ASSUME NEW k \in 0..n, k \in S, k < n
      PROVE  k + 1 \in S
  <2>1. k + 1 \in 0..n /\ k \in Nat /\ n = Len(records)
    BY <1>1, <1>2, <1>6
  <2>2. CASE ~(k >= m)
    <3>1. k + 1 >= m => k + 1 = m
      BY <1>1, <2>1, <2>2
    <3> QED
      BY <2>1, <3>1
  <2>3. CASE k >= m
    <3>1. PICK commit : commit = CommitOf(records[k + 1])
      OBVIOUS
    <3>2. PICK old, new : old = LogUpTo(k) /\ new = LogUpTo(k + 1)
      OBVIOUS
    <3>3. k + 1 \in (m + 1)..Len(records) /\ k + 1 \in 1..Len(records)
      BY <1>1, <2>1, <2>3
    <3>4. records[k + 1] \in BranchRecord
      BY <3>3, ElementOfSeq, LenProperties DEF RecordsTyped
    <3>5. commit \in Commits /\ old \in Seq(Commits)
      BY <2>1, <3>1, <3>2, <3>4, LogIsTyped DEF CommitOf, Commits, BranchRecord
    <3>6. CASE records[k + 1].status # "accepted"
      <4>1. new = old
        BY <1>6, <2>1, <3>2, <3>6, LogOneMore
      <4> QED
        BY <1>6, <2>1, <2>3, <3>2, <4>1
    <3>7. CASE records[k + 1].status = "accepted"
      <4>1. new = Append(old, commit)
        BY <1>6, <2>1, <3>1, <3>2, <3>7, LogOneMore
      <4>2. PICK v \in MemoryView :
                /\ v = ReplayWith(reverted, SeedView, old)
                /\ ReplayWith(reverted, SeedView, new) = ApplyCommit(reverted, v, commit)
        BY <1>4, <1>5, <3>5, <4>1, ReplayWithSteps
      <4>3. commit.ops \in Seq(BuildOperation) /\ LeavesAlone(commit.ops, o)
        BY <3>1, <3>3, <3>7 DEF NoRevertAfter, CommitOf
      <4>4. ApplyCommit(reverted, v, commit).objects[o] = v.objects[o]
        BY <4>3, CommitTouchesItsObjects DEF ApplyCommit
      <4>5. At_(k) = v /\ At_(k + 1) = ApplyCommit(reverted, v, commit)
        BY <3>2, <4>2
      <4>6. v.objects[o] = At_(m).objects[o]
        BY <1>6, <2>3, <4>5
      <4> QED
        BY <2>1, <4>4, <4>5, <4>6
    <3> QED
      BY <3>6, <3>7
  <2> QED
    BY <2>2, <2>3
<1>7. 0 \in S
  <2>1. 0 >= m => m = 0
    BY <1>1
  <2> QED
    BY <1>1, <1>2, <2>1
<1>8. 0..n \subseteq S
  <2>1. n \in Nat
    BY <1>1, <1>2
  <2> HIDE DEF S
  <2> QED
    BY <1>6, <1>7, <2>1, BoundedInduction
<1>9. n \in S /\ n >= m
  BY <1>1, <1>2, <1>8
<1>10. At_(n).objects[o] = At_(m).objects[o]
  BY <1>9
<1> QED
  BY <1>2, <1>3, <1>10


\* Where no commit is reverted, those after a record leave what there was then
\* shown or hidden as it was, to every version of the grant: they remove nothing
\* that was shown and change nobody's tags from admitted to not, or back.
VisibilityIsSteady ==
    \A m \in 0..Len(records), v \in 1..Len(grants), scope \in Scopes :
        NoRevertAfter(m) =>
            \A o \in Objects : Active(ViewUpTo(m), o) =>
                (ViewAt(m, v, scope)[o] = None <=> ViewAt(Len(records), v, scope)[o] = None)

\* What a view shows is there, with the content it has.
LEMMA ShownIsActive ==
    ASSUME NEW n, NEW v, NEW scope, NEW o \in Objects, ViewAt(n, v, scope)[o] # None
    PROVE  /\ Active(ViewUpTo(n), o)
           /\ ViewAt(n, v, scope)[o] = ViewUpTo(n).objects[o].content
BY DEF ViewAt, ViewOf, ViewUpTo

\* The accepted operations after record m that are visible.
ChangesSince(m, shown) ==
    UNION {VisibleOf(s, shown) :
            s \in {t \in HistoryAfter(m, shown) : records[t].status = "accepted"}}

\* Then a delta says exactly what changed: applied to the view at record m it
\* gives the present one.
LEMMA ChangesAreExact ==
    ASSUME RecordsTyped, RecordsBuild, VisibilityIsSteady, None \notin Content,
           NEW m \in 0..Len(records), NEW v \in 1..Len(grants), NEW scope \in Scopes,
           NEW shown, shown = ViewAt(Len(records), v, scope),
           NEW before, before = ViewAt(m, v, scope),
           NEW ops, ops = ChangesSince(m, shown), ~RebuildRequired(ops)
    PROVE  ApplyDelta(before, Delta(ops, shown)) = shown
<1>1. Len(records) \in Nat /\ m \in Nat /\ Len(records) \in 0..Len(records)
  BY LenProperties DEF RecordsTyped
<1>2. before \in Shown /\ shown \in Shown
  BY <1>1, ViewAtIsShown
<1>3. ASSUME NEW s \in (m + 1)..Len(records), records[s].status = "accepted",
             NEW op \in ToSet(Expanded(records[s].ops)),
             op.kind = "revert_commit" \/ shown[op.object] # None
      PROVE  op \in ops
  <2>1. op \in VisibleOf(s, shown)
    BY <1>3 DEF VisibleOf, VisibleOperations
  <2>2. s \in HistoryAfter(m, shown)
    BY <2>1 DEF HistoryAfter
  <2> QED
    BY <1>3, <2>1, <2>2 DEF ChangesSince
<1>4. ASSUME NEW s \in (m + 1)..Len(records), records[s].status = "accepted"
      PROVE  records[s].ops \in Seq(BuildOperation)
  <2>1. s \in 1..Len(records)
    BY <1>1
  <2>2. ASSUME NEW n \in Nat, records[s].ops = <<RevertOp(n)>>
        PROVE  FALSE
    <3>1. PICK op : op = RevertOp(n)
      OBVIOUS
    <3>2. op \in BranchOperation /\ op.kind = "revert_commit" /\ Expand(op) = <<op>>
      BY <3>1 DEF BranchOperation, RevertOp, Expand
    <3>3. Expanded(<<op>>) = <<op>>
      <4>1. <<>> \in Seq(BranchOperation) /\ Append(<<>>, op) = <<op>>
        OBVIOUS
      <4>2. Expanded(Append(<<>>, op)) = <<>> \o Expand(op)
        BY <3>2, <4>1, BranchOperationsAreApplicable, ExpandedSteps
      <4> QED
        BY <3>2, <4>1, <4>2
    <3>4. op \in ToSet(Expanded(records[s].ops))
      BY <2>2, <3>1, <3>3 DEF ToSet
    <3>5. op \in ops
      BY <1>3, <1>4, <3>2, <3>4
    <3> QED
      BY <3>2, <3>5 DEF RebuildRequired
  <2> QED
    BY <1>4, <2>1, <2>2 DEF RecordsBuild
<1>5. NoRevertAfter(m)
  BY <1>4 DEF NoRevertAfter
<1>6. ASSUME NEW op \in ops
      PROVE  op \in BuildOperation /\ shown[op.object] # None
  <2>1. PICK s \in HistoryAfter(m, shown) : records[s].status = "accepted" /\ op \in VisibleOf(s, shown)
    BY <1>6 DEF ChangesSince
  <2>2. s \in (m + 1)..Len(records)
    BY <2>1 DEF HistoryAfter
  <2>3. PICK all : all = records[s].ops
    OBVIOUS
  <2>4. all \in Seq(BuildOperation) /\ op \in ToSet(Expanded(all))
    BY <1>4, <2>1, <2>2, <2>3 DEF VisibleOf, VisibleOperations
  <2>5. op \in BuildOperation
    BY <2>4, ExpandedBuilds
  <2> QED
    BY <2>1, <2>5 DEF BuildOperation, VisibleOf, VisibleOperations
<1>7. ASSUME NEW o \in Objects, before[o] # None
      PROVE  shown[o] # None
  <2>1. Active(ViewUpTo(m), o)
    BY <1>7, ShownIsActive
  <2> QED
    BY <1>5, <1>7, <2>1 DEF VisibilityIsSteady
<1> DEFINE removed == Removed(ops, shown)
<1>8. ASSUME NEW x \in removed
      PROVE  x \in Objects /\ shown[x] = None
  <2>1. \A op \in ops : op.kind \in {"create", "update"} /\ op \in ClientOperation
    BY <1>6 DEF BuildOperation
  <2>2. x \in Touched(ops) /\ shown[x] = None
    BY <1>8, <2>1 DEF Removed
  <2>3. CASE \E op \in ops : x = op.object
    BY <2>1, <2>2, <2>3 DEF ClientOperation, MutationOperation, OfKind
  <2>4. CASE \E op \in ops : /\ op.kind = "create" /\ Kind[op.object] = "memory_entity_branch"
                             /\ x = op.content.source
    BY <2>1, <2>2, <2>4 DEF ClientOperation, WellFormed
  <2> QED
    BY <2>2, <2>3, <2>4 DEF Touched
<1>9. ASSUME NEW o \in Objects, o \in TakenAlong(before, removed)
      PROVE  shown[o] = None
  <2> SUFFICES ASSUME o \notin removed
               PROVE  FALSE
    BY <1>8
  <2>1. PICK x \in Ends(before[o]) : before[o] # None /\ x \in removed
    BY <1>9 DEF TakenAlong
  <2>2. before[x] # None /\ x \in Objects
    <3>1. LogUpTo(m) \in Seq(Commits)
      BY LogIsTyped
    <3> QED
      BY <2>1, <3>1, ViewIsClosed DEF ViewAt
  <2> QED
    BY <1>7, <1>8, <2>1, <2>2
<1>10. ASSUME NEW o \in Objects, o \notin Delivered(ops, shown)
       PROVE  before[o] = shown[o]
  <2> SUFFICES ASSUME shown[o] # None
               PROVE  before[o] = shown[o]
    BY <1>7
  <2>1. ASSUME NEW s \in (m + 1)..Len(records), records[s].status = "accepted"
        PROVE  LeavesAlone(records[s].ops, o)
    <3> SUFFICES ASSUME NEW op \in ToSet(Expanded(records[s].ops)), op.object = o
                 PROVE  FALSE
      BY DEF LeavesAlone
    <3>1. op \in ops
      BY <1>3, <2>1
    <3>2. op.kind \in {"create", "update"}
      BY <1>6, <3>1 DEF BuildOperation
    <3>3. o \in Touched(ops)
      BY <3>1, <3>2 DEF Touched
    <3> QED
      BY <1>10, <3>3 DEF Delivered
  <2>2. ViewUpTo(Len(records)).objects[o] = ViewUpTo(m).objects[o]
    BY <1>5, <2>1, UntouchedStays
  <2>3. Active(ViewUpTo(Len(records)), o) /\ shown[o] = ViewUpTo(Len(records)).objects[o].content
    BY ShownIsActive
  <2>4. Active(ViewUpTo(m), o)
    BY <2>2, <2>3 DEF Active
  <2>5. before[o] # None
    BY <1>5, <2>4 DEF VisibilityIsSteady
  <2> QED
    BY <2>2, <2>3, <2>5, ShownIsActive
<1>11. PICK delta : delta = Delta(ops, shown)
  OBVIOUS
<1>12. /\ DOMAIN delta.changed = Delivered(ops, shown) /\ delta.removed = removed
       /\ \A o \in Delivered(ops, shown) : delta.changed[o] = shown[o]
  BY <1>11 DEF Delta
<1>13. ASSUME NEW o \in Objects
       PROVE  ApplyDelta(before, delta)[o] = shown[o]
  <2> HIDE DEF removed
  <2> QED
    BY <1>9, <1>10, <1>12 DEF ApplyDelta
<1>14. ApplyDelta(before, delta) = [o \in Objects |-> ApplyDelta(before, delta)[o]]
  BY DEF ApplyDelta
<1>15. shown = [o \in Objects |-> shown[o]]
  BY <1>2 DEF Shown
<1> QED
  BY <1>11, <1>13, <1>14, <1>15

-----------------------------------------------------------------------------
(* Where nothing is removed, the replica is the view of its watermarks.    *)

\* Clients create and update.
Builds == Batches \subseteq Seq(BuildOperation)

\* So the branch builds, or reverts.
LEMMA RecordsBuildHolds == Builds /\ Spec => []RecordsBuild
<1>1. Init => RecordsBuild
  BY DEF Init, RecordsBuild
<1>2. Builds /\ Typed /\ RecordsBuild /\ [Next]_vars => Builds' /\ RecordsBuild'
  <2> SUFFICES ASSUME Builds, Typed, RecordsBuild, [Next]_vars
               PROVE  RecordsBuild'
    BY DEF Builds
  <2>1. records \in Seq(BranchRecord) /\ Len(records) \in Nat
    BY LenProperties DEF Typed, RecordsTyped
  <2>2. ASSUME NEW ops \in Seq(BranchOperation), NEW status \in {"accepted", "conflicted"},
               Record(ops, status),
               status = "accepted" => \/ ops \in Seq(BuildOperation)
                                      \/ \E n \in Nat : ops = <<RevertOp(n)>>
        PROVE  RecordsBuild'
    <3>1. PICK r, n, old, new :
            /\ r = [id |-> n + 1, ops |-> ops, status |-> status]
            /\ n = Len(records) /\ old = records /\ new = records'
      OBVIOUS
    <3>2. r \in BranchRecord /\ new = Append(old, r) /\ old \in Seq(BranchRecord)
      BY <2>1, <2>2, <3>1 DEF BranchRecord, Record
    <3>3. /\ Len(new) = n + 1 /\ new[n + 1] = r
          /\ \A s \in 1..n : new[s] = old[s]
      BY <3>1, <3>2, AppendProperties
    <3>4. ASSUME NEW s \in 1..(n + 1), new[s].status = "accepted"
          PROVE  \/ new[s].ops \in Seq(BuildOperation)
                 \/ \E k \in Nat : new[s].ops = <<RevertOp(k)>>
      <4>1. CASE s = n + 1
        BY <2>2, <3>1, <3>3, <3>4, <4>1
      <4>2. CASE s # n + 1
        <5>1. s \in 1..n
          BY <2>1, <3>1, <4>2
        <5> QED
          BY <3>1, <3>3, <3>4, <5>1 DEF RecordsBuild
      <4> QED
        BY <4>1, <4>2
    <3> QED
      BY <3>1, <3>3, <3>4 DEF RecordsBuild
  <2>3. ASSUME NEW ops \in Batches \cup Reverts, Commit(ops)
        PROVE  RecordsBuild'
    <3>1. ops \in Seq(BranchOperation) /\ Record(ops, "accepted")
      BY <2>3, RecordedOperations DEF Commit
    <3>2. \/ ops \in Seq(BuildOperation)
          \/ \E n \in Nat : ops = <<RevertOp(n)>>
      <4>1. CASE ops \in Batches
        BY <4>1 DEF Builds
      <4>2. CASE ops \in Reverts
        <5>1. PICK i \in DOMAIN records : ops = <<RevertOp(records[i].id)>>
          BY <4>2 DEF Reverts
        <5>2. records[i].id \in Nat
          <6>1. records[i] \in BranchRecord
            BY <2>1, ElementOfSeq, LenProperties
          <6> QED
            BY <6>1 DEF BranchRecord
        <5> QED
          BY <5>1, <5>2
      <4> QED
        BY <2>3, <4>1, <4>2
    <3> QED
      BY <2>2, <3>1, <3>2
  <2>4. ASSUME NEW ops \in Incoming, Capture(ops)
        PROVE  RecordsBuild'
    BY <2>2, <2>4, RecordedOperations DEF Capture
  <2>5. CASE UNCHANGED records
    BY <2>5 DEF RecordsBuild
  <2>6. ASSUME NEW g \in Grants, ChangeGrant(g)
        PROVE  RecordsBuild'
    BY <2>5, <2>6 DEF ChangeGrant
  <2>7. ASSUME NEW c \in Calls, Sync(c)
        PROVE  RecordsBuild'
    BY <2>5, <2>7 DEF Sync, Start, Decide, Stamp, Answer, ApplyDenial, ApplyReplace,
       ApplyChanges, ApplyToNothing
  <2> QED
    BY <2>3, <2>4, <2>5, <2>6, <2>7 DEF Next, Ask, RefuseQuery, AnswerQuery, Clear, vars
<1>3. Init /\ [][Next]_vars => []Typed
  BY StartsTyped, StepsTyped, PTL
<1> QED
  BY <1>1, <1>2, <1>3, PTL DEF Spec

\* The view a call that is not told everything starts from.
HeldBy(c) == ViewAt(call[c].known.commit, call[c].version, call[c].scope)

Partial(c) == Answered(c) /\ call[c].batch.kind \in {"delta", "noop"}

\* A batch of changes, applied to what its call knew, gives what the cloud saw.
AnswerIsExact(c) ==
    Partial(c) => SeenBy(c) = IF call[c].batch.kind = "delta"
                              THEN ApplyDelta(HeldBy(c), call[c].batch.delta)
                              ELSE HeldBy(c)

\* No changes change nothing.
LEMMA NoChanges ==
    ASSUME NEW before \in Shown, NEW shown
    PROVE  ApplyDelta(before, Delta({}, shown)) = before
<1>1. Touched({}) = {}
  BY DEF Touched
<1>2. Delivered({}, shown) = {} /\ Removed({}, shown) = {}
  BY <1>1 DEF Delivered, Removed
<1>3. PICK delta : delta = Delta({}, shown)
  OBVIOUS
<1>4. DOMAIN delta.changed = {} /\ delta.removed = {}
  BY <1>2, <1>3 DEF Delta
<1>5. TakenAlong(before, {}) = {}
  BY DEF TakenAlong
<1>6. ApplyDelta(before, delta) = [o \in Objects |-> before[o]]
  BY <1>4, <1>5 DEF ApplyDelta
<1> QED
  BY <1>3, <1>6 DEF Shown

\* The cloud answers exactly.
LEMMA AnswerStepIsExact ==
    ASSUME SyncInv, RecordsBuild, VisibilityIsSteady, NEW c \in Calls, Answer(c)
    PROVE  AnswerIsExact(c)'
<1>1. /\ call[c] \in CallRecord /\ CallInv(c) /\ call[c].step = "answering"
      /\ call[c].scope \in Scopes /\ call[c].stamp \in Version
      /\ UNCHANGED <<records, grants>>
  BY DEF SyncInv, Typed, CallsTyped, Answer
<1>0. PICK identity, shown, batch :
        /\ identity = AnswerIdentity(c)
        /\ shown = ViewAt(identity.commit, call[c].version, call[c].scope)
        /\ batch = BatchFor(call[c].known, identity, shown)
        /\ call' = [call EXCEPT ![c].step = "applying", ![c].batch = batch]
  BY DEF Answer
<1>2. PICK known, version, scope :
        /\ known = call[c].known /\ version = call[c].version /\ scope = call[c].scope
        /\ identity = AnswerIdentity(c)
        /\ shown = ViewAt(identity.commit, version, scope)
        /\ batch = BatchFor(known, identity, shown)
  BY <1>0
<1>3. Len(records) \in Watermark /\ Len(records) \in Nat
  BY LenProperties, WorkingReplicaAssumption DEF SyncInv, Typed, RecordsTyped, Watermark
<1>4. identity \in Identity /\ identity.commit = Len(records)
  BY <1>1, <1>2, <1>3 DEF AnswerIdentity, Identity
<1>5. shown \in Shown
  BY <1>2, <1>3, <1>4, ViewAtIsShown DEF SyncInv, Typed
<1>6. call'[c] = [call[c] EXCEPT !.step = "applying", !.batch = batch]
  BY <1>0 DEF SyncInv, Typed, CallsTyped
<1>7. /\ call'[c].batch = batch /\ call'[c].known = known
      /\ call'[c].version = version /\ call'[c].scope = scope
  <2>1. /\ call'[c].batch = batch /\ call'[c].known = call[c].known
        /\ call'[c].version = call[c].version /\ call'[c].scope = call[c].scope
    BY <1>1, <1>6 DEF CallRecord
  <2> QED
    BY <1>2, <2>1
<1>8. batch.identity = identity
  <2>1. known \in Identity \cup {None} /\ Typed
    BY <1>1, <1>2 DEF CallRecord, SyncInv
  <2>2. Says(batch, known, identity, shown)
    BY <1>2, <1>4, <1>5, <2>1, BatchSays
  <2> QED
    BY <2>2 DEF Says
<1>9. SeenBy(c)' = shown /\ HeldBy(c)' = ViewAt(known.commit, version, scope)
  <2>1. /\ SeenBy(c)' = ViewAt(identity.commit, version, scope)'
        /\ HeldBy(c)' = ViewAt(known.commit, version, scope)'
    BY <1>7, <1>8 DEF SeenBy, HeldBy, ViewAt, LogUpTo
  <2> QED
    BY <1>1, <1>2, <2>1 DEF ViewAt, LogUpTo
<1>10. ASSUME batch.kind \in {"delta", "noop"}
       PROVE  shown = IF batch.kind = "delta"
                      THEN ApplyDelta(ViewAt(known.commit, version, scope), batch.delta)
                      ELSE ViewAt(known.commit, version, scope)
  <2>1. PICK ops, accepted :
            /\ accepted = {s \in HistoryAfter(known.commit, shown) : records[s].status = "accepted"}
            /\ ops = ChangesSince(known.commit, shown)
    OBVIOUS
  <2>2. /\ ~Replacing(known, identity) /\ ~RebuildRequired(ops)
        /\ batch.kind = "noop" => accepted = {}
        /\ batch.kind = "delta" => batch.delta = Delta(ops, shown)
    <3>1. ~Replacing(known, identity)
      BY <1>2, <1>10 DEF BatchFor
    <3>2. ops = UNION {VisibleOf(s, shown) : s \in accepted}
      BY <2>1 DEF ChangesSince
    <3>3. batch = IF RebuildRequired(ops)
                  THEN [kind |-> "replace", identity |-> identity,
                        history |-> HistoryAfter(known.commit, shown), snapshot |-> shown]
                  ELSE IF accepted = {}
                  THEN [kind |-> "noop", identity |-> identity,
                        history |-> HistoryAfter(known.commit, shown)]
                  ELSE [kind |-> "delta", identity |-> identity,
                        history |-> HistoryAfter(known.commit, shown),
                        delta |-> Delta(ops, shown)]
      BY <1>2, <2>1, <3>1, <3>2, Zenon DEF BatchFor
    <3> QED
      BY <1>10, <3>1, <3>3
  <2>3. known # None
    BY <2>2 DEF Replacing
  <2>4. known \in Identity /\ known.commit \in 0..Len(records) /\ version \in 1..Len(grants)
    <3>1. known \in Identity /\ known.commit <= Len(records) /\ version \in 1..Len(grants)
      BY <1>1, <1>2, <2>3 DEF CallInv, Decided
    <3> QED
      BY <1>3, <3>1, WorkingReplicaAssumption DEF Identity, Watermark
  <2>5. PICK before \in Shown : before = ViewAt(known.commit, version, scope)
    BY <2>4, ViewAtIsShown DEF SyncInv, Typed
  <2>6. ApplyDelta(before, Delta(ops, shown)) = shown
    <3>1. None \notin Content
      BY WorkingReplicaAssumption, Zenon
    <3>2. RecordsTyped /\ scope \in Scopes /\ shown = ViewAt(Len(records), version, scope)
      BY <1>1, <1>2, <1>4 DEF SyncInv, Typed
    <3> QED
      BY <2>1, <2>2, <2>4, <2>5, <3>1, <3>2, ChangesAreExact
  <2>7. CASE batch.kind = "delta"
    BY <2>2, <2>5, <2>6, <2>7
  <2>8. CASE batch.kind = "noop"
    <3>1. ops = {}
      BY <2>1, <2>2, <2>8 DEF ChangesSince
    <3> QED
      BY <2>5, <2>6, <2>8, <3>1, NoChanges
  <2> QED
    BY <1>10, <2>7, <2>8
<1> QED
  BY <1>7, <1>9, <1>10 DEF AnswerIsExact, Partial


\* The views a call speaks of stay what they are.
LEMMA ExactStays ==
    ASSUME SyncInv, Grown, NEW c \in Calls, AnswerIsExact(c), call'[c] = call[c]
    PROVE  AnswerIsExact(c)'
<1> SUFFICES ASSUME Partial(c)
             PROVE  AnswerIsExact(c)'
  BY DEF AnswerIsExact, Partial, Answered
<1>1. PICK identity, known, version, scope :
        /\ identity = call[c].batch.identity /\ known = call[c].known
        /\ version = call[c].version /\ scope = call[c].scope
  OBVIOUS
<1>2. /\ identity \in Identity /\ identity.commit <= Len(records)
      /\ known # None /\ version \in 1..Len(grants)
      /\ known \in Identity /\ known.commit <= Len(records)
  <2>1. BatchInv(c) /\ CallInv(c)
    BY DEF SyncInv, CallInv, Partial
  <2>2. known # None
    BY <1>1, <2>1 DEF BatchInv, Says, Partial
  <2> QED
    BY <1>1, <2>1, <2>2 DEF BatchInv, CallInv, Partial, Decided
<1>3. identity.commit \in 0..Len(records) /\ known.commit \in 0..Len(records)
  BY <1>2, LenProperties, WorkingReplicaAssumption
     DEF SyncInv, Typed, RecordsTyped, Identity, Watermark
<1>4. /\ ViewAt(identity.commit, version, scope)' = ViewAt(identity.commit, version, scope)
      /\ ViewAt(known.commit, version, scope)' = ViewAt(known.commit, version, scope)
  BY <1>2, <1>3, ViewsStay DEF SyncInv
<1>5. SeenBy(c)' = SeenBy(c) /\ HeldBy(c)' = HeldBy(c)
  <2>1. /\ SeenBy(c)' = ViewAt(identity.commit, version, scope)'
        /\ HeldBy(c)' = ViewAt(known.commit, version, scope)'
    BY <1>1 DEF SeenBy, HeldBy, ViewAt, LogUpTo
  <2> QED
    BY <1>1, <1>4, <2>1 DEF SeenBy, HeldBy
<1>6. SeenBy(c) = IF call[c].batch.kind = "delta"
                  THEN ApplyDelta(HeldBy(c), call[c].batch.delta)
                  ELSE HeldBy(c)
  BY DEF AnswerIsExact
<1> QED
  BY <1>5, <1>6 DEF AnswerIsExact

AnswersAreExact == \A c \in Calls : AnswerIsExact(c)

\* Every answer stays exact until it is applied.
LEMMA ExactSteps ==
    SyncInv /\ RecordsBuild /\ VisibilityIsSteady /\ AnswersAreExact /\ [Next]_vars
        => AnswersAreExact'
<1> SUFFICES ASSUME SyncInv, RecordsBuild, VisibilityIsSteady, AnswersAreExact, [Next]_vars,
                    NEW c \in Calls
             PROVE  AnswerIsExact(c)'
  BY DEF AnswersAreExact
<1>1. Grown /\ DOMAIN call = Calls
  BY StepsGrow DEF SyncInv, Typed, CallsTyped
<1>2. CASE call' = call
  BY <1>1, <1>2, ExactStays DEF AnswersAreExact
<1>3. ASSUME NEW d \in Calls, Sync(d)
      PROVE  AnswerIsExact(c)'
  <2>1. d = c
    BY DEF SyncInv, OneAtATime
  <2>2. CASE Answer(d)
    BY <2>1, <2>2, AnswerStepIsExact
  <2>3. ASSUME NEW scope \in Scopes, Start(d, scope)
        PROVE  AnswerIsExact(c)'
    <3>1. call'[c] = [IdleCall EXCEPT !.step = "deciding", !.known = store.identity,
                                      !.scope = scope]
      BY <1>1, <2>1, <2>3 DEF Start
    <3>2. call'[c].step = "deciding"
      BY <3>1 DEF IdleCall
    <3> QED
      BY <3>2 DEF AnswerIsExact, Partial, Answered
  <2>4. CASE Decide(d) \/ Stamp(d)
    <3>1. call[c] \in CallRecord /\ call \in [Calls -> CallRecord]
      BY DEF SyncInv, Typed, CallsTyped
    <3>2. call'[c].step \in {"stamping", "answering"} \/ call'[c].batch.kind = "denied"
      BY <2>1, <2>4, <3>1 DEF Decide, Stamp, CallRecord
    <3> QED
      BY <3>2 DEF AnswerIsExact, Partial, Answered
  <2>5. CASE Finished(d)
    <3>1. call'[c].step = "idle"
      BY <2>1, <2>5, FinishedCall
    <3> QED
      BY <3>1 DEF AnswerIsExact, Partial, Answered
  <2> QED
    BY <1>3, <2>2, <2>3, <2>4, <2>5 DEF Sync, ApplyDenial, ApplyReplace, ApplyChanges,
       ApplyToNothing
<1> QED
  BY <1>2, <1>3 DEF Next, Commit, Capture, Record, ChangeGrant, Ask, RefuseQuery, AnswerQuery,
     Clear, vars

\* With clients that create and update, commits that leave what was there as
\* visible as it was, reverts of any commit, and one synchronisation at a time, the
\* replica is exactly what its subject may see at its watermarks: whatever grants,
\* bootstraps, deltas, rebuilds, denials and queries came in which order.
THEOREM ReplicaIsTheView ==
    OneAtATime /\ Builds /\ Spec /\ []VisibilityIsSteady => []ReplicaIsAuthorizedView
<1>1. OneAtATime /\ Init => AnswersAreExact /\ ReplicaIsAuthorizedView
  <2> SUFFICES ASSUME Init PROVE AnswersAreExact /\ ReplicaIsAuthorizedView
    OBVIOUS
  <2>1. \A c \in Calls : call[c].step = "idle"
    BY DEF Init, IdleCall
  <2>2. ~store.valid
    BY DEF Init, EmptyReplica
  <2> QED
    BY <2>1, <2>2 DEF AnswersAreExact, AnswerIsExact, Partial, Answered, ReplicaIsAuthorizedView
<1>2. SyncInv /\ RecordsBuild /\ VisibilityIsSteady /\ AnswersAreExact /\ [Next]_vars
        => AnswersAreExact'
  BY ExactSteps
<1>3. SyncInv /\ AnswersAreExact /\ ReplicaIsAuthorizedView /\ [Next]_vars
        => ReplicaIsAuthorizedView'
  <2> SUFFICES ASSUME SyncInv, AnswersAreExact, ReplicaIsAuthorizedView, [Next]_vars,
                      store'.valid, store'.version = store'.identity.permission
               PROVE  store'.snapshot = ViewAt(store.identity.commit, store.version,
                                               store.identity.scope)'
    BY DEF ReplicaIsAuthorizedView
  <2>1. Typed /\ Grown
    BY StepsGrow DEF SyncInv
  <2>2. CASE store' = store
    <3>1. PICK identity, version : identity = store.identity /\ version = store.version
      OBVIOUS
    <3>2. identity.commit \in 0..Len(records) /\ version \in 1..Len(grants)
      BY <2>1, <2>2, <3>1, ValidStore, LenProperties, WorkingReplicaAssumption
         DEF SyncInv, Typed, RecordsTyped, GrantsTyped, Identity, Watermark, Version
    <3>3. ViewAt(identity.commit, version, identity.scope)'
            = ViewAt(identity.commit, version, identity.scope)
      BY <2>1, <3>2, ViewsStay
    <3>4. store.snapshot = ViewAt(identity.commit, version, identity.scope)
      BY <2>2, <3>1 DEF ReplicaIsAuthorizedView
    <3>5. ViewAt(store.identity.commit, store.version, store.identity.scope)'
            = ViewAt(identity.commit, version, identity.scope)'
      BY <2>2, <3>1 DEF ViewAt, LogUpTo
    <3> QED
      BY <2>2, <3>3, <3>4, <3>5
  <2>3. CASE store' = EmptyReplica
    BY <2>3 DEF EmptyReplica
  <2>4. ASSUME NEW c \in Calls, Filled(c)
        PROVE  store'.snapshot = ViewAt(store.identity.commit, store.version,
                                        store.identity.scope)'
    <3>1. /\ records' = records /\ grants' = grants /\ Answered(c)
          /\ store'.identity = call[c].batch.identity
          /\ store'.version = call[c].version
      BY <2>4 DEF Filled, Replaced, Changed
    <3>2. call[c].batch.identity.scope = call[c].scope
      BY <3>1 DEF SyncInv, CallInv, BatchInv
    <3>3. ViewAt(store.identity.commit, store.version, store.identity.scope)' = SeenBy(c)
      BY <3>1, <3>2 DEF SeenBy, ViewAt, LogUpTo
    <3>4. CASE Replaced(c)
      BY <3>3, <3>4 DEF Replaced
    <3>5. CASE Changed(c)
      <4>1. /\ store.valid /\ store.version = store.identity.permission
            /\ call[c].known = store.identity /\ call[c].version = store.identity.permission
            /\ call[c].scope = store.identity.scope
            /\ Partial(c)
        BY <3>1, <3>2, <3>5 DEF Changed, Partial
      <4>2. store.snapshot = HeldBy(c)
        BY <4>1 DEF ReplicaIsAuthorizedView, HeldBy
      <4>3. SeenBy(c) = IF call[c].batch.kind = "delta"
                        THEN ApplyDelta(HeldBy(c), call[c].batch.delta)
                        ELSE HeldBy(c)
        BY <4>1 DEF AnswersAreExact, AnswerIsExact
      <4> QED
        BY <3>3, <3>5, <4>2, <4>3 DEF Changed
    <3> QED
      BY <2>4, <3>4, <3>5 DEF Filled
  <2> QED
    BY <2>2, <2>3, <2>4, StoreSteps
<1> QED
  BY <1>1, <1>2, <1>3, SyncHolds, RecordsBuildHolds, PTL DEF Spec

\* Of such a replica everything shown was let through by the grant it was decided
\* on or by that of its permission watermark, and is shown with what it hangs from.
THEOREM WhatIsShownWasDecided ==
    OneAtATime /\ Builds /\ Spec /\ []VisibilityIsSteady => []ShownAsDecided
<1>1. SyncInv /\ ReplicaIsAuthorizedView /\ OnlyAdmitted => ShownAsDecided
  BY ViewsShowNothingAlone DEF ShownAsDecided
<1> QED
  BY <1>1, ReplicaIsTheView, OnlyAdmittedIsShown, SyncHolds, PTL

\* A local revision on such a replica is based on the last accepted record that
\* touches what it shows, after any bootstraps, deltas, rebuilds, batches that
\* change nothing, and denials.
THEOREM RevisionsAreBasedOnTheLatest ==
    OneAtATime /\ Builds /\ Spec /\ []VisibilityIsSteady => []RevisionBaseIsLatest
<1> QED
  BY ReplicaIsTheView, ViewsHaveTheirBase, PTL

=============================================================================
