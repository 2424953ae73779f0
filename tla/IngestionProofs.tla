--------------------------- MODULE IngestionProofs ---------------------------
(***************************************************************************)
(* Proofs about the ingestion of resources beside the projection worker:   *)
(* types, CAS-first visibility, that what the indexes hold of a chunk is   *)
(* what the history created, and that an answered ingestion is whole.      *)
(***************************************************************************)
EXTENDS ResourceIngestion, MemoryProofs

-----------------------------------------------------------------------------
(* What one operation does to the objects of a view.                       *)

\* Nothing but its creation makes an object present, nothing but an update or
\* a creation changes a content, and a resource that was removed stays so.
LEMMA OperationChanges ==
    ASSUME NEW v \in MemoryView, NEW op \in MutationOperation,
           NEW w, w = ApplyOperation(v, op), NEW o \in Objects
    PROVE  /\ ~Present(v, o) /\ Present(w, o) => op.kind = "create" /\ op.object = o
           /\ \/ w.objects[o].content = v.objects[o].content
              \/ /\ op.kind \in {"create", "update"} /\ op.object = o
                 /\ w.objects[o].content = op.content
           /\ Kind[o] = "resource" /\ v.objects[o].status = "tombstoned"
                => w.objects[o].status = "tombstoned"
<1>1. /\ v.ok \in BOOLEAN /\ v.objects \in [Objects -> MemoryObject]
      /\ v.objects[o] \in MemoryObject
      /\ v \in [ok: BOOLEAN, objects: [Objects -> MemoryObject]]
  BY DEF MemoryView
<1>2. CASE ~v.ok
  BY <1>2 DEF ApplyOperation
<1>3. CASE v.ok /\ op.kind = "create"
  <2>1. op.object \in Objects /\ op.content \in Content
    BY <1>3 DEF MutationOperation
  <2>2. w = ApplyCreate(v, op.object, op.content)
    BY <1>3 DEF ApplyOperation
  <2>3. \/ ~Present(v, op.object) /\ w = Store(v, op.object, "active", op.content)
        \/ w = [v EXCEPT !.ok = FALSE]
    BY <2>2 DEF ApplyCreate
  <2>4. CASE w = [v EXCEPT !.ok = FALSE]
    BY <1>1, <2>4 DEF Present
  <2>5. CASE ~Present(v, op.object) /\ w = Store(v, op.object, "active", op.content)
    BY <1>1, <1>3, <2>1, <2>5 DEF Store, Present
  <2> QED
    BY <2>3, <2>4, <2>5
<1>4. CASE v.ok /\ op.kind = "update"
  <2>1. op.object \in Objects /\ op.content \in Content
    BY <1>4 DEF MutationOperation, OfKind
  <2>2. w = ApplyUpdate(v, op.object, op.content)
    BY <1>4 DEF ApplyOperation
  <2>3. \/ /\ Present(v, op.object)
           /\ \/ w = Store(v, op.object, v.objects[op.object].status, op.content)
              \/ /\ Kind[op.object] # "resource"
                 /\ w = Store(v, op.object, "active", op.content)
        \/ w = [v EXCEPT !.ok = FALSE]
    BY <2>2 DEF ApplyUpdate
  <2>4. CASE w = [v EXCEPT !.ok = FALSE]
    BY <1>1, <2>4 DEF Present
  <2>5. CASE /\ Present(v, op.object)
             /\ w = Store(v, op.object, v.objects[op.object].status, op.content)
    BY <1>1, <1>4, <2>1, <2>5 DEF Store, Present
  <2>6. CASE /\ Present(v, op.object) /\ Kind[op.object] # "resource"
             /\ w = Store(v, op.object, "active", op.content)
    BY <1>1, <1>4, <2>1, <2>6 DEF Store, Present
  <2> QED
    BY <2>3, <2>4, <2>5, <2>6
<1>5. CASE v.ok /\ op.kind = "tombstone"
  <2>1. w = ApplyTombstone(v, op.object)
    BY <1>5 DEF ApplyOperation
  <2>2. w.objects[o] = IF o \in Cascade(v, op.object)
                       THEN [v.objects[o] EXCEPT !.status = "tombstoned"]
                       ELSE v.objects[o]
    BY <1>1, <2>1 DEF ApplyTombstone
  <2>3. o \in Cascade(v, op.object) => Present(v, o)
    BY DEF Cascade
  <2>4. w.objects[o].content = v.objects[o].content
    BY <1>1, <2>2 DEF MemoryObject
  <2>5. \/ w.objects[o].status = v.objects[o].status
        \/ Present(v, o) /\ w.objects[o].status = "tombstoned"
    BY <1>1, <2>2, <2>3 DEF MemoryObject
  <2> QED
    BY <2>4, <2>5 DEF Present
<1>6. CASE v.ok /\ op.kind \notin {"create", "update", "tombstone"}
  BY <1>6 DEF ApplyOperation
<1> QED
  BY <1>1, <1>2, <1>3, <1>4, <1>5, <1>6

\* A tombstone that goes through leaves a present object tombstoned.
LEMMA TombstoneRemoves ==
    ASSUME NEW v \in MemoryView, v.ok, NEW o \in Objects, Active(v, o),
           NEW w, w = ApplyOperation(v, TombstoneOp(o))
    PROVE  w.objects[o].status = "tombstoned"
<1>1. v \in [ok: BOOLEAN, objects: [Objects -> MemoryObject]] /\ v.objects[o] \in MemoryObject
  BY DEF MemoryView
<1>2. w = ApplyTombstone(v, o)
  BY DEF ApplyOperation, TombstoneOp
<1>3. o \in Cascade(v, o)
  BY DEF Cascade, Active, Present
<1>4. w.objects[o] = [v.objects[o] EXCEPT !.status = "tombstoned"]
  BY <1>1, <1>2, <1>3 DEF ApplyTombstone
<1> QED
  BY <1>1, <1>4 DEF MemoryObject

-----------------------------------------------------------------------------
(* The view of a log that reverts nothing.                                 *)

LogCommit == [id: Nat, ops: Seq(MutationOperation)]

\* The log grows, and its view by the operations of the new commit.
LEMMA ViewSteps ==
    ASSUME NEW l \in Seq(LogCommit), NEW commit \in LogCommit
    PROVE  /\ Replay(SeedView, <<>>) = SeedView
           /\ Replay(SeedView, l) \in MemoryView
           /\ Append(l, commit) \in Seq(LogCommit)
           /\ Replay(SeedView, Append(l, commit))
                = ApplyAll(Replay(SeedView, l), Expanded(commit.ops))
<1> DEFINE none == {}
           empty == <<>>
<1>1. SeedView \in MemoryView
  <2>1. NoContent \in Content
    BY DEF NoContent, Content
  <2>2. AbsentObject \in MemoryObject /\ [AbsentObject EXCEPT !.status = "active"] \in MemoryObject
    BY <2>1 DEF AbsentObject, MemoryObject
  <2> QED
    BY <2>1, <2>2 DEF SeedView, MemoryView
<1>2. ASSUME NEW k \in Seq(LogCommit)
      PROVE  RevertedCommits(k) = {}
  <2>1. ASSUME NEW i \in DOMAIN k, NEW j \in DOMAIN k[i].ops
        PROVE  ~IsRevert(k[i].ops[j])
    <3>1. k[i] \in LogCommit
      BY LenProperties, ElementOfSeq
    <3>2. k[i].ops \in Seq(MutationOperation)
      BY <3>1 DEF LogCommit
    <3>3. k[i].ops[j] \in MutationOperation
      BY <3>2, LenProperties, ElementOfSeq
    <3> QED
      BY <3>3 DEF MutationOperation, IsRevert
  <2> QED
    BY <2>1 DEF RevertedCommits
<1>3. PICK some : some \in MutationOperation
  <2>1. TombstoneOp(Root) \in MutationOperation
    BY MemoryModelAssumption DEF TombstoneOp, MutationOperation, OfKind
  <2> QED
    BY <2>1
<1>4. none = {} /\ empty = <<>> /\ empty \in Seq(LogCommit) /\ Append(l, commit) \in Seq(LogCommit)
  BY AppendProperties, EmptySeq
<1> HIDE DEF none, empty
<1>5. Replayable(none, LogCommit)
  <2>1. ASSUME NEW u \in MemoryView, NEW c \in LogCommit
        PROVE  ApplyCommit(none, u, c) \in MemoryView
    <3>1. c.ops \in Seq(MutationOperation)
      BY DEF LogCommit
    <3>2. ApplyAll(u, Expanded(c.ops)) \in MemoryView
      BY <1>3, <3>1, ExpandedOneMore
    <3> QED
      BY <3>2 DEF ApplyCommit
  <2> QED
    BY <2>1 DEF Replayable
<1>6. /\ ReplayWith(none, SeedView, <<>>) = SeedView
      /\ ReplayWith(none, SeedView, l) \in MemoryView
      /\ ReplayWith(none, SeedView, Append(l, commit))
           = ApplyCommit(none, ReplayWith(none, SeedView, l), commit)
  BY <1>1, <1>5, ReplayWithSteps
<1>7. \A k \in Seq(LogCommit) : Replay(SeedView, k) = ReplayWith(none, SeedView, k)
  BY <1>2, <1>4, ReplayIsFold
<1>8. Replay(SeedView, <<>>) = SeedView
  BY <1>4, <1>6, <1>7
<1> QED
  BY <1>4, <1>6, <1>7, <1>8 DEF ApplyCommit

\* A commit of one operation.
LEMMA ViewAfter ==
    ASSUME NEW l \in Seq(LogCommit), NEW op \in MutationOperation, op.kind # "replace",
           NEW id \in Nat, NEW commit, commit = [id |-> id, ops |-> <<op>>]
    PROVE  /\ Replay(SeedView, l) \in MemoryView
           /\ Replay(SeedView, Append(l, commit)) = ApplyOperation(Replay(SeedView, l), op)
<1> DEFINE empty == <<>>
           view == Replay(SeedView, l)
<1>1. /\ empty = <<>> /\ empty \in Seq(MutationOperation)
      /\ <<op>> = Append(empty, op) /\ <<op>> \in Seq(MutationOperation)
  BY EmptySeq
<1>2. commit \in LogCommit /\ commit.ops = <<op>>
  BY <1>1 DEF LogCommit
<1>3. view \in MemoryView /\ Replay(SeedView, Append(l, commit)) = ApplyAll(view, Expanded(commit.ops))
  BY <1>2, ViewSteps
<1> HIDE DEF empty, view
<1>4. ApplyAll(view, Expanded(Append(empty, op))) = ApplyExpanded(ApplyAll(view, Expanded(empty)), op)
  BY <1>1, <1>3, ExpandedOneMore
<1>5. ApplyAll(view, Expanded(empty)) = view
  BY <1>1, <1>3, ExpandedOneMore
<1> QED
  BY <1>1, <1>2, <1>3, <1>4, <1>5 DEF ApplyExpanded, view

-----------------------------------------------------------------------------
(* What a log does not name is absent.                                     *)

NamesNot(ops, o) == \A j \in DOMAIN ops : ops[j].object # o

\* An operation on another object does not bring an absent resource or chunk.
LEMMA AbsentAfterOperation ==
    ASSUME NEW v \in MemoryView, NEW op \in MutationOperation,
           NEW o \in Resources \cup Chunks, ~Present(v, o), op.object # o
    PROVE  ~Present(ApplyExpanded(v, op), o)
<1>1. o \in Objects /\ Kind[o] \in {"resource", "resource_chunk"}
  BY DEF Resources, Chunks, OfKind
<1>2. CASE op.kind # "replace"
  BY <1>1, <1>2, OperationChanges DEF ApplyExpanded
<1>3. CASE op.kind = "replace"
  <2> DEFINE t == TombstoneOp(op.object)
             c == CreateOp(op.by, op.content)
             u == ApplyOperation(v, t)
  <2>1. t \in MutationOperation /\ c \in MutationOperation
    BY <1>3, ReplaceParts
  <2>2. t.kind = "tombstone" /\ c.object # o
    BY <1>1, <1>3 DEF TombstoneOp, CreateOp, MutationOperation, OfKind
  <2> HIDE DEF t, c
  <2>3. u \in MemoryView /\ ~Present(u, o)
    BY <1>1, <2>1, <2>2, OperationKeeps, OperationChanges
  <2> HIDE DEF u
  <2>4. ~Present(ApplyOperation(u, c), o)
    BY <1>1, <2>1, <2>2, <2>3, OperationChanges
  <2> QED
    BY <1>3, <2>4 DEF ApplyExpanded, u, t, c
<1> QED
  BY <1>2, <1>3

\* Neither does a batch that names only others.
LEMMA AbsentAfterBatch ==
    ASSUME NEW v \in MemoryView, NEW ops \in Seq(MutationOperation),
           NEW o \in Resources \cup Chunks, ~Present(v, o), NamesNot(ops, o)
    PROVE  ~Present(ApplyAll(v, Expanded(ops)), o)
<1> DEFINE n == Len(ops)
           Part(k) == SubSeq(ops, 1, k)
           S == {k \in 0..n : ~Present(ApplyAll(v, Expanded(Part(k))), o)}
<1>1. n \in Nat /\ DOMAIN ops = 1..n
  BY LenProperties
<1>2. /\ Part(0) = <<>> /\ Part(n) = ops
      /\ \A k \in 0..n : /\ Part(k) \in Seq(MutationOperation)
                         /\ k < n => ops[k + 1] \in MutationOperation
                                     /\ Part(k + 1) = Append(Part(k), ops[k + 1])
  BY PrefixSteps
<1>3. PICK some : some \in MutationOperation
  <2>1. TombstoneOp(Root) \in MutationOperation
    BY MemoryModelAssumption DEF TombstoneOp, MutationOperation, OfKind
  <2> QED
    BY <2>1
<1> HIDE DEF n, Part
<1>4. 0 \in S
  <2>1. ApplyAll(v, Expanded(<<>>)) = v
    BY <1>3, ExpandedOneMore
  <2> QED
    BY <1>1, <1>2, <2>1
<1>5. ASSUME NEW k \in 0..n, k \in S, k < n
      PROVE  k + 1 \in S
  <2>1. /\ Part(k) \in Seq(MutationOperation) /\ ops[k + 1] \in MutationOperation
        /\ Part(k + 1) = Append(Part(k), ops[k + 1])
    BY <1>2, <1>5
  <2> DEFINE u == ApplyAll(v, Expanded(Part(k)))
  <2>2. /\ u \in MemoryView
        /\ ApplyAll(v, Expanded(Append(Part(k), ops[k + 1]))) = ApplyExpanded(u, ops[k + 1])
    BY <2>1, ExpandedOneMore
  <2>3. k + 1 \in 1..n /\ k + 1 \in 0..n
    BY <1>1, <1>5
  <2>4. ops[k + 1].object # o
    BY <1>1, <2>3 DEF NamesNot
  <2>5. ~Present(u, o)
    BY <1>5
  <2> HIDE DEF u
  <2>6. ~Present(ApplyExpanded(u, ops[k + 1]), o)
    BY <2>1, <2>2, <2>4, <2>5, AbsentAfterOperation
  <2> QED
    BY <2>1, <2>2, <2>3, <2>6
<1>6. n \in S
  <2>1. 0..n \subseteq S
    BY <1>1, <1>4, <1>5, BoundedInduction
  <2> QED
    BY <1>1, <2>1
<1> QED
  BY <1>2, <1>6

\* An object that no commit names has no place in the view.
LEMMA UnnamedIsAbsent ==
    ASSUME NEW l \in Seq(LogCommit), NEW o \in Resources \cup Chunks,
           \A i \in DOMAIN l : NamesNot(l[i].ops, o)
    PROVE  ~Present(Replay(SeedView, l), o)
<1> DEFINE n == Len(l)
           Part(k) == SubSeq(l, 1, k)
           S == {k \in 0..n : ~Present(Replay(SeedView, Part(k)), o)}
<1>1. n \in Nat /\ DOMAIN l = 1..n
  BY LenProperties
<1>2. /\ Part(0) = <<>> /\ Part(n) = l
      /\ \A k \in 0..n : /\ Part(k) \in Seq(LogCommit)
                         /\ k < n => l[k + 1] \in LogCommit
                                     /\ Part(k + 1) = Append(Part(k), l[k + 1])
  BY PrefixSteps
<1>3. PICK some : some \in LogCommit
  <2>1. [id |-> 0, ops |-> <<>>] \in LogCommit
    BY EmptySeq DEF LogCommit
  <2> QED
    BY <2>1
<1>4. ~Present(SeedView, o)
  <2>1. o \in Objects /\ o \notin SeedObjects
    BY MemoryModelAssumption DEF Resources, Chunks, OfKind
  <2> QED
    BY <2>1 DEF SeedView, Present, AbsentObject
<1> HIDE DEF n, Part
<1>5. 0 \in S
  <2>1. some \in LogCommit /\ l \in Seq(LogCommit)
    BY <1>3
  <2>2. Replay(SeedView, <<>>) = SeedView
    BY <2>1, ViewSteps
  <2> QED
    BY <1>1, <1>2, <1>4, <2>2
<1>6. ASSUME NEW k \in 0..n, k \in S, k < n
      PROVE  k + 1 \in S
  <2>1. /\ Part(k) \in Seq(LogCommit) /\ l[k + 1] \in LogCommit
        /\ Part(k + 1) = Append(Part(k), l[k + 1])
    BY <1>2, <1>6
  <2> DEFINE u == Replay(SeedView, Part(k))
             ops == l[k + 1].ops
  <2>2. /\ u \in MemoryView /\ ops \in Seq(MutationOperation)
        /\ Replay(SeedView, Append(Part(k), l[k + 1])) = ApplyAll(u, Expanded(ops))
    BY <2>1, ViewSteps DEF LogCommit
  <2>3. k + 1 \in 1..n /\ k + 1 \in 0..n
    BY <1>1, <1>6
  <2>4. NamesNot(ops, o)
    BY <1>1, <2>3
  <2>5. ~Present(u, o)
    BY <1>6
  <2> HIDE DEF u, ops
  <2>6. ~Present(ApplyAll(u, Expanded(ops)), o)
    BY <2>2, <2>4, <2>5, AbsentAfterBatch
  <2> QED
    BY <2>1, <2>2, <2>3, <2>6
<1>7. n \in S
  <2>1. 0..n \subseteq S
    BY <1>1, <1>5, <1>6, BoundedInduction
  <2> QED
    BY <1>1, <2>1
<1> QED
  BY <1>2, <1>7

-----------------------------------------------------------------------------
(* The revisions of a log.                                                 *)

RevisionSet(l) == {i \in DOMAIN l : IsRevision(l[i])}
RevisionOf(commit) == [object |-> commit.ops[1].object,
                       content |-> commit.ops[1].content.value]
RevisionsOf(l) ==
    [n \in DOMAIN At(l, RevisionSet(l)) |-> RevisionOf(At(l, RevisionSet(l))[n])]

\* A commit that is no revision leaves the revisions, another one is the last.
LEMMA RevisionsGrow ==
    ASSUME NEW l \in Seq(LogCommit), NEW commit \in LogCommit,
           NEW r, r = RevisionsOf(l), NEW s, s = RevisionsOf(Append(l, commit))
    PROVE  /\ Len(r) \in Nat /\ DOMAIN r = 1..Len(r)
           /\ ~IsRevision(commit) => s = r
           /\ IsRevision(commit) => /\ Len(s) = Len(r) + 1 /\ DOMAIN s = 1..(Len(r) + 1)
                                    /\ \A n \in 1..Len(r) : s[n] = r[n]
                                    /\ s[Len(r) + 1] = RevisionOf(commit)
<1> DEFINE L == Len(l)
           longer == Append(l, commit)
           I == RevisionSet(l)
           m == Cardinality(I)
<1>1. L \in Nat /\ DOMAIN l = 1..L /\ I \in SUBSET (1..L)
  BY LenProperties DEF RevisionSet
<1>2. /\ DOMAIN longer = 1..(L + 1)
      /\ \A i \in 1..L : longer[i] = l[i]
      /\ longer[L + 1] = commit
  BY AppendProperties, LenProperties
<1>3. ~IsRevision(commit) => RevisionSet(longer) = I
  BY <1>1, <1>2 DEF RevisionSet
<1>4. IsRevision(commit) => RevisionSet(longer) = I \cup {L + 1}
  BY <1>1, <1>2 DEF RevisionSet
<1> HIDE DEF L, longer, I
<1>5. m \in Nat /\ DOMAIN At(l, I) = 1..m
  <2>1. L \in Nat /\ I \in SUBSET (1..L)
    BY <1>1
  <2>2. /\ Cardinality(I) \in Nat
        /\ DOMAIN At(l, I) = 1..Cardinality(I)
    BY <2>1, AtLength
  <2> QED
    BY <2>2
<1> DEFINE J == I \cup {L + 1}
<1>6. /\ At(longer, I) = At(l, I)
      /\ DOMAIN At(longer, J) = 1..(m + 1)
      /\ \A n \in 1..m : At(longer, J)[n] = At(l, I)[n]
      /\ At(longer, J)[m + 1] = longer[L + 1]
  <2>1. Prolongs(longer, l, L)
    BY <1>2 DEF Prolongs
  <2>2. L \in Nat /\ I \in SUBSET (1..L) /\ J = I \cup {L + 1}
    BY <1>1
  <2> HIDE DEF J, m
  <2>3. /\ At(longer, I) = At(l, I)
        /\ DOMAIN At(longer, J) = 1..(Cardinality(I) + 1)
        /\ \A n \in 1..Cardinality(I) : At(longer, J)[n] = At(l, I)[n]
        /\ At(longer, J)[Cardinality(I) + 1] = longer[L + 1]
    BY <2>1, <2>2, AtOfLonger, SMTT(60)
  <2> QED
    BY <2>3 DEF m
<1> HIDE DEF m
<1>7. r = [n \in 1..m |-> RevisionOf(At(l, I)[n])]
  BY <1>5 DEF RevisionsOf, I
<1>8. Len(r) = m /\ DOMAIN r = 1..m
  <2> DEFINE R == {RevisionOf(At(l, I)[n]) : n \in 1..m}
  <2>1. r \in [1..m -> R]
    BY <1>7
  <2> HIDE DEF R
  <2> QED
    BY <1>5, <2>1, FunctionIsSeq
<1>9. CASE ~IsRevision(commit)
  BY <1>3, <1>5, <1>6, <1>7, <1>8, <1>9 DEF RevisionsOf, longer
<1>10. CASE IsRevision(commit)
  <2> DEFINE t == At(longer, J)
             k == m + 1
  <2>1. k \in Nat /\ k = m + 1 /\ DOMAIN t = 1..k
    BY <1>5, <1>6
  <2>2. s = [n \in 1..k |-> RevisionOf(t[n])]
    BY <1>4, <1>10, <2>1 DEF RevisionsOf, longer
  <2>3. Len(s) = k /\ DOMAIN s = 1..k
    <3> DEFINE R == {RevisionOf(t[n]) : n \in 1..k}
    <3> HIDE DEF t, k
    <3>1. s \in [1..k -> R]
      BY <2>2 DEF R
    <3> HIDE DEF R
    <3> QED
      BY <2>1, <3>1, FunctionIsSeq
  <2>4. \A n \in 1..m : n \in 1..k /\ t[n] = At(l, I)[n]
    <3>1. \A n \in 1..m : n \in 1..k
      BY <1>5
    <3> HIDE DEF k, J
    <3> QED
      BY <1>6, <3>1
  <2>5. k \in 1..k /\ t[k] = commit
    BY <1>2, <1>5, <1>6
  <2> HIDE DEF t, k
  <2> QED
    BY <1>5, <1>7, <1>8, <1>10, <2>1, <2>2, <2>3, <2>4, <2>5, SMTT(30)
<1> QED
  BY <1>5, <1>8, <1>9, <1>10

-----------------------------------------------------------------------------
(* The store writes of a projection.  S are the chunks with a content that *)
(* may be written, R the resources that may be swept.                      *)

\* A set of sequences grows with the set of their elements.
LEMMA SeqOfMore ==
    ASSUME NEW S, NEW T, S \subseteq T, NEW s \in Seq(S)
    PROVE  s \in Seq(T)
<1>1. Len(s) \in Nat /\ s \in [1..Len(s) -> T]
  BY LenProperties
<1> DEFINE n == Len(s)
<1> HIDE DEF n
<1>2. n \in Nat /\ s \in [1..n -> T]
  BY <1>1 DEF n
<1> QED
  BY <1>2, FunctionIsSeq

AnyWrite == [do: {"upsert", "document", "relate", "unrelate", "remove", "sweep"},
             object: Objects, content: Content]

SourceIn(S, R, k) == \E content \in Content : <<k, content>> \in S /\ content.source \in R

Projected(S, R) ==
    {w \in AnyWrite :
        /\ w.do = "upsert" => w.object \in Vectors
        /\ w.do = "document" => w.object \in Chunks
        /\ w.do = "relate" => w.object \in Links
        /\ w.do \in {"upsert", "document"} /\ w.object \in Chunks
             => <<w.object, w.content>> \in S
        /\ w.do = "sweep" /\ Kind[w.object] = "resource" => w.object \in R
        /\ w.do = "remove" /\ w.object \in Chunks => SourceIn(S, R, w.object)}

Within(S, R) ==
    {op \in MutationOperation :
        /\ op.kind = "create" /\ op.object \in Chunks => <<op.object, op.content>> \in S
        /\ op.kind = "tombstone" /\ op.object \in Resources => op.object \in R}

WritesWithin(S, T) == \A op \in S : WritesFor(op) \in Seq(T)

\* The writes of one operation are allowed.
LEMMA WritesAreProjected ==
    ASSUME NEW S, NEW R
    PROVE  WritesWithin(Within(S, R), Projected(S, R))
<1> DEFINE T == Projected(S, R)
<1>0. /\ \A o \in Objects : Kind[o] \in ObjectKinds
      /\ NoContent \in Content
      /\ \A o : o \in Chunks <=> o \in Objects /\ Kind[o] = "resource_chunk"
      /\ \A o : o \in Resources <=> o \in Objects /\ Kind[o] = "resource"
      /\ \A o : o \in Links <=> o \in Objects /\ Kind[o] = "memory_relation"
      /\ \A o : o \in Vectors <=> /\ o \in Objects
                                  /\ Kind[o] \in {"memory_entity", "memory_entity_branch",
                                                  "resource_chunk"}
  BY MemoryModelAssumption DEF NoContent, Content, Chunks, Resources, Links, Vectors, OfKind
<1> SUFFICES ASSUME NEW op \in Within(S, R)
             PROVE  WritesFor(op) \in Seq(T)
  BY DEF WritesWithin
<1>1. op \in MutationOperation
  BY DEF Within
<1>2. CASE op.kind = "create" /\ op.object \in Links
  <2> DEFINE w == StorePut("relate", op.object, op.content)
  <2>1. w \in T
    BY <1>0, <1>1, <1>2 DEF MutationOperation, Projected, AnyWrite, StorePut
  <2>2. WritesFor(op) = <<w>>
    BY <1>0, <1>2 DEF WritesFor
  <2> HIDE DEF w
  <2> QED
    BY <2>1, <2>2
<1>3. CASE op.kind = "create" /\ op.object \in Chunks
  <2> DEFINE w == StorePut("upsert", op.object, op.content)
             x == StorePut("document", op.object, op.content)
  <2>1. w \in T /\ x \in T
    BY <1>0, <1>1, <1>3 DEF Within, MutationOperation, Projected, AnyWrite, StorePut
  <2>2. WritesFor(op) = <<w, x>>
    BY <1>0, <1>3 DEF WritesFor
  <2> HIDE DEF w, x
  <2> QED
    BY <2>1, <2>2
<1>4. CASE \/ op.kind = "create" /\ op.object \in Vectors \ Chunks
           \/ op.kind = "update" /\ op.object \in Vectors
  <2> DEFINE w == StorePut("upsert", op.object, op.content)
  <2>1. op.object \notin Chunks /\ op.object \in Vectors /\ op.content \in Content
    BY <1>0, <1>1, <1>4 DEF MutationOperation, OfKind
  <2>2. w \in T
    BY <1>0, <2>1 DEF Projected, AnyWrite, StorePut
  <2>3. WritesFor(op) = <<w>>
    BY <1>0, <1>4, <2>1 DEF WritesFor
  <2> HIDE DEF w
  <2> QED
    BY <2>2, <2>3
<1>5. CASE op.kind = "replace"
  <2> DEFINE w == StorePut("relate", op.by, op.content)
             x == StoreWrite("unrelate", op.object)
  <2>1. w \in T /\ x \in T
    BY <1>0, <1>1, <1>5 DEF MutationOperation, Projected, AnyWrite, StorePut, StoreWrite, OfKind
  <2>2. WritesFor(op) = <<w, x>>
    BY <1>5 DEF WritesFor
  <2> HIDE DEF w, x
  <2> QED
    BY <2>1, <2>2
<1>6. CASE op.kind = "tombstone"
  <2> DEFINE u == StoreWrite("unrelate", op.object)
             r == StoreWrite("remove", op.object)
             s == StoreWrite("sweep", op.object)
  <2>1. op.object \in Objects /\ op.object \notin Chunks
    BY <1>0, <1>1, <1>6 DEF MutationOperation, OfKind
  <2>2. u \in T /\ r \in T /\ s \in T
    BY <1>0, <1>6, <2>1 DEF Within, Projected, AnyWrite, StoreWrite
  <2>3. \/ WritesFor(op) = <<u>>
        \/ WritesFor(op) = <<r, s>>
        \/ WritesFor(op) = <<s>>
        \/ WritesFor(op) = <<r>>
    <3>1. CASE Kind[op.object] = "memory_relation"
      BY <1>6, <3>1 DEF WritesFor
    <3>2. CASE Kind[op.object] = "memory_entity"
      BY <1>6, <3>2 DEF WritesFor
    <3>3. CASE Kind[op.object] = "resource"
      BY <1>6, <3>3 DEF WritesFor
    <3>4. CASE Kind[op.object] \notin {"memory_relation", "memory_entity", "resource"}
      BY <1>6, <3>4 DEF WritesFor
    <3> QED
      BY <3>1, <3>2, <3>3, <3>4
  <2> HIDE DEF u, r, s, T
  <2>4. <<u>> \in Seq(T) /\ <<r, s>> \in Seq(T) /\ <<s>> \in Seq(T) /\ <<r>> \in Seq(T)
    BY <2>2
  <2> QED
    BY <2>3, <2>4
<1>7. CASE ~ \/ op.kind = "create" /\ op.object \in Links \cup Vectors
             \/ op.kind = "update" /\ op.object \in Vectors
             \/ op.kind \in {"replace", "tombstone"}
  <2>1. WritesFor(op) = <<>>
    BY <1>0, <1>7 DEF WritesFor
  <2> QED
    BY <2>1, EmptySeq
<1> QED
  BY <1>2, <1>3, <1>4, <1>5, <1>6, <1>7

WritesInto(done, ops) == FoldLeft(LAMBDA d, op : d \o WritesFor(op), done, ops)

\* The store writes of the operations of a commit.
LEMMA WritesIntoPath ==
    ASSUME NEW T, NEW S, WritesWithin(S, T), NEW done \in Seq(T),
           NEW ops \in Seq(S),
           NEW F, F = [p \in Seq(T) \X (1..Len(ops)) |-> p[1] \o WritesFor(ops[p[2]])]
    PROVE  Leads(Len(ops), Seq(T), done, F, WritesInto(done, ops))
<1> DEFINE n == Len(ops)
           It == CHOOSE iter : iter =
                    [s \in SUBSET DOMAIN ops |->
                        IF s = {} THEN done
                        ELSE iter[s \ {Max(s)}] \o WritesFor(ops[Max(s)])]
<1>1. n \in Nat /\ DOMAIN ops = 1..n /\ \A k \in 1..n : ops[k] \in S
  BY LenProperties, ElementOfSeq
<1>2. WritesInto(done, ops) = It[DOMAIN ops]
  BY DEF WritesInto, FoldLeft, MapThenFoldSet
<1> HIDE DEF n
<1>3. /\ done \in Seq(T)
      /\ F \in [Seq(T) \X (1..n) -> Seq(T)]
      /\ \A t \in Seq(T), k \in 1..n : F[<<t, k>>] = t \o WritesFor(ops[k])
  BY <1>1, ConcatProperties DEF n, WritesWithin
<1>4. PICK iter \in [SUBSET (1..n) -> Seq(T)] : IsRecursion(iter, n, done, F)
  BY <1>1, <1>3, RecursionExists
<1>5. ASSUME NEW s \in SUBSET (1..n), s # {}
      PROVE  iter[s] = iter[s \ {Max(s)}] \o WritesFor(ops[Max(s)])
  <2> DEFINE m == Max(s)
             r == s \ {m}
  <2>1. m \in 1..n /\ r \in SUBSET (1..n)
    BY <1>1, <1>5, LargestElement
  <2> HIDE DEF m, r
  <2>2. F[<<iter[r], m>>] = iter[r] \o WritesFor(ops[m])
    BY <1>3, <1>4, <2>1
  <2> QED
    BY <1>4, <1>5, <2>2 DEF r, m, IsRecursion
<1>6. iter = [s \in SUBSET DOMAIN ops |->
                IF s = {} THEN done
                ELSE iter[s \ {Max(s)}] \o WritesFor(ops[Max(s)])]
  BY <1>1, <1>4, <1>5 DEF IsRecursion
<1>7. It = [s \in SUBSET DOMAIN ops |->
                IF s = {} THEN done
                ELSE It[s \ {Max(s)}] \o WritesFor(ops[Max(s)])]
  BY <1>6
<1> HIDE DEF It
<1>8. It[{}] = done
  BY <1>7
<1>9. ASSUME NEW s \in SUBSET (1..n), s # {}, It[s \ {Max(s)}] \in Seq(T)
      PROVE  It[s] = F[<<It[s \ {Max(s)}], Max(s)>>]
  <2> DEFINE m == Max(s)
             r == s \ {m}
  <2>1. m \in 1..n
    BY <1>1, <1>9, LargestElement
  <2>2. It[s] = It[r] \o WritesFor(ops[m])
    BY <1>1, <1>7, <1>9
  <2>3. It[r] \in Seq(T)
    BY <1>9
  <2> HIDE DEF m, r
  <2>4. It[s] = F[<<It[r], m>>]
    BY <1>3, <2>1, <2>2, <2>3
  <2> QED
    BY <2>4 DEF m, r
<1>10. Leads(n, Seq(T), done, F, It[1..n])
  <2>1. IsTypedRecursion(It, n, Seq(T), done, F)
    BY <1>8, <1>9 DEF IsTypedRecursion
  <2>2. n \in Nat /\ done \in Seq(T) /\ F \in [Seq(T) \X (1..n) -> Seq(T)]
    BY <1>1, <1>3
  <2> QED
    BY <2>1, <2>2, RecursionIsPath
<1> QED
  BY <1>1, <1>2, <1>10 DEF n


WritesIntoWithin(C, T) == \A done \in Seq(T), c \in C : WritesInto(done, c.ops) \in Seq(T)

\* The store writes of the commits of a log.
LEMMA WritesOfPath ==
    ASSUME NEW T, NEW C, WritesIntoWithin(C, T),
           NEW l \in Seq(C),
           NEW F, F = [p \in Seq(T) \X (1..Len(l)) |-> WritesInto(p[1], l[p[2]].ops)]
    PROVE  Leads(Len(l), Seq(T), <<>>, F, WritesOf(l))
<1> DEFINE n == Len(l)
           It == CHOOSE iter : iter =
                    [s \in SUBSET DOMAIN l |->
                        IF s = {} THEN <<>>
                        ELSE WritesInto(iter[s \ {Max(s)}], l[Max(s)].ops)]
<1>1. n \in Nat /\ DOMAIN l = 1..n /\ \A k \in 1..n : l[k] \in C
  BY LenProperties, ElementOfSeq
<1>2. WritesOf(l) = It[DOMAIN l]
  BY DEF WritesOf, WritesInto, FoldLeft, MapThenFoldSet
<1> HIDE DEF n
<1>3. /\ <<>> \in Seq(T)
      /\ F \in [Seq(T) \X (1..n) -> Seq(T)]
      /\ \A t \in Seq(T), k \in 1..n : F[<<t, k>>] = WritesInto(t, l[k].ops)
  BY <1>1, EmptySeq DEF n, WritesIntoWithin
<1>4. PICK iter \in [SUBSET (1..n) -> Seq(T)] : IsRecursion(iter, n, <<>>, F)
  BY <1>1, <1>3, RecursionExists
<1>5. ASSUME NEW s \in SUBSET (1..n), s # {}
      PROVE  iter[s] = WritesInto(iter[s \ {Max(s)}], l[Max(s)].ops)
  <2> DEFINE m == Max(s)
             r == s \ {m}
  <2>1. m \in 1..n /\ r \in SUBSET (1..n)
    BY <1>1, <1>5, LargestElement
  <2> HIDE DEF m, r
  <2>2. F[<<iter[r], m>>] = WritesInto(iter[r], l[m].ops)
    BY <1>3, <1>4, <2>1
  <2> QED
    BY <1>4, <1>5, <2>2 DEF r, m, IsRecursion
<1>6. iter = [s \in SUBSET DOMAIN l |->
                IF s = {} THEN <<>>
                ELSE WritesInto(iter[s \ {Max(s)}], l[Max(s)].ops)]
  BY <1>1, <1>4, <1>5 DEF IsRecursion
<1>7. It = [s \in SUBSET DOMAIN l |->
                IF s = {} THEN <<>>
                ELSE WritesInto(It[s \ {Max(s)}], l[Max(s)].ops)]
  BY <1>6
<1> HIDE DEF It
<1>8. It[{}] = <<>>
  BY <1>7
<1>9. ASSUME NEW s \in SUBSET (1..n), s # {}, It[s \ {Max(s)}] \in Seq(T)
      PROVE  It[s] = F[<<It[s \ {Max(s)}], Max(s)>>]
  <2> DEFINE m == Max(s)
             r == s \ {m}
  <2>1. m \in 1..n
    BY <1>1, <1>9, LargestElement
  <2>2. It[s] = WritesInto(It[r], l[m].ops)
    BY <1>1, <1>7, <1>9
  <2>3. It[r] \in Seq(T)
    BY <1>9
  <2> HIDE DEF m, r
  <2>4. It[s] = F[<<It[r], m>>]
    BY <1>3, <2>1, <2>2, <2>3
  <2> QED
    BY <2>4 DEF m, r
<1>10. Leads(n, Seq(T), <<>>, F, It[1..n])
  <2>1. IsTypedRecursion(It, n, Seq(T), <<>>, F)
    BY <1>8, <1>9 DEF IsTypedRecursion
  <2>2. n \in Nat /\ <<>> \in Seq(T) /\ F \in [Seq(T) \X (1..n) -> Seq(T)]
    BY <1>1, <1>3
  <2> QED
    BY <2>1, <2>2, RecursionIsPath
<1> QED
  BY <1>1, <1>2, <1>10 DEF n


CommitWithin(S, R) == [id: Nat, ops: Seq(Within(S, R))]

\* The writes of a part of a log are allowed.
LEMMA ProjectionIsWithin ==
    ASSUME NEW S, NEW R, NEW l \in Seq(CommitWithin(S, R)), NEW m \in Nat,
           NEW part, part = SubSeq(l, m + 1, Len(l))
    PROVE  WritesOf(part) \in Seq(Projected(S, R))
<1> DEFINE T == Projected(S, R)
           W == Within(S, R)
           C == CommitWithin(S, R)
<1>1. WritesWithin(W, T)
  BY WritesAreProjected
<1>2. WritesIntoWithin(C, T)
  <2>1. ASSUME NEW done \in Seq(T), NEW c \in C
        PROVE  WritesInto(done, c.ops) \in Seq(T)
    <3>1. PICK ops : ops = c.ops /\ ops \in Seq(W)
      BY DEF CommitWithin
    <3> DEFINE F == [p \in Seq(T) \X (1..Len(ops)) |-> p[1] \o WritesFor(ops[p[2]])]
    <3> HIDE DEF T, W
    <3>2. Leads(Len(ops), Seq(T), done, F, WritesInto(done, ops))
      BY <1>1, <3>1, WritesIntoPath
    <3>3. Len(ops) \in Nat
      BY <3>1, LenProperties
    <3> HIDE DEF F
    <3>4. WritesInto(done, ops) \in Seq(T)
      BY <3>2, <3>3 DEF Leads
    <3> QED
      BY <3>1, <3>4
  <2> QED
    BY <2>1 DEF WritesIntoWithin
<1> HIDE DEF T, C
<1>3. part \in Seq(C)
  <2>2. l \in Seq(C) /\ Len(l) \in Nat /\ m + 1 \in Nat
    BY LenProperties DEF C
  <2>3. CASE m + 1 <= Len(l)
    <3>1. \A i \in (m + 1)..Len(l) : l[i] \in C
      <4>1. \A i \in (m + 1)..Len(l) : i \in 1..Len(l)
        BY <2>2
      <4> QED
        BY <2>2, <4>1, ElementOfSeq
    <3> QED
      BY <2>2, <3>1, SubSeqProperties
  <2>4. CASE ~(m + 1 <= Len(l))
    <3>1. SubSeq(l, m + 1, Len(l)) = <<>>
      BY <2>2, <2>4, SubSeqEmpty
    <3> QED
      BY <3>1, EmptySeq
  <2> QED
    BY <2>3, <2>4
<1> DEFINE F == [p \in Seq(T) \X (1..Len(part)) |-> WritesInto(p[1], part[p[2]].ops)]
<1>4. Leads(Len(part), Seq(T), <<>>, F, WritesOf(part))
  BY <1>2, <1>3, WritesOfPath
<1>5. Len(part) \in Nat
  BY <1>3, LenProperties
<1> HIDE DEF F
<1> QED
  BY <1>4, <1>5 DEF Leads, T

-----------------------------------------------------------------------------
(* The worker writes no more than the log allows.                          *)

ProjectCall(S, R) == [step: {"idle", "running"}, last: Nat, todo: Seq(Projected(S, R))]

StoresWithin(S) ==
    /\ points \in [Vectors -> StoredContent]
    /\ relations \in [Links -> StoredContent]
    /\ documents \in [Chunks -> StoredContent]
    /\ \A k \in Chunks : /\ points[k] # None => <<k, points[k]>> \in S
                         /\ documents[k] # None => <<k, documents[k]>> \in S

WorkerWithin(S, R) ==
    /\ StoresWithin(S)
    /\ project \in [Projectors -> ProjectCall(S, R)]

\* What an allowed write leaves in the stores.
LEMMA WrittenWithin ==
    ASSUME NEW S, NEW R, StoresWithin(S), NEW w \in Projected(S, R), Written(w)
    PROVE  StoresWithin(S)'
<1>1. /\ w.object \in Objects /\ w.content \in Content
      /\ w.content \in StoredContent /\ None \in StoredContent
      /\ Chunks \subseteq Vectors
  BY DEF Projected, AnyWrite, StoredContent, Chunks, Vectors, OfKind
<1>2. points' = PointsAfter(w) /\ relations' = RelationsAfter(w) /\ documents' = DocumentsAfter(w)
  BY DEF Written
<1>3. /\ points' \in [Vectors -> StoredContent]
      /\ \A k \in Chunks : points'[k] # None => <<k, points'[k]>> \in S
  <2>1. CASE w.do = "upsert"
    <3>1. w.object \in Vectors /\ points' = [points EXCEPT ![w.object] = w.content]
      BY <1>2, <2>1 DEF PointsAfter, Projected
    <3>2. w.object \in Chunks => <<w.object, w.content>> \in S
      BY <2>1 DEF Projected
    <3> QED
      BY <1>1, <3>1, <3>2 DEF StoresWithin
  <2>2. CASE w.do = "remove"
    <3>1. points' = [points EXCEPT ![w.object] = None]
      BY <1>2, <2>2 DEF PointsAfter
    <3> QED
      BY <1>1, <3>1 DEF StoresWithin
  <2>3. CASE w.do \notin {"upsert", "remove"}
    BY <1>2, <2>3 DEF PointsAfter, StoresWithin
  <2> QED
    BY <2>1, <2>2, <2>3
<1>4. relations' \in [Links -> StoredContent]
  <2>1. CASE w.do = "relate"
    BY <1>1, <1>2, <2>1 DEF RelationsAfter, StoresWithin
  <2>2. CASE w.do = "unrelate"
    BY <1>1, <1>2, <2>2 DEF RelationsAfter, StoresWithin
  <2>3. CASE w.do \notin {"relate", "unrelate"}
    BY <1>2, <2>3 DEF RelationsAfter, StoresWithin
  <2> QED
    BY <2>1, <2>2, <2>3
<1>5. /\ documents' \in [Chunks -> StoredContent]
      /\ \A k \in Chunks : documents'[k] # None => <<k, documents'[k]>> \in S
  <2>1. CASE w.do = "document"
    <3>1. /\ w.object \in Chunks /\ <<w.object, w.content>> \in S
          /\ documents' = [documents EXCEPT ![w.object] = w.content]
      BY <1>2, <2>1 DEF DocumentsAfter, Projected
    <3> QED
      BY <1>1, <3>1 DEF StoresWithin
  <2>2. CASE w.do # "document"
    BY <1>2, <2>2 DEF DocumentsAfter, StoresWithin
  <2> QED
    BY <2>1, <2>2
<1> QED
  BY <1>3, <1>4, <1>5 DEF StoresWithin

\* A finite set has an order: SetToSeq names one.
LEMMA SetAsSeq ==
    ASSUME NEW X, IsFiniteSet(X), NEW T, X \subseteq T
    PROVE  SetToSeq(X) \in Seq(T)
<1>1. PICK n \in Nat : ExistsBijection(1..n, X)
  BY FS_NatBijection
<1>2. Cardinality(X) = n
  BY <1>1, FS_CountingElements, FS_CardinalityType
<1>3. PICK f : f \in Bijection(1..n, X)
  BY <1>1 DEF ExistsBijection
<1>4. f \in [1..Cardinality(X) -> X] /\ IsInjective(f)
  BY <1>2, <1>3 DEF Bijection, Injection, IsInjective
<1>5. SetToSeq(X) \in [1..Cardinality(X) -> X]
  BY <1>4 DEF SetToSeq
<1>6. SetToSeq(X) \in [1..n -> T]
  BY <1>2, <1>5
<1> QED
  BY <1>6, FunctionIsSeq

\* A sweep lists points of the removed object, each to be removed.
LEMMA SweptIsProjected ==
    ASSUME NEW S, NEW R, StoresWithin(S), NEW o \in Objects,
           Kind[o] = "resource" => o \in R
    PROVE  SetToSeq({StoreWrite("remove", p) : p \in Listed(o)}) \in Seq(Projected(S, R))
<1> DEFINE L == Listed(o)
           X == {StoreWrite("remove", p) : p \in L}
           f == [p \in L |-> StoreWrite("remove", p)]
<1>1. IsFiniteSet(X)
  <2>1. IsFiniteSet(L)
    <3>1. L \in SUBSET Objects
      BY DEF Listed, Vectors, OfKind
    <3> QED
      BY <3>1, IngestionAssumption, FS_Subset
  <2> HIDE DEF L
  <2>2. f \in Surjection(L, X)
    BY DEF Surjection
  <2> HIDE DEF f, X
  <2> QED
    BY <2>1, <2>2, FS_Surjection
<1>2. ASSUME NEW p \in L
      PROVE  StoreWrite("remove", p) \in Projected(S, R)
  <2> DEFINE w == StoreWrite("remove", p)
  <2>1. /\ p \in Objects /\ p \in Vectors /\ points[p] # None /\ points[p].source = o
        /\ Kind[p] = IF Kind[o] = "resource" THEN "resource_chunk"
                     ELSE "memory_entity_branch"
    BY DEF Listed, Vectors, OfKind
  <2>2. w \in AnyWrite /\ w.do = "remove" /\ w.object = p
    BY <2>1 DEF StoreWrite, AnyWrite, NoContent, Content
  <2>3. ASSUME p \in Chunks
        PROVE  SourceIn(S, R, p)
    <3>1. Kind[p] = "resource_chunk"
      BY <2>3 DEF Chunks, OfKind
    <3>2. o \in R
      BY <2>1, <3>1
    <3>3. points[p] \in Content /\ <<p, points[p]>> \in S
      BY <2>1, <2>3 DEF StoresWithin, StoredContent
    <3> QED
      BY <2>1, <3>2, <3>3 DEF SourceIn
  <2> QED
    BY <2>2, <2>3 DEF Projected
<1>3. X \subseteq Projected(S, R)
  BY <1>2
<1> HIDE DEF X
<1>4. SetToSeq(X) \in Seq(Projected(S, R))
  BY <1>1, <1>3, SetAsSeq
<1> QED
  BY <1>4 DEF X

\* A step of the worker.
LEMMA WorkerKeepsWithin ==
    ASSUME NEW S, NEW R, WorkerWithin(S, R), log \in Seq(CommitWithin(S, R)),
           watermark \in Nat, WorkerNext
    PROVE  WorkerWithin(S, R)'
<1> DEFINE T == Projected(S, R)
<1>0. /\ <<>> \in Seq(T) /\ Len(log) \in Nat
      /\ IdleProject \in ProjectCall(S, R)
      /\ \A c \in Projectors : project[c] \in ProjectCall(S, R)
      /\ project \in [Projectors -> ProjectCall(S, R)]
  BY EmptySeq, LenProperties DEF WorkerWithin, ProjectCall, IdleProject
<1> SUFFICES ASSUME NEW c \in Projectors,
                    StartProject(c) \/ ProjectNext(c) \/ FinishProject(c) \/ FailProject(c)
             PROVE  WorkerWithin(S, R)'
  BY DEF WorkerNext
<1>1. CASE StartProject(c)
  <2> DEFINE part == SubSeq(log, watermark + 1, Len(log))
             started == [step |-> "running", last |-> Len(log), todo |-> WritesOf(part)]
  <2>1. WritesOf(part) \in Seq(T)
    BY ProjectionIsWithin
  <2>2. project' = [project EXCEPT ![c] = started] /\ UNCHANGED stores
    BY <1>1 DEF StartProject, stores
  <2> HIDE DEF part
  <2>3. started \in ProjectCall(S, R)
    BY <1>0, <2>1 DEF ProjectCall
  <2> HIDE DEF started
  <2>4. project' \in [Projectors -> ProjectCall(S, R)]
    BY <1>0, <2>2, <2>3
  <2> QED
    BY <2>2, <2>4 DEF WorkerWithin, StoresWithin, stores
<1>2. CASE ProjectNext(c)
  <2> DEFINE w == Head(project[c].todo)
             swept == IF w.do = "sweep"
                      THEN SetToSeq({StoreWrite("remove", p) : p \in Listed(w.object)})
                      ELSE <<>>
             rest == swept \o Tail(project[c].todo)
  <2>1. /\ project[c].todo # <<>> /\ Written(w)
        /\ project' = [project EXCEPT ![c].todo = rest]
    BY <1>2 DEF ProjectNext
  <2>2. project[c].todo \in Seq(T)
    BY <1>0 DEF ProjectCall
  <2>3. w \in T /\ Tail(project[c].todo) \in Seq(T)
    BY <2>1, <2>2, HeadTailProperties
  <2>4. swept \in Seq(T)
    <3>1. CASE w.do = "sweep"
      <4>1. w.object \in Objects /\ (Kind[w.object] = "resource" => w.object \in R)
        BY <2>3, <3>1 DEF Projected, AnyWrite
      <4> HIDE DEF w
      <4>2. StoresWithin(S)
        BY DEF WorkerWithin
      <4> QED
        BY <3>1, <4>1, <4>2, SweptIsProjected
    <3>2. CASE w.do # "sweep"
      BY <1>0, <3>2
    <3> QED
      BY <3>1, <3>2
  <2>5. rest \in Seq(T)
    <3> HIDE DEF w, swept, T
    <3> QED
      BY <2>3, <2>4, ConcatProperties
  <2> HIDE DEF rest
  <2>6. project' \in [Projectors -> ProjectCall(S, R)]
    BY <1>0, <2>1, <2>5 DEF ProjectCall
  <2> HIDE DEF w
  <2>7. StoresWithin(S)'
    BY <2>1, <2>3, WrittenWithin DEF WorkerWithin
  <2> QED
    BY <2>6, <2>7 DEF WorkerWithin
<1>3. CASE FinishProject(c) \/ FailProject(c)
  <2>1. project' = [project EXCEPT ![c] = IdleProject] /\ UNCHANGED stores
    BY <1>3 DEF FinishProject, FailProject, stores
  <2>2. project' \in [Projectors -> ProjectCall(S, R)]
    BY <1>0, <2>1
  <2> QED
    BY <2>1, <2>2 DEF WorkerWithin, StoresWithin, stores
<1> QED
  BY <1>1, <1>2, <1>3

\* More may be written when the log has grown.
LEMMA WithinOfMore ==
    ASSUME NEW S, NEW R, NEW T, NEW Q, S \subseteq T, R \subseteq Q, WorkerWithin(S, R)
    PROVE  WorkerWithin(T, Q)
<1>1. Projected(S, R) \subseteq Projected(T, Q)
  BY DEF Projected, SourceIn
<1>2. Seq(Projected(S, R)) \subseteq Seq(Projected(T, Q))
  BY <1>1, SeqOfMore
<1>3. ProjectCall(S, R) \subseteq ProjectCall(T, Q)
  BY <1>2 DEF ProjectCall
<1> QED
  BY <1>3 DEF WorkerWithin, StoresWithin

-----------------------------------------------------------------------------
(* What every reachable state satisfies.                                   *)

Contents == Imported \cup Revised
AnyChunk == Chunks \X Content

Steps == {"idle", "put", "write", "view", "find", "plan", "head", "chunk",
          "points", "documents", "indexed"}

CallRecord ==
    [step: Steps, object: Resources \cup {None}, ops: Seq(MutationOperation), base: Nat,
     revision: 0..(MaxRevisions + 1), next: Nat]

WritesResource(op, o) ==
    /\ o \in Resources
    /\ \/ op = TombstoneOp(o)
       \/ \E v \in Contents : op \in {CreateOp(o, RevisionContent(v)),
                                      UpdateOp(o, RevisionContent(v))}

ChunkOp(l, n, i, text) == CreateOp(ChunkIds[n][i], ChunkContent(RevisionsOf(l)[n].object, text))

\* The creation of the chunks of a revision, as its content is cut.
IsCut(l, n, ops) ==
    \E texts \in Splits[RevisionsOf(l)[n].content] :
        ops = [i \in DOMAIN texts |-> ChunkOp(l, n, i, texts[i])]

\* What a call knows at a step, of a log l and the contents held.
CallFits(w, l, held) ==
    /\ w.base \in 0..Len(l)
    /\ w.step \in {"put", "write"} => \E op : w.ops = <<op>> /\ WritesResource(op, w.object)
    /\ w.step = "put" => w.ops[1].kind # "tombstone"
    /\ w.step = "write" /\ w.ops[1].kind # "tombstone" => w.ops[1].content.value \in held
    /\ w.step \in {"view", "find"} => w.object \in Resources
    /\ w.step \in {"plan", "head", "chunk", "points", "documents", "indexed"} =>
            /\ w.revision \in DOMAIN RevisionsOf(l)
            /\ RevisionsOf(l)[w.revision].object = w.object
    /\ w.step \in {"head", "chunk"} => w.next \in 1..Len(w.ops) /\ IsCut(l, w.revision, w.ops)
    /\ w.step \notin {"head", "chunk"} => w.next = 1

\* It indexes chunks of S.
IndexesWithin(S, w) ==
    w.step \in {"points", "documents", "indexed"} =>
        \A i \in DOMAIN w.ops :
            /\ w.ops[i].kind = "create"
            /\ <<w.ops[i].object, w.ops[i].content>> \in S

Numbered(l) == \A i \in DOMAIN l : l[i].id = i

LogTyped == log \in Seq(LogCommit) /\ Numbered(log)

\* CAS-first: the content of every revision is of the known ones and is held.
RevisionsHeld ==
    /\ Len(RevisionsOf(log)) <= MaxRevisions
    /\ \A n \in DOMAIN RevisionsOf(log) : /\ RevisionsOf(log)[n].object \in Resources
                                          /\ RevisionsOf(log)[n].content \in Contents
                                          /\ RevisionsOf(log)[n].content \in cas

IngestionInv ==
    /\ LogTyped
    /\ RevisionsHeld
    /\ WorkerWithin(AnyChunk, Resources)
    /\ watermark \in 0..Len(log)
    /\ \A c \in Projectors : project[c].last \in 0..Len(log)
    /\ cas \subseteq Contents
    /\ raced \subseteq Resources
    /\ call \in [Callers -> CallRecord]
    /\ \A c \in Callers : CallFits(call[c], log, cas) /\ IndexesWithin(AnyChunk, call[c])

-----------------------------------------------------------------------------
(* The log grows by one operation at a time.                               *)

\* The revisions of the module are those of the log here.
LEMMA RevisionsAreOfLog == Revisions = RevisionsOf(log)
BY DEF Revisions, RevisionsOf, RevisionSet, RevisionOf

RevisionsKept(l, m) ==
    /\ Len(l) \in Nat /\ Len(m) \in Nat /\ Len(l) <= Len(m)
    /\ \A n \in DOMAIN RevisionsOf(l) : /\ n \in DOMAIN RevisionsOf(m)
                                        /\ RevisionsOf(m)[n] = RevisionsOf(l)[n]

Revising(op) == op.kind \in {"create", "update"} /\ op.object \in Resources

LongerBy(l, m, op) ==
    /\ m \in Seq(LogCommit) /\ Numbered(m)
    /\ Len(l) \in Nat /\ Len(m) = Len(l) + 1 /\ DOMAIN m = 1..(Len(l) + 1)
    /\ DOMAIN l = 1..Len(l) /\ \A i \in 1..Len(l) : m[i] = l[i]
    /\ m[Len(l) + 1].ops = <<op>>

RevisedBy(r, s, op) ==
    /\ Len(r) \in Nat /\ DOMAIN r = 1..Len(r)
    /\ ~Revising(op) => s = r
    /\ Revising(op) => /\ Len(s) = Len(r) + 1 /\ DOMAIN s = 1..(Len(r) + 1)
                       /\ \A n \in 1..Len(r) : s[n] = r[n]
                       /\ s[Len(r) + 1] = [object |-> op.object, content |-> op.content.value]

\* A commit of one operation, which adds a revision when it writes a resource.
LEMMA LogGrows ==
    ASSUME NEW l \in Seq(LogCommit), Numbered(l), NEW op \in MutationOperation,
           NEW commit, commit = [id |-> Len(l) + 1, ops |-> <<op>>],
           NEW m, m = Append(l, commit)
    PROVE  LongerBy(l, m, op) /\ RevisedBy(RevisionsOf(l), RevisionsOf(m), op)
<1> DEFINE r == RevisionsOf(l)
           s == RevisionsOf(m)
<1>1. /\ Len(l) \in Nat /\ DOMAIN l = 1..Len(l)
      /\ commit \in LogCommit /\ commit.id = Len(l) + 1 /\ commit.ops = <<op>>
  BY LenProperties DEF LogCommit
<1>2. /\ IsRevision(commit) <=> Revising(op)
      /\ RevisionOf(commit) = [object |-> op.object, content |-> op.content.value]
  BY <1>1 DEF IsRevision, Revising, RevisionOf
<1>3. m = Append(l, commit)
  OBVIOUS
<1>4. /\ m \in Seq(LogCommit) /\ Len(m) = Len(l) + 1 /\ DOMAIN m = 1..(Len(l) + 1)
      /\ \A i \in 1..Len(l) : m[i] = l[i]
      /\ m[Len(l) + 1] = commit
  BY <1>1, <1>3, AppendProperties, LenProperties
<1>5. Numbered(m)
  BY <1>1, <1>4 DEF Numbered
<1> HIDE DEF r, s
<1>6. /\ Len(r) \in Nat /\ DOMAIN r = 1..Len(r)
      /\ ~IsRevision(commit) => s = r
      /\ IsRevision(commit) => /\ Len(s) = Len(r) + 1 /\ DOMAIN s = 1..(Len(r) + 1)
                               /\ \A n \in 1..Len(r) : s[n] = r[n]
                               /\ s[Len(r) + 1] = RevisionOf(commit)
  BY <1>1, <1>3, RevisionsGrow DEF r, s
<1> QED
  BY <1>1, <1>2, <1>4, <1>5, <1>6 DEF LongerBy, RevisedBy, r, s

\* What the history accepts of a resource is held by the content store.
LEMMA AcceptedIsHeld ==
    ASSUME LogTyped, RevisionsHeld, NEW op \in MutationOperation,
           Revising(op) => /\ op.content.value \in Contents /\ op.content.value \in cas
                           /\ Len(Revisions) < MaxRevisions,
           Accept(<<op>>), UNCHANGED cas
    PROVE  LogTyped' /\ RevisionsHeld' /\ RevisionsKept(log, log')
<1>1. PICK l : l = log
  OBVIOUS
<1>2. PICK m : m = log'
  OBVIOUS
<1>3. PICK r : r = RevisionsOf(l)
  OBVIOUS
<1>4. PICK s : s = RevisionsOf(m)
  OBVIOUS
<1>5. PICK commit : commit = [id |-> Len(l) + 1, ops |-> <<op>>]
  OBVIOUS
<1>6. l \in Seq(LogCommit) /\ Numbered(l) /\ m = Append(l, commit)
  BY <1>1, <1>2, <1>5 DEF LogTyped, Accept, Commit
<1>0. LongerBy(l, m, op) /\ RevisedBy(r, s, op)
  BY <1>3, <1>4, <1>5, <1>6, LogGrows
<1>7. /\ Len(r) <= MaxRevisions
      /\ \A n \in DOMAIN r : /\ r[n].object \in Resources
                             /\ r[n].content \in Contents /\ r[n].content \in cas
      /\ Revising(op) => Len(r) < MaxRevisions
  BY <1>1, <1>3, RevisionsAreOfLog DEF RevisionsHeld
<1>8. MaxRevisions \in Nat
  BY IngestionAssumption
<1>9. /\ Len(s) <= MaxRevisions
      /\ \A n \in DOMAIN s : /\ s[n].object \in Resources
                             /\ s[n].content \in Contents /\ s[n].content \in cas
      /\ \A n \in DOMAIN r : n \in DOMAIN s /\ s[n] = r[n]
  <2>1. CASE ~Revising(op)
    BY <1>0, <1>7, <2>1 DEF RevisedBy
  <2>2. CASE Revising(op)
    <3>1. op.object \in Resources
      BY <2>2 DEF Revising
    <3>2. \A n \in DOMAIN s : n = Len(r) + 1 \/ n \in 1..Len(r)
      BY <1>0, <2>2 DEF RevisedBy
    <3>3. Len(s) <= MaxRevisions /\ \A n \in 1..Len(r) : n \in 1..(Len(r) + 1)
      BY <1>0, <1>7, <1>8, <2>2 DEF RevisedBy
    <3> QED
      BY <1>0, <1>7, <2>2, <3>1, <3>2, <3>3 DEF RevisedBy
  <2> QED
    BY <2>1, <2>2
<1>10. Len(l) <= Len(m) /\ Len(m) \in Nat
  BY <1>0 DEF LongerBy
<1> QED
  BY <1>1, <1>2, <1>3, <1>4, <1>0, <1>9, <1>10 DEF LongerBy, LogTyped, RevisionsHeld, RevisionsKept

\* What a call knows stays true.
LEMMA CallStillFits ==
    ASSUME NEW l, NEW m, RevisionsKept(l, m), NEW held, NEW more, held \subseteq more,
           NEW w \in CallRecord, CallFits(w, l, held)
    PROVE  CallFits(w, m, more)
<1>1. w.base \in 0..Len(m)
  BY DEF RevisionsKept, CallFits
<1>2. ASSUME NEW n \in DOMAIN RevisionsOf(l)
      PROVE  /\ n \in DOMAIN RevisionsOf(m) /\ RevisionsOf(m)[n] = RevisionsOf(l)[n]
             /\ IsCut(l, n, w.ops) => IsCut(m, n, w.ops)
  BY DEF RevisionsKept, IsCut, ChunkOp
<1> QED
  BY <1>1, <1>2 DEF CallFits

\* A step of one call: the others know what they knew.
LEMMA CallMoves ==
    ASSUME IngestionInv, NEW c \in Callers, NEW w \in CallRecord,
           LogTyped', RevisionsHeld', RevisionsKept(log, log'),
           StoresWithin(AnyChunk)', UNCHANGED worker,
           cas \subseteq cas', cas' \subseteq Contents, raced' \subseteq Resources,
           call' = [call EXCEPT ![c] = w],
           CallFits(w, log', cas'), IndexesWithin(AnyChunk, w)
    PROVE  IngestionInv'
<1>1. WorkerWithin(AnyChunk, Resources)'
  BY DEF IngestionInv, WorkerWithin, worker
<1>2. /\ watermark' \in 0..Len(log')
      /\ \A d \in Projectors : project'[d].last \in 0..Len(log')
  BY DEF IngestionInv, worker, RevisionsKept
<1>3. call' \in [Callers -> CallRecord]
  BY DEF IngestionInv
<1>4. ASSUME NEW d \in Callers
      PROVE  CallFits(call'[d], log', cas') /\ IndexesWithin(AnyChunk, call'[d])
  <2>1. CASE d = c
    BY <2>1 DEF IngestionInv
  <2>2. CASE d # c
    <3>1. call'[d] = call[d] /\ call[d] \in CallRecord
      BY <2>2 DEF IngestionInv
    <3>2. CallFits(call[d], log, cas) /\ IndexesWithin(AnyChunk, call[d])
      BY DEF IngestionInv
    <3>3. CallFits(call[d], log', cas')
      BY <3>1, <3>2, CallStillFits
    <3> QED
      BY <3>1, <3>2, <3>3
  <2> QED
    BY <2>1, <2>2
<1> QED
  BY <1>1, <1>2, <1>3, <1>4 DEF IngestionInv

\* A step of one call that leaves the log.
LEMMA CallMovesOn ==
    ASSUME IngestionInv, NEW c \in Callers, NEW w \in CallRecord,
           StoresWithin(AnyChunk)', UNCHANGED <<log, worker, raced>>,
           cas \subseteq cas', cas' \subseteq Contents,
           call' = [call EXCEPT ![c] = w],
           CallFits(w, log, cas'), IndexesWithin(AnyChunk, w)
    PROVE  IngestionInv'
<1>1. LogTyped' /\ RevisionsHeld'
  BY DEF IngestionInv, LogTyped, RevisionsHeld
<1>2. RevisionsKept(log, log')
  <2>1. Len(log) \in Nat
    BY LenProperties DEF IngestionInv, LogTyped
  <2> QED
    BY <2>1 DEF RevisionsKept
<1>3. raced' \subseteq Resources /\ CallFits(w, log', cas') /\ UNCHANGED worker
  BY DEF IngestionInv
<1> QED
  BY <1>1, <1>2, <1>3, CallMoves

\* The same when nothing but the call changes.
LEMMA OnlyCallMoves ==
    ASSUME IngestionInv, NEW c \in Callers, NEW w \in CallRecord,
           UNCHANGED <<workerVars, cas, raced>>, Set(c, w),
           CallFits(w, log, cas), IndexesWithin(AnyChunk, w)
    PROVE  IngestionInv'
<1>1. StoresWithin(AnyChunk)' /\ UNCHANGED <<log, worker, raced, cas>>
  BY DEF IngestionInv, WorkerWithin, StoresWithin, workerVars, stores
<1>2. cas \subseteq cas' /\ cas' \subseteq Contents /\ CallFits(w, log, cas')
  BY <1>1 DEF IngestionInv
<1> QED
  BY <1>1, <1>2, CallMovesOn DEF Set

\* A slot without a call fits any log.
LEMMA IdleFits ==
    ASSUME NEW l, Len(l) \in Nat, NEW held
    PROVE  /\ IdleCall \in CallRecord /\ CallFits(IdleCall, l, held)
           /\ \A S : IndexesWithin(S, IdleCall)
<1>1. IdleCall.ops \in Seq(MutationOperation) /\ MaxRevisions \in Nat
  BY EmptySeq, IngestionAssumption DEF IdleCall
<1> QED
  BY <1>1 DEF IdleCall, CallRecord, Steps, CallFits, IndexesWithin

\* The operations that write a resource are typed.
LEMMA ResourceWriteTyped ==
    ASSUME NEW o, NEW op, WritesResource(op, o)
    PROVE  /\ op \in MutationOperation /\ <<op>> \in Seq(MutationOperation)
           /\ op.object = o /\ o \in Resources /\ op.kind \in {"create", "update", "tombstone"}
           /\ Revising(op) <=> op.kind # "tombstone"
           /\ op.kind # "tombstone" => op.content.value \in Contents
<1>1. /\ o \in Objects /\ Kind[o] = "resource" /\ o \in Resources
      /\ o \in OfKind({"memory_entity", "memory_entity_branch", "resource"})
      /\ o \in Objects \ OfKind({"resource_chunk"})
  BY DEF WritesResource, Resources, OfKind
<1>2. CASE op = TombstoneOp(o)
  BY <1>1, <1>2 DEF TombstoneOp, MutationOperation, Revising
<1>3. ASSUME NEW v \in Contents, op \in {CreateOp(o, RevisionContent(v)),
                                         UpdateOp(o, RevisionContent(v))}
      PROVE  /\ op \in MutationOperation
             /\ op.object = o /\ op.kind \in {"create", "update"}
             /\ op.content.value \in Contents
  <2>1. v \in Values
    BY IngestionAssumption DEF Contents
  <2>2. RevisionContent(v) \in Content /\ RevisionContent(v).value = v
    BY <2>1 DEF RevisionContent, NoContent, Content
  <2> HIDE DEF Contents
  <2>3. CASE op = CreateOp(o, RevisionContent(v))
    BY <1>1, <2>2, <2>3 DEF CreateOp, MutationOperation
  <2>4. CASE op = UpdateOp(o, RevisionContent(v))
    BY <1>1, <2>2, <2>4 DEF UpdateOp, MutationOperation
  <2> QED
    BY <1>3, <2>3, <2>4
<1>4. /\ op \in MutationOperation /\ op.object = o
      /\ op.kind \in {"create", "update", "tombstone"}
      /\ Revising(op) <=> op.kind # "tombstone"
      /\ op.kind # "tombstone" => op.content.value \in Contents
  <2>1. CASE op = TombstoneOp(o)
    BY <1>2, <2>1 DEF TombstoneOp
  <2>2. CASE op # TombstoneOp(o)
    <3>1. PICK v \in Contents : op \in {CreateOp(o, RevisionContent(v)),
                                        UpdateOp(o, RevisionContent(v))}
      BY <2>2 DEF WritesResource
    <3>2. /\ op \in MutationOperation
          /\ op.object = o /\ op.kind \in {"create", "update"}
          /\ op.content.value \in Contents
      BY <1>3, <3>1
    <3> QED
      BY <1>1, <3>2 DEF Revising
  <2> QED
    BY <2>1, <2>2
<1> QED
  BY <1>1, <1>4

WriteCall(step, o, op, base) ==
    [step |-> step, object |-> o, ops |-> <<op>>, base |-> base, revision |-> 0, next |-> 1]

\* A call that writes a resource, field by field.
LEMMA CallOfFields ==
    ASSUME NEW step, NEW o, NEW op
    PROVE  CallOf(step, o, op) = WriteCall(step, o, op, 0)
<1> DEFINE s == <<op>>
           e == <<>>
<1>1. CallOf(step, o, op) = [IdleCall EXCEPT !.step = step, !.object = o, !.ops = s]
  BY DEF CallOf
<1>2. IdleCall = [step |-> "idle", object |-> None, ops |-> e, base |-> 0,
                  revision |-> 0, next |-> 1]
  BY DEF IdleCall
<1>3. WriteCall(step, o, op, 0) = [step |-> step, object |-> o, ops |-> s, base |-> 0,
                                   revision |-> 0, next |-> 1]
  BY DEF WriteCall
<1> HIDE DEF s, e
<1> QED
  BY <1>1, <1>2, <1>3

\* A call that starts to write a resource.
LEMMA WriteStarts ==
    ASSUME IngestionInv, NEW c \in Callers, NEW o, NEW op, WritesResource(op, o),
           NEW step, \/ step = "put" /\ op.kind # "tombstone"
                     \/ step = "write" /\ op.kind = "tombstone",
           NEW base \in 0..Len(log),
           Set(c, WriteCall(step, o, op, base)),
           UNCHANGED <<workerVars, cas, raced>>
    PROVE  IngestionInv'
<1> DEFINE w == WriteCall(step, o, op, base)
<1>1. Len(log) \in Nat /\ MaxRevisions \in Nat
  BY LenProperties, IngestionAssumption DEF IngestionInv, LogTyped
<1> DEFINE ops == <<op>>
<1>2. w = [step |-> step, object |-> o, ops |-> ops, base |-> base,
           revision |-> 0, next |-> 1]
  BY DEF WriteCall
<1>3. ops \in Seq(MutationOperation) /\ o \in Resources /\ ops = <<op>> /\ ops[1] = op
  BY ResourceWriteTyped
<1> HIDE DEF w, ops
<1>4. w \in CallRecord
  BY <1>1, <1>2, <1>3 DEF CallRecord, Steps
<1>5. CallFits(w, log, cas) /\ IndexesWithin(AnyChunk, w)
  BY <1>2, <1>3 DEF CallFits, IndexesWithin
<1> QED
  BY <1>4, <1>5, OnlyCallMoves DEF w

\* An import, a revision or a removal begins.
LEMMA ImportPreserves ==
    ASSUME IngestionInv, NEW c \in Callers, Import(c) \/ Revise(c) \/ TombstoneResource(c)
    PROVE  IngestionInv'
<1>1. 0 \in 0..Len(log) /\ Len(log) \in 0..Len(log)
  BY LenProperties DEF IngestionInv, LogTyped
<1>2. CASE Import(c)
  <2>1. PICK o \in Resources, v \in Imported : Set(c, CallOf("put", o, CreateOp(o, RevisionContent(v))))
    BY <1>2 DEF Import
  <2> DEFINE op == CreateOp(o, RevisionContent(v))
  <2>2. WritesResource(op, o) /\ op.kind # "tombstone"
    BY DEF WritesResource, Contents, CreateOp
  <2>3. Set(c, CallOf("put", o, op))
    BY <2>1
  <2> HIDE DEF op
  <2>4. Set(c, WriteCall("put", o, op, 0))
    BY <2>3, CallOfFields
  <2> QED
    BY <1>1, <1>2, <2>2, <2>4, WriteStarts DEF Import
<1>3. CASE Revise(c)
  <2>1. PICK o \in Resources, v \in Revised : Set(c, CallOf("put", o, UpdateOp(o, RevisionContent(v))))
    BY <1>3 DEF Revise
  <2> DEFINE op == UpdateOp(o, RevisionContent(v))
  <2>2. WritesResource(op, o) /\ op.kind # "tombstone"
    BY DEF WritesResource, Contents, UpdateOp
  <2>3. Set(c, CallOf("put", o, op))
    BY <2>1
  <2> HIDE DEF op
  <2>4. Set(c, WriteCall("put", o, op, 0))
    BY <2>3, CallOfFields
  <2> QED
    BY <1>1, <1>3, <2>2, <2>4, WriteStarts DEF Revise
<1>4. CASE TombstoneResource(c)
  <2>1. PICK o \in Resources : Set(c, [CallOf("write", o, TombstoneOp(o)) EXCEPT !.base = Len(log)])
    BY <1>4 DEF TombstoneResource
  <2> DEFINE op == TombstoneOp(o)
  <2>2. WritesResource(op, o) /\ op.kind = "tombstone"
    BY DEF WritesResource, TombstoneOp
  <2> DEFINE s == <<op>>
  <2> HIDE DEF op, s
  <2>4. CallOf("write", o, op) = [step |-> "write", object |-> o, ops |-> s, base |-> 0,
                                  revision |-> 0, next |-> 1]
    BY CallOfFields DEF WriteCall, s
  <2>5. [CallOf("write", o, op) EXCEPT !.base = Len(log)]
          = [step |-> "write", object |-> o, ops |-> s, base |-> Len(log),
             revision |-> 0, next |-> 1]
    BY <2>4
  <2>3. Set(c, WriteCall("write", o, op, Len(log)))
    BY <2>1, <2>5 DEF op, s, WriteCall
  <2> QED
    BY <1>1, <1>4, <2>2, <2>3, WriteStarts DEF TombstoneResource
<1> QED
  BY <1>2, <1>3, <1>4

NextStep(w, step, base) == [w EXCEPT !.step = step, !.base = base]

\* Going to the next step changes the step and the base only.
LEMMA NextStepTyped ==
    ASSUME NEW w \in CallRecord, NEW s \in Steps, NEW b \in Nat, NEW u, u = NextStep(w, s, b)
    PROVE  /\ u.step = s /\ u.base = b /\ u.object = w.object /\ u.ops = w.ops
           /\ u.revision = w.revision /\ u.next = w.next /\ u \in CallRecord
BY DEF CallRecord, NextStep

\* The content store has the content before the history names it.
LEMMA PutContentPreserves ==
    ASSUME IngestionInv, NEW c \in Callers, PutContent(c)
    PROVE  IngestionInv'
<1> DEFINE w == call[c]
           base == IF w.ops[1].kind = "create" THEN 0 ELSE Len(log)
           u == [w EXCEPT !.step = "write", !.base = base]
<1>1. w \in CallRecord /\ CallFits(w, log, cas) /\ w.step = "put"
  BY DEF IngestionInv, PutContent
<1>2. PICK op : w.ops = <<op>> /\ WritesResource(op, w.object)
  BY <1>1 DEF CallFits
<1>3. op.kind # "tombstone" /\ w.ops[1] = op
  BY <1>1, <1>2 DEF CallFits
<1>4. op.content.value \in Contents
  BY <1>2, <1>3, ResourceWriteTyped
<1>5. cas' = cas \cup {op.content.value} /\ call' = [call EXCEPT ![c] = u]
  BY <1>3 DEF PutContent, Kept, Set
<1>6. Len(log) \in Nat
  BY LenProperties DEF IngestionInv, LogTyped
<1>7. base \in 0..Len(log)
  BY <1>6
<1> HIDE DEF base, w
<1>8. PICK v : v = u /\ v = NextStep(w, "write", base)
  BY DEF NextStep
<1>12. "write" \in Steps /\ base \in Nat
  BY <1>6, <1>7 DEF Steps
<1>13. /\ v.step = "write" /\ v.base = base /\ v.object = w.object /\ v.ops = w.ops
       /\ v.revision = w.revision /\ v.next = w.next /\ v \in CallRecord
  BY <1>1, <1>8, <1>12, NextStepTyped
<1> HIDE DEF u
<1>9. CallFits(v, log, cas') /\ IndexesWithin(AnyChunk, v)
  BY <1>1, <1>2, <1>3, <1>5, <1>7, <1>13 DEF CallFits, IndexesWithin
<1>10. StoresWithin(AnyChunk)' /\ UNCHANGED <<log, worker, raced>>
  BY DEF PutContent, IngestionInv, WorkerWithin, StoresWithin, workerVars, stores
<1>11. cas \subseteq cas' /\ cas' \subseteq Contents
  BY <1>4, <1>5 DEF IngestionInv
<1> QED
  BY <1>5, <1>8, <1>9, <1>10, <1>11, <1>13, CallMovesOn

ViewCall(o, revision) ==
    [IdleCall EXCEPT !.step = "view", !.object = o, !.revision = revision]

\* An ingestion that begins fits any log.
LEMMA ViewCallFits ==
    ASSUME NEW o \in Resources, NEW n \in 0..(MaxRevisions + 1),
           NEW l, Len(l) \in Nat, NEW held, NEW w, w = ViewCall(o, n)
    PROVE  w \in CallRecord /\ CallFits(w, l, held) /\ \A S : IndexesWithin(S, w)
<1>1. IdleCall \in CallRecord /\ CallFits(IdleCall, l, held)
  BY IdleFits
<1>2. IdleCall.step = "idle" /\ IdleCall.next = 1
  BY DEF IdleCall
<1>3. /\ w.step = "view" /\ w.object = o /\ w.revision = n /\ w.next = 1
      /\ w.base = IdleCall.base /\ w \in CallRecord
  BY <1>1, <1>2 DEF ViewCall, CallRecord, Steps
<1> QED
  BY <1>1, <1>3 DEF CallFits, IndexesWithin

\* The revisions are counted and bounded.
LEMMA LengthsTyped ==
    ASSUME IngestionInv
    PROVE  /\ Len(log) \in Nat /\ MaxRevisions \in Nat
           /\ Len(Revisions) \in 0..MaxRevisions
           /\ DOMAIN Revisions = 1..Len(Revisions)
<1>1. Len(log) \in Nat /\ MaxRevisions \in Nat /\ log \in Seq(LogCommit)
  BY LenProperties, IngestionAssumption DEF IngestionInv, LogTyped
<1>2. PICK commit : commit \in LogCommit
  <2>1. [id |-> 0, ops |-> <<>>] \in LogCommit
    BY EmptySeq DEF LogCommit
  <2> QED
    BY <2>1
<1>3. Len(RevisionsOf(log)) \in Nat /\ DOMAIN RevisionsOf(log) = 1..Len(RevisionsOf(log))
  BY <1>1, <1>2, RevisionsGrow
<1>4. Len(RevisionsOf(log)) <= MaxRevisions
  BY DEF IngestionInv, RevisionsHeld
<1> QED
  BY <1>1, <1>3, <1>4, RevisionsAreOfLog

\* An ingestion begins, or a call ends with an answer or a throw.
LEMMA StartIngestPreserves ==
    ASSUME IngestionInv, NEW c \in Callers, StartIngest(c) \/ EndCall(c)
    PROVE  IngestionInv'
<1>1. CASE StartIngest(c)
  <2>1. PICK o \in Resources, n \in DOMAIN Revisions : Set(c, ViewCall(o, n))
    BY <1>1 DEF StartIngest, ViewCall
  <2>2. n \in 0..(MaxRevisions + 1) /\ Len(log) \in Nat
    BY LengthsTyped
  <2>3. PICK w : w = ViewCall(o, n)
    OBVIOUS
  <2>4. w \in CallRecord /\ CallFits(w, log, cas) /\ IndexesWithin(AnyChunk, w)
    BY <2>2, <2>3, ViewCallFits
  <2> QED
    BY <1>1, <2>1, <2>3, <2>4, OnlyCallMoves DEF StartIngest
<1>2. CASE EndCall(c)
  <2>1. Len(log) \in Nat /\ Set(c, IdleCall)
    BY <1>2, LengthsTyped DEF EndCall, Return
  <2>2. IdleCall \in CallRecord /\ CallFits(IdleCall, log, cas) /\ IndexesWithin(AnyChunk, IdleCall)
    BY <2>1, IdleFits
  <2> QED
    BY <1>2, <2>1, <2>2, OnlyCallMoves DEF EndCall
<1> QED
  BY <1>1, <1>2

\* A call goes on to a step, with or without a new base.
LEMMA CallGoesOn ==
    ASSUME IngestionInv, NEW c \in Callers, NEW step \in Steps,
           NEW v, \/ v = NextStep(call[c], step, Len(log))
                  \/ v = NextStep(call[c], step, call[c].base)
                  \/ Goes(c, step) /\ v = NextStep(call[c], step, call[c].base)
    PROVE  /\ v.step = step /\ v.base \in 0..Len(log)
           /\ v.object = call[c].object /\ v.ops = call[c].ops
           /\ v.revision = call[c].revision /\ v.next = call[c].next /\ v \in CallRecord
           /\ call[c] \in CallRecord /\ CallFits(call[c], log, cas)
           /\ IndexesWithin(AnyChunk, call[c])
           /\ Goes(c, step) /\ v = NextStep(call[c], step, call[c].base) => Set(c, v)
<1>1. PICK w : w = call[c]
  OBVIOUS
<1>2. w \in CallRecord /\ CallFits(w, log, cas) /\ IndexesWithin(AnyChunk, w) /\ Len(log) \in Nat
  BY <1>1, LengthsTyped DEF IngestionInv
<1>3. w.base \in 0..Len(log) /\ w.base \in Nat /\ Len(log) \in 0..Len(log)
  BY <1>2 DEF CallFits
<1>4. v = NextStep(w, step, Len(log)) \/ v = NextStep(w, step, w.base)
  BY <1>1
<1>5. /\ v.step = step /\ v.base \in 0..Len(log) /\ v.object = w.object /\ v.ops = w.ops
      /\ v.revision = w.revision /\ v.next = w.next /\ v \in CallRecord
  BY <1>2, <1>3, <1>4, NextStepTyped
<1>6. ASSUME Goes(c, step), v = NextStep(w, step, w.base)
      PROVE  Set(c, v)
  <2>1. v = [w EXCEPT !.step = step]
    BY <1>2, <1>6 DEF NextStep, CallRecord
  <2>2. call' = [call EXCEPT ![c].step = step]
    BY <1>6 DEF Goes
  <2> QED
    BY <1>1, <2>1, <2>2 DEF Set
<1> QED
  BY <1>1, <1>2, <1>5, <1>6

\* An ingestion reads the view, or a chunk write reads the head.
LEMMA ViewResourcePreserves ==
    ASSUME IngestionInv, NEW c \in Callers, ViewResource(c) \/ ChunkHead(c)
    PROVE  IngestionInv'
<1>1. CASE ViewResource(c)
  <2>1. PICK v : v = NextStep(call[c], "find", call[c].base)
    OBVIOUS
  <2>2. Goes(c, "find") /\ call[c].step = "view" /\ "find" \in Steps
    BY <1>1 DEF ViewResource, Steps
  <2>3. /\ v.step = "find" /\ v.base \in 0..Len(log) /\ v.object = call[c].object
        /\ v.next = call[c].next /\ v \in CallRecord
        /\ CallFits(call[c], log, cas) /\ Set(c, v)
    BY <2>1, <2>2, CallGoesOn
  <2>4. CallFits(v, log, cas) /\ IndexesWithin(AnyChunk, v)
    BY <2>2, <2>3 DEF CallFits, IndexesWithin
  <2> QED
    BY <1>1, <2>3, <2>4, OnlyCallMoves DEF ViewResource
<1>2. CASE ChunkHead(c)
  <2>1. PICK v : v = NextStep(call[c], "chunk", Len(log))
    OBVIOUS
  <2>2. Set(c, v) /\ call[c].step = "head" /\ "chunk" \in Steps
    BY <1>2, <2>1 DEF ChunkHead, NextStep, Steps
  <2>3. /\ v.step = "chunk" /\ v.base \in 0..Len(log) /\ v.object = call[c].object
        /\ v.ops = call[c].ops /\ v.revision = call[c].revision
        /\ v.next = call[c].next /\ v \in CallRecord
        /\ CallFits(call[c], log, cas)
    BY <2>1, <2>2, CallGoesOn
  <2>4. CallFits(v, log, cas) /\ IndexesWithin(AnyChunk, v)
    BY <2>2, <2>3 DEF CallFits, IndexesWithin
  <2> QED
    BY <1>2, <2>2, <2>3, <2>4, OnlyCallMoves DEF ChunkHead
<1> QED
  BY <1>1, <1>2

\* An ingestion looks up the revision it is for.
LEMMA FindRevisionPreserves ==
    ASSUME IngestionInv, NEW c \in Callers, FindRevision(c)
    PROVE  IngestionInv'
<1>1. PICK n \in FoundRevision(call[c].object, call[c].revision) :
        Set(c, [call[c] EXCEPT !.step = "plan", !.revision = n])
  BY DEF FindRevision
<1>2. n \in DOMAIN Revisions /\ Revisions[n].object = call[c].object
  BY DEF FoundRevision
<1>3. PICK w : w = call[c]
  OBVIOUS
<1>4. PICK v : v = [w EXCEPT !.step = "plan", !.revision = n]
  OBVIOUS
<1>5. w \in CallRecord /\ CallFits(w, log, cas) /\ w.step = "find"
  BY <1>3 DEF IngestionInv, FindRevision
<1>6. n \in 0..(MaxRevisions + 1)
  BY <1>2, LengthsTyped
<1>7. /\ v.step = "plan" /\ v.revision = n /\ v.object = w.object /\ v.base = w.base
      /\ v.next = w.next /\ v \in CallRecord
  BY <1>4, <1>5, <1>6 DEF CallRecord, Steps
<1>8. n \in DOMAIN RevisionsOf(log) /\ RevisionsOf(log)[n].object = w.object
  BY <1>2, <1>3, RevisionsAreOfLog
<1>9. CallFits(v, log, cas) /\ IndexesWithin(AnyChunk, v)
  BY <1>5, <1>7, <1>8 DEF CallFits, IndexesWithin
<1> QED
  BY <1>1, <1>3, <1>4, <1>7, <1>9, OnlyCallMoves DEF FindRevision

\* What indexing leaves in a store.
LEMMA IndexedWithin ==
    ASSUME NEW S, S \subseteq AnyChunk, NEW store, NEW ops, NEW o,
           store[o] \in StoredContent,
           o \in Chunks /\ store[o] # None => <<o, store[o]>> \in S,
           \A i \in DOMAIN ops : <<ops[i].object, ops[i].content>> \in S,
           NEW x, x = IndexedBy(store, ops, o)
    PROVE  x \in StoredContent /\ (o \in Chunks /\ x # None => <<o, x>> \in S)
<1>1. CASE \E i \in DOMAIN ops : ops[i].object = o
  <2> DEFINE op == CHOOSE op \in Range(ops) : op.object = o
  <2>1. op \in Range(ops) /\ op.object = o
    BY <1>1 DEF Range
  <2>2. PICK i \in DOMAIN ops : op = ops[i]
    BY <2>1 DEF Range
  <2>3. x = op.content
    BY <1>1 DEF IndexedBy
  <2> HIDE DEF op
  <2>4. <<o, x>> \in S
    BY <2>1, <2>2, <2>3
  <2> QED
    BY <2>4 DEF AnyChunk, StoredContent
<1>2. CASE ~ \E i \in DOMAIN ops : ops[i].object = o
  BY <1>2 DEF IndexedBy
<1> QED
  BY <1>1, <1>2

\* A call that indexes chunks of a set leaves the stores within that set.
LEMMA IndexingWithin ==
    ASSUME NEW S, S \subseteq AnyChunk, StoresWithin(S), NEW c \in Callers,
           IndexesWithin(S, call[c]), IndexPoints(c) \/ IndexDocuments(c)
    PROVE  StoresWithin(S)'
<1> DEFINE ops == call[c].ops
<1>1. \A i \in DOMAIN ops : <<ops[i].object, ops[i].content>> \in S
  BY DEF IndexesWithin, IndexPoints, IndexDocuments
<1> HIDE DEF ops
<1>2. Chunks \subseteq Vectors /\ None \in StoredContent
  BY DEF Chunks, Vectors, OfKind, StoredContent
<1>3. CASE IndexPoints(c)
  <2>1. /\ points' = [o \in Vectors |-> IndexedBy(points, ops, o)]
        /\ UNCHANGED <<relations, documents>>
    BY <1>3 DEF IndexPoints, ops
  <2>2. ASSUME NEW o \in Vectors
        PROVE  /\ points'[o] \in StoredContent
               /\ o \in Chunks /\ points'[o] # None => <<o, points'[o]>> \in S
    <3>1. PICK x : x = IndexedBy(points, ops, o)
      OBVIOUS
    <3>2. points[o] \in StoredContent /\ (o \in Chunks /\ points[o] # None => <<o, points[o]>> \in S)
      BY DEF StoresWithin
    <3>3. x \in StoredContent /\ (o \in Chunks /\ x # None => <<o, x>> \in S)
      BY <1>1, <3>1, <3>2, IndexedWithin
    <3> QED
      BY <2>1, <3>1, <3>3
  <2>3. points' \in [Vectors -> StoredContent]
    BY <2>1, <2>2
  <2> QED
    BY <1>2, <2>1, <2>2, <2>3 DEF StoresWithin
<1>4. CASE IndexDocuments(c)
  <2> DEFINE n == call[c].revision
             others == [o \in Chunks |->
                            IF o \in Range(ChunkIds[n]) THEN None ELSE documents[o]]
  <2>1. /\ documents' = [o \in Chunks |-> IndexedBy(others, ops, o)]
        /\ UNCHANGED <<points, relations>>
    BY <1>4 DEF IndexDocuments, Replaced, ops
  <2>2. ASSUME NEW o \in Chunks
        PROVE  documents'[o] \in StoredContent /\ (documents'[o] # None => <<o, documents'[o]>> \in S)
    <3>1. PICK x : x = IndexedBy(others, ops, o)
      OBVIOUS
    <3>2. others[o] \in StoredContent /\ (o \in Chunks /\ others[o] # None => <<o, others[o]>> \in S)
      BY <1>2 DEF StoresWithin
    <3> HIDE DEF others
    <3>3. x \in StoredContent /\ (o \in Chunks /\ x # None => <<o, x>> \in S)
      BY <1>1, <3>1, <3>2, IndexedWithin
    <3> QED
      BY <2>1, <3>1, <3>3
  <2>3. documents' \in [Chunks -> StoredContent]
    BY <2>1, <2>2
  <2> QED
    BY <2>1, <2>2, <2>3 DEF StoresWithin
<1> QED
  BY <1>3, <1>4

\* The points or documents of a revision are stored.
LEMMA IndexPreserves ==
    ASSUME IngestionInv, NEW c \in Callers, IndexPoints(c) \/ IndexDocuments(c)
    PROVE  IngestionInv'
<1>1. PICK step : /\ step \in {"documents", "indexed"} /\ Goes(c, step)
                  /\ call[c].step \in {"points", "documents"}
  BY DEF IndexPoints, IndexDocuments
<1>2. PICK v : v = NextStep(call[c], step, call[c].base)
  OBVIOUS
<1>3. step \in Steps
  BY <1>1 DEF Steps
<1>4. /\ v.step = step /\ v.base \in 0..Len(log)
      /\ v.object = call[c].object /\ v.ops = call[c].ops
      /\ v.revision = call[c].revision /\ v.next = call[c].next /\ v \in CallRecord
      /\ CallFits(call[c], log, cas) /\ IndexesWithin(AnyChunk, call[c]) /\ Set(c, v)
  BY <1>1, <1>2, <1>3, CallGoesOn
<1>5. CallFits(v, log, cas) /\ IndexesWithin(AnyChunk, v)
  BY <1>1, <1>4 DEF CallFits, IndexesWithin
<1>6. AnyChunk \subseteq AnyChunk /\ StoresWithin(AnyChunk)
  BY DEF IngestionInv, WorkerWithin
<1>7. StoresWithin(AnyChunk)'
  BY <1>4, <1>6, IndexingWithin
<1>8. UNCHANGED <<log, worker, raced, cas>>
  BY DEF IndexPoints, IndexDocuments
<1>9. cas \subseteq cas' /\ cas' \subseteq Contents /\ CallFits(v, log, cas')
  BY <1>5, <1>8 DEF IngestionInv
<1> QED
  BY <1>4, <1>5, <1>7, <1>8, <1>9, CallMovesOn DEF Set

\* The view is one of the memory model.
LEMMA ViewTyped ==
    ASSUME LogTyped
    PROVE  View \in MemoryView
<1>1. PICK commit : commit \in LogCommit
  <2>1. [id |-> 0, ops |-> <<>>] \in LogCommit
    BY EmptySeq DEF LogCommit
  <2> QED
    BY <2>1
<1> QED
  BY <1>1, ViewSteps DEF View, LogTyped

\* The chunks of a revision that the view shows.
LEMMA ExistingTyped ==
    ASSUME NEW n \in 1..MaxRevisions, NEW e, e = ExistingChunks(n)
    PROVE  /\ Len(ChunkIds[n]) \in Nat /\ DOMAIN ChunkIds[n] = 1..Len(ChunkIds[n])
           /\ \A i \in DOMAIN ChunkIds[n] : ChunkIds[n][i] \in Chunks
           /\ \E m \in Nat : DOMAIN e = 1..m
           /\ \A i \in DOMAIN e : \E j \in DOMAIN ChunkIds[n] :
                    e[i] = ChunkIds[n][j] /\ Active(View, e[i])
<1> DEFINE ids == ChunkIds[n]
           L == Len(ids)
           I == {i \in DOMAIN ids : Active(View, ids[i])}
<1>1. ids \in Seq(Chunks)
  BY IngestionAssumption
<1>2. L \in Nat /\ DOMAIN ids = 1..L /\ \A i \in DOMAIN ids : ids[i] \in Chunks
  BY <1>1, LenProperties, ElementOfSeq
<1>3. I \in SUBSET (1..L) /\ e = At(ids, I)
  BY <1>2 DEF ExistingChunks
<1>4. \A i \in I : i \in DOMAIN ids /\ Active(View, ids[i])
  OBVIOUS
<1> HIDE DEF L, I, ids
<1>5. Cardinality(I) \in Nat /\ DOMAIN e = 1..Cardinality(I)
  BY <1>2, <1>3, AtLength
<1>6. \A i \in 1..Cardinality(I) : \E j \in I : e[i] = ids[j]
  <2>1. L \in Nat /\ I \in SUBSET (1..L)
    BY <1>2, <1>3
  <2>2. TakesFrom(At(ids, I), ids, I)
    BY <2>1, AtElements
  <2> QED
    BY <1>3, <2>2 DEF TakesFrom
<1> QED
  BY <1>2, <1>4, <1>5, <1>6 DEF L, ids

Creates(S, ops) ==
    \A i \in DOMAIN ops : /\ ops[i].kind = "create"
                          /\ <<ops[i].object, ops[i].content>> \in S

\* Chunks to create, each with a content, are operations.
LEMMA CreatesTyped ==
    ASSUME NEW m \in Nat, NEW ops, DOMAIN ops = 1..m, ops = [i \in 1..m |-> ops[i]],
           \A i \in 1..m : \E k \in Chunks, content \in Content : ops[i] = CreateOp(k, content)
    PROVE  ops \in Seq(MutationOperation) /\ Len(ops) = m /\ Creates(AnyChunk, ops)
<1>1. ASSUME NEW i \in 1..m
      PROVE  /\ ops[i] \in MutationOperation /\ ops[i].kind = "create"
             /\ <<ops[i].object, ops[i].content>> \in AnyChunk
  <2>1. PICK k \in Chunks, content \in Content : ops[i] = CreateOp(k, content)
    OBVIOUS
  <2>2. k \in Objects
    BY DEF Chunks, OfKind
  <2> QED
    BY <2>1, <2>2 DEF CreateOp, MutationOperation, AnyChunk
<1>2. ops \in [1..m -> MutationOperation]
  BY <1>1
<1>3. ops \in Seq(MutationOperation) /\ Len(ops) = m
  BY <1>2, FunctionIsSeq
<1> QED
  BY <1>1, <1>3 DEF Creates

\* The chunks of a revision, as one of its splits cuts it.
LEMMA CutTyped ==
    ASSUME IngestionInv, NEW n \in DOMAIN RevisionsOf(log),
           NEW texts \in Splits[RevisionsOf(log)[n].content],
           NEW ops, ops = [i \in DOMAIN texts |-> ChunkOp(log, n, i, texts[i])]
    PROVE  /\ ops \in Seq(MutationOperation) /\ Creates(AnyChunk, ops)
           /\ Len(ops) = Len(texts) /\ Len(texts) \in Nat /\ DOMAIN texts = 1..Len(texts)
           /\ n \in 1..MaxRevisions
           /\ \A i \in DOMAIN texts : i \in DOMAIN ChunkIds[n] /\ ChunkIds[n][i] \in Chunks
<1>1. n \in 1..MaxRevisions
  BY LengthsTyped, RevisionsAreOfLog
<1>2. RevisionsOf(log)[n].object \in Resources /\ RevisionsOf(log)[n].content \in Contents
  BY DEF IngestionInv, RevisionsHeld
<1>3. texts \in Seq(Values) /\ Len(texts) <= Len(ChunkIds[n]) /\ ChunkIds[n] \in Seq(Chunks)
  BY <1>1, <1>2, IngestionAssumption DEF Contents
<1>4. /\ Len(texts) \in Nat /\ DOMAIN texts = 1..Len(texts)
      /\ \A i \in DOMAIN texts : texts[i] \in Values
      /\ Len(ChunkIds[n]) \in Nat /\ DOMAIN ChunkIds[n] = 1..Len(ChunkIds[n])
      /\ \A i \in DOMAIN ChunkIds[n] : ChunkIds[n][i] \in Chunks
  BY <1>3, LenProperties, ElementOfSeq
<1>5. \A i \in DOMAIN texts : i \in DOMAIN ChunkIds[n] /\ ChunkIds[n][i] \in Chunks
  BY <1>3, <1>4
<1>6. ASSUME NEW i \in DOMAIN texts
      PROVE  \E k \in Chunks, content \in Content : ops[i] = CreateOp(k, content)
  <2> DEFINE content == ChunkContent(RevisionsOf(log)[n].object, texts[i])
  <2>1. content \in Content
    BY <1>2, <1>4 DEF ChunkContent, Content, Resources, OfKind
  <2>2. ops[i] = CreateOp(ChunkIds[n][i], content)
    BY DEF ChunkOp
  <2> HIDE DEF content
  <2> QED
    BY <1>5, <2>1, <2>2
<1>7. DOMAIN ops = 1..Len(texts) /\ ops = [i \in 1..Len(texts) |-> ops[i]]
  BY <1>4
<1>8. ops \in Seq(MutationOperation) /\ Len(ops) = Len(texts) /\ Creates(AnyChunk, ops)
  BY <1>4, <1>6, <1>7, CreatesTyped
<1> QED
  BY <1>1, <1>4, <1>5, <1>8

PlanStep(w, step, ops) == [w EXCEPT !.step = step, !.ops = ops]

\* What PlanChunks leaves: chunks to write, or none and the points to store.
LEMMA PlanMoves ==
    ASSUME IngestionInv, NEW c \in Callers, call[c].step = "plan",
           NEW ops \in Seq(MutationOperation), NEW step,
           \/ step = "points" /\ Creates(AnyChunk, ops)
           \/ step = "head" /\ 1 \in 1..Len(ops) /\ IsCut(log, call[c].revision, ops),
           Set(c, PlanStep(call[c], step, ops)), UNCHANGED <<workerVars, cas, raced>>
    PROVE  IngestionInv'
<1>1. PICK w : w = call[c]
  OBVIOUS
<1>2. w \in CallRecord /\ CallFits(w, log, cas) /\ w.step = "plan"
  BY <1>1 DEF IngestionInv
<1>3. PICK v : v = PlanStep(w, step, ops)
  OBVIOUS
<1>4. step \in Steps
  BY DEF Steps
<1>5. /\ v.step = step /\ v.ops = ops /\ v.base = w.base /\ v.object = w.object
      /\ v.revision = w.revision /\ v.next = w.next /\ v \in CallRecord
  BY <1>2, <1>3, <1>4 DEF PlanStep, CallRecord
<1>6. CallFits(v, log, cas) /\ IndexesWithin(AnyChunk, v)
  BY <1>1, <1>2, <1>5 DEF CallFits, IndexesWithin, Creates
<1> QED
  BY <1>1, <1>3, <1>5, <1>6, OnlyCallMoves

\* The chunks of a revision are planned.
LEMMA PlanChunksPreserves ==
    ASSUME IngestionInv, NEW c \in Callers, PlanChunks(c)
    PROVE  IngestionInv'
<1> DEFINE w == call[c]
           n == w.revision
           e == ExistingChunks(n)
<1>1. /\ w.step = "plan" /\ UNCHANGED <<workerVars, cas, raced>>
      /\ w \in CallRecord /\ CallFits(w, log, cas)
  BY DEF IngestionInv, PlanChunks
<1>2. n \in DOMAIN RevisionsOf(log) /\ RevisionsOf(log)[n].object = w.object /\ Revisions = RevisionsOf(log)
  BY <1>1, RevisionsAreOfLog DEF CallFits
<1>3. n \in 1..MaxRevisions
  BY <1>2, LengthsTyped
<1>4. PICK texts \in Splits[Revisions[n].content] :
        IF RebuiltOnly(e, texts)
        THEN Set(c, [w EXCEPT !.step = "points", !.ops =
                [i \in DOMAIN e |-> CreateOp(e[i], View.objects[e[i]].content)]])
        ELSE Set(c, [w EXCEPT !.step = IF texts = <<>> THEN "points" ELSE NewChunks,
                              !.ops =
                [i \in DOMAIN texts |->
                    CreateOp(ChunkIds[n][i], ChunkContent(w.object, texts[i]))]])
  BY DEF PlanChunks
<1>5. CASE RebuiltOnly(e, texts)
  <2> DEFINE ops == [i \in DOMAIN e |-> CreateOp(e[i], View.objects[e[i]].content)]
  <2>1. Set(c, PlanStep(w, "points", ops))
    BY <1>4, <1>5 DEF PlanStep
  <2>2. PICK m \in Nat : DOMAIN e = 1..m
    BY <1>3, ExistingTyped
  <2>3. ASSUME NEW i \in 1..m
        PROVE  \E k \in Chunks, content \in Content : ops[i] = CreateOp(k, content)
    <3>1. \A j \in DOMAIN ChunkIds[n] : ChunkIds[n][j] \in Chunks
      BY <1>3, ExistingTyped
    <3>2. \A h \in DOMAIN e : \E j \in DOMAIN ChunkIds[n] :
                e[h] = ChunkIds[n][j] /\ Active(View, e[h])
      BY <1>3, ExistingTyped
    <3>3. e[i] \in Chunks
      BY <2>2, <3>1, <3>2
    <3>4. View \in MemoryView /\ e[i] \in Objects
      BY <3>3, ViewTyped DEF IngestionInv, Chunks, OfKind
    <3>5. View.objects[e[i]].content \in Content
      BY <3>4 DEF MemoryView, MemoryObject
    <3> HIDE DEF e
    <3>6. ops[i] = CreateOp(e[i], View.objects[e[i]].content)
      BY <2>2
    <3> HIDE DEF ops
    <3> QED
      BY <3>3, <3>5, <3>6
  <2>4. DOMAIN ops = 1..m /\ ops = [i \in 1..m |-> ops[i]]
    BY <2>2
  <2> HIDE DEF ops
  <2>5. ops \in Seq(MutationOperation) /\ Creates(AnyChunk, ops)
    BY <2>3, <2>4, CreatesTyped
  <2> QED
    BY <1>1, <2>1, <2>5, PlanMoves
<1>6. CASE ~RebuiltOnly(e, texts)
  <2> DEFINE ops == [i \in DOMAIN texts |->
                        CreateOp(ChunkIds[n][i], ChunkContent(w.object, texts[i]))]
             step == IF texts = <<>> THEN "points" ELSE "head"
  <2>1. Set(c, PlanStep(w, step, ops))
    BY <1>4, <1>6 DEF PlanStep, NewChunks
  <2>2. ops = [i \in DOMAIN texts |-> ChunkOp(log, n, i, texts[i])]
    BY <1>2 DEF ChunkOp
  <2>3. texts \in Splits[RevisionsOf(log)[n].content]
    BY <1>2
  <2>4. IsCut(log, n, ops)
    BY <2>2, <2>3 DEF IsCut
  <2> HIDE DEF ops, n
  <2>5. /\ ops \in Seq(MutationOperation) /\ Creates(AnyChunk, ops)
        /\ Len(ops) = Len(texts) /\ Len(texts) \in Nat /\ DOMAIN texts = 1..Len(texts)
    BY <1>2, <2>2, <2>3, CutTyped
  <2>6. texts # <<>> => 1 \in 1..Len(ops)
    <3>1. texts \in Seq(Values)
      <4>1. RevisionsOf(log)[n].content \in Contents
        BY <1>2 DEF IngestionInv, RevisionsHeld
      <4> QED
        BY <2>3, <4>1, IngestionAssumption DEF Contents
    <3>2. texts # <<>> => Len(texts) # 0
      BY <3>1, EmptySeq
    <3> QED
      BY <2>5, <3>2
  <2>7. \/ step = "points" /\ Creates(AnyChunk, ops)
        \/ step = "head" /\ 1 \in 1..Len(ops) /\ IsCut(log, n, ops)
    BY <2>4, <2>5, <2>6
  <2> HIDE DEF step
  <2> QED
    BY <1>1, <2>1, <2>5, <2>7, PlanMoves DEF n
<1> QED
  BY <1>5, <1>6

AfterChunk(w) ==
    IF w.next = Len(w.ops)
    THEN [w EXCEPT !.step = "points", !.next = 1, !.base = 0]
    ELSE [w EXCEPT !.step = "head", !.next = w.next + 1, !.base = 0]

\* A chunk that was written leads to the next chunk, the last one to the points.
LEMMA AfterChunkFields ==
    ASSUME NEW w \in CallRecord, w.next \in 1..Len(w.ops), NEW v, v = AfterChunk(w)
    PROVE  /\ v \in CallRecord /\ v.base = 0 /\ v.object = w.object
           /\ v.ops = w.ops /\ v.revision = w.revision
           /\ \/ w.next = Len(w.ops) /\ v.step = "points" /\ v.next = 1
              \/ v.step = "head" /\ v.next = w.next + 1 /\ v.next \in 1..Len(w.ops)
<1>1. Len(w.ops) \in Nat /\ w.next \in Nat
  BY LenProperties DEF CallRecord
<1>2. CASE w.next = Len(w.ops)
  BY <1>1, <1>2 DEF AfterChunk, CallRecord, Steps
<1>3. CASE w.next # Len(w.ops)
  <2> DEFINE n == w.next + 1
  <2>1. n \in 1..Len(w.ops) /\ n \in Nat
    BY <1>1, <1>3
  <2> DEFINE b == 0
             head == "head"
  <2>2. v = [w EXCEPT !.step = head, !.next = n, !.base = b]
    BY <1>3 DEF AfterChunk
  <2>4. b = 0 /\ head = "head" /\ b \in Nat /\ head \in Steps
    BY DEF Steps
  <2> HIDE DEF n, b, head
  <2>3. /\ v \in CallRecord /\ v.base = 0 /\ v.object = w.object
        /\ v.ops = w.ops /\ v.revision = w.revision
        /\ v.step = "head" /\ v.next = n
    BY <2>1, <2>2, <2>4 DEF CallRecord
  <2> QED
    BY <2>1, <2>3 DEF n
<1> QED
  BY <1>2, <1>3

\* The chunk a call is about to write.
LEMMA ChunkToWrite ==
    ASSUME IngestionInv, NEW c \in Callers, call[c].step = "chunk",
           NEW op, op = call[c].ops[call[c].next]
    PROVE  /\ op \in MutationOperation /\ op.kind = "create" /\ op.object \in Chunks
           /\ <<op.object, op.content>> \in AnyChunk
           /\ ~Revising(op) /\ Creates(AnyChunk, call[c].ops)
<1> DEFINE w == call[c]
<1>1. w \in CallRecord /\ CallFits(w, log, cas)
  BY DEF IngestionInv
<1>2. /\ w.next \in 1..Len(w.ops) /\ IsCut(log, w.revision, w.ops)
      /\ w.revision \in DOMAIN RevisionsOf(log)
  BY <1>1 DEF CallFits
<1>3. PICK texts \in Splits[RevisionsOf(log)[w.revision].content] :
        w.ops = [i \in DOMAIN texts |-> ChunkOp(log, w.revision, i, texts[i])]
  BY <1>2 DEF IsCut
<1>4. w.ops \in Seq(MutationOperation) /\ Creates(AnyChunk, w.ops)
  BY <1>2, <1>3, CutTyped
<1>5. w.next \in DOMAIN w.ops
  BY <1>2, <1>4, LenProperties
<1>6. op \in MutationOperation
  BY <1>2, <1>4, ElementOfSeq
<1>7. op.kind = "create" /\ <<op.object, op.content>> \in AnyChunk
  BY <1>4, <1>5 DEF Creates
<1> QED
  BY <1>4, <1>6, <1>7 DEF AnyChunk, Revising, Chunks, Resources, OfKind

\* A chunk is committed, or answered with its equivalent.
LEMMA WriteChunkPreserves ==
    ASSUME IngestionInv, NEW c \in Callers, WriteChunk(c)
    PROVE  IngestionInv'
<1> DEFINE w == call[c]
<1>1. /\ w.step = "chunk" /\ UNCHANGED <<stores, worker, cas, raced>>
      /\ Set(c, AfterChunk(w))
  BY DEF WriteChunk, AfterChunk
<1>2. w \in CallRecord /\ CallFits(w, log, cas)
  BY DEF IngestionInv
<1>3. PICK op : op = w.ops[w.next]
  OBVIOUS
<1>4. op \in MutationOperation /\ ~Revising(op) /\ Creates(AnyChunk, w.ops)
  BY <1>1, <1>3, ChunkToWrite
<1>5. /\ LogTyped' /\ RevisionsHeld' /\ RevisionsKept(log, log')
  <2>1. CASE Accept(<<op>>)
    BY <1>1, <1>4, <2>1, AcceptedIsHeld DEF IngestionInv
  <2>2. CASE UNCHANGED log
    <3>1. Len(log) \in Nat
      BY LengthsTyped
    <3> QED
      BY <1>1, <2>2, <3>1 DEF IngestionInv, LogTyped, RevisionsHeld, RevisionsKept
  <2> QED
    BY <1>3, <2>1, <2>2 DEF WriteChunk
<1>6. PICK v : v = AfterChunk(w)
  OBVIOUS
<1>7. w.next \in 1..Len(w.ops) /\ IsCut(log, w.revision, w.ops)
  BY <1>1, <1>2 DEF CallFits
<1>8. /\ v \in CallRecord /\ v.base = 0 /\ v.object = w.object
      /\ v.ops = w.ops /\ v.revision = w.revision
      /\ \/ w.next = Len(w.ops) /\ v.step = "points" /\ v.next = 1
         \/ v.step = "head" /\ v.next = w.next + 1 /\ v.next \in 1..Len(w.ops)
  BY <1>2, <1>6, <1>7, AfterChunkFields
<1>9. 0 \in 0..Len(log)
  BY LengthsTyped
<1>10. CallFits(v, log, cas) /\ IndexesWithin(AnyChunk, v)
  BY <1>1, <1>2, <1>4, <1>7, <1>8, <1>9 DEF CallFits, IndexesWithin, Creates
<1>11. CallFits(v, log', cas)
  BY <1>5, <1>8, <1>10, CallStillFits
<1>12. /\ StoresWithin(AnyChunk)' /\ cas \subseteq cas' /\ cas' \subseteq Contents
       /\ raced' \subseteq Resources /\ UNCHANGED worker /\ CallFits(v, log', cas')
  BY <1>1, <1>11 DEF IngestionInv, WorkerWithin, StoresWithin, stores
<1>13. call' = [call EXCEPT ![c] = v]
  BY <1>1, <1>6 DEF Set
<1> QED
  BY <1>5, <1>8, <1>10, <1>12, <1>13, CallMoves

\* A resource is committed: its content has been stored.
LEMMA WriteResourcePreserves ==
    ASSUME IngestionInv, NEW c \in Callers, WriteResource(c)
    PROVE  IngestionInv'
<1> DEFINE w == call[c]
<1>1. w \in CallRecord /\ CallFits(w, log, cas) /\ w.step = "write"
  BY DEF IngestionInv, WriteResource
<1>2. PICK op : w.ops = <<op>> /\ WritesResource(op, w.object)
  BY <1>1 DEF CallFits
<1>3. /\ op \in MutationOperation /\ op.object = w.object /\ w.object \in Resources
      /\ Revising(op) <=> op.kind # "tombstone"
      /\ op.kind # "tombstone" => op.content.value \in Contents /\ op.content.value \in cas
  BY <1>1, <1>2, ResourceWriteTyped DEF CallFits
<1>4. /\ Len(log) \in Nat /\ MaxRevisions \in Nat /\ Len(Revisions) \in 0..MaxRevisions
  BY LengthsTyped
<1>5. /\ UNCHANGED <<stores, worker, cas>>
      /\ \/ /\ Accept(<<op>>) /\ (op.kind = "tombstone" \/ Len(Revisions) < MaxRevisions)
            /\ AfterWrite(c, Len(Revisions) + 1)
         \/ UNCHANGED log /\ AfterWrite(c, MaxRevisions + 1)
      /\ raced' \subseteq raced \cup {w.object}
  BY <1>2 DEF WriteResource
<1>6. LogTyped' /\ RevisionsHeld' /\ RevisionsKept(log, log')
  <2>1. CASE Accept(<<op>>) /\ (op.kind = "tombstone" \/ Len(Revisions) < MaxRevisions)
    BY <1>3, <1>5, <2>1, AcceptedIsHeld DEF IngestionInv
  <2>2. CASE UNCHANGED log
    BY <1>4, <1>5, <2>2 DEF IngestionInv, LogTyped, RevisionsHeld, RevisionsKept
  <2> QED
    BY <1>5, <2>1, <2>2
<1>7. PICK n \in 0..(MaxRevisions + 1) : AfterWrite(c, n)
  <2>1. Len(Revisions) + 1 \in 0..(MaxRevisions + 1) /\ MaxRevisions + 1 \in 0..(MaxRevisions + 1)
    BY <1>4
  <2> QED
    BY <1>5, <2>1
<1>8. PICK v : /\ Set(c, v) /\ v \in CallRecord /\ CallFits(v, log, cas)
               /\ IndexesWithin(AnyChunk, v)
  <2>1. CASE Set(c, IdleCall)
    <3>1. IdleCall \in CallRecord /\ CallFits(IdleCall, log, cas) /\ IndexesWithin(AnyChunk, IdleCall)
      BY <1>4, IdleFits
    <3> QED
      BY <2>1, <3>1
  <2>2. ASSUME NEW k \in {0, n}, Set(c, ViewCall(w.object, k))
        PROVE  \E v : /\ Set(c, v) /\ v \in CallRecord /\ CallFits(v, log, cas)
                      /\ IndexesWithin(AnyChunk, v)
    <3>1. k \in 0..(MaxRevisions + 1)
      BY <1>4
    <3>2. PICK v : v = ViewCall(w.object, k)
      OBVIOUS
    <3>3. v \in CallRecord /\ CallFits(v, log, cas) /\ IndexesWithin(AnyChunk, v)
      BY <1>3, <1>4, <3>1, <3>2, ViewCallFits
    <3> QED
      BY <2>2, <3>2, <3>3
  <2>3. Set(c, IdleCall) \/ \E k \in {0, n} : Set(c, ViewCall(w.object, k))
    BY <1>7 DEF AfterWrite, Return, ViewCall
  <2> QED
    BY <2>1, <2>2, <2>3
<1>9. CallFits(v, log', cas)
  BY <1>6, <1>8, CallStillFits
<1>10. /\ StoresWithin(AnyChunk)' /\ cas \subseteq cas' /\ cas' \subseteq Contents
       /\ raced' \subseteq Resources /\ UNCHANGED worker /\ CallFits(v, log', cas')
  BY <1>3, <1>5, <1>9 DEF IngestionInv, WorkerWithin, StoresWithin, stores
<1>11. call' = [call EXCEPT ![c] = v]
  BY <1>8 DEF Set
<1> QED
  BY <1>6, <1>8, <1>10, <1>11, CallMoves

\* A step of the worker beside the calls.
LEMMA WorkerPreserves ==
    ASSUME IngestionInv, WorkerNext, UNCHANGED serviceVars
    PROVE  IngestionInv'
<1>1. UNCHANGED <<log, cas, call, raced>>
  BY DEF WorkerNext, StartProject, ProjectNext, FinishProject, FailProject, serviceVars
<1>2. log \in Seq(CommitWithin(AnyChunk, Resources))
  <2>1. LogCommit \subseteq CommitWithin(AnyChunk, Resources)
    <3>1. MutationOperation \subseteq Within(AnyChunk, Resources)
      BY DEF Within, MutationOperation, AnyChunk
    <3>2. Seq(MutationOperation) \subseteq Seq(Within(AnyChunk, Resources))
      BY <3>1, SeqOfMore
    <3> QED
      BY <3>2 DEF LogCommit, CommitWithin
  <2> QED
    BY <2>1, SeqOfMore DEF IngestionInv, LogTyped
<1>3. watermark \in Nat /\ Len(log) \in Nat
  BY LengthsTyped DEF IngestionInv
<1>4. WorkerWithin(AnyChunk, Resources)'
  BY <1>2, <1>3, WorkerKeepsWithin DEF IngestionInv
<1>5. /\ watermark' \in 0..Len(log)
      /\ \A c \in Projectors : project'[c].last \in 0..Len(log)
  <2>1. /\ project \in [Projectors -> ProjectCall(AnyChunk, Resources)]
        /\ watermark \in 0..Len(log)
        /\ \A c \in Projectors : project[c].last \in 0..Len(log)
    BY DEF IngestionInv, WorkerWithin
  <2>2. Len(log) \in 0..Len(log) /\ IdleProject.last \in 0..Len(log)
    BY <1>3 DEF IdleProject
  <2>3. ASSUME NEW c \in Projectors, StartProject(c)
        PROVE  watermark' \in 0..Len(log) /\ \A d \in Projectors : project'[d].last \in 0..Len(log)
    BY <2>1, <2>2, <2>3 DEF StartProject
  <2>4. ASSUME NEW c \in Projectors, ProjectNext(c)
        PROVE  watermark' \in 0..Len(log) /\ \A d \in Projectors : project'[d].last \in 0..Len(log)
    <3>1. PICK todo : project' = [project EXCEPT ![c].todo = todo] /\ UNCHANGED watermark
      BY <2>4 DEF ProjectNext
    <3>2. \A d \in Projectors : project'[d].last = project[d].last
      BY <2>1, <3>1 DEF ProjectCall
    <3> QED
      BY <2>1, <3>1, <3>2
  <2>5. ASSUME NEW c \in Projectors, FinishProject(c)
        PROVE  watermark' \in 0..Len(log) /\ \A d \in Projectors : project'[d].last \in 0..Len(log)
    BY <2>1, <2>2, <2>5 DEF FinishProject
  <2>6. ASSUME NEW c \in Projectors, FailProject(c)
        PROVE  watermark' \in 0..Len(log) /\ \A d \in Projectors : project'[d].last \in 0..Len(log)
    BY <2>1, <2>2, <2>6 DEF FailProject
  <2> QED
    BY <2>3, <2>4, <2>5, <2>6 DEF WorkerNext
<1> QED
  BY <1>1, <1>4, <1>5 DEF IngestionInv, LogTyped, RevisionsHeld

\* A worker that restarts reads the history again, its stores stay.
LEMMA RestartWithin ==
    ASSUME NEW S, NEW R, WorkerWithin(S, R), RestartWorker
    PROVE  WorkerWithin(S, R)'
<1>1. IdleProject \in ProjectCall(S, R)
  BY EmptySeq DEF IdleProject, ProjectCall
<1>2. project' \in [Projectors -> ProjectCall(S, R)] /\ UNCHANGED stores
  BY <1>1 DEF RestartWorker
<1> QED
  BY <1>2 DEF WorkerWithin, StoresWithin, stores

\* The service restarts: its calls are gone.
LEMMA RestartPreserves ==
    ASSUME IngestionInv, RestartService
    PROVE  IngestionInv'
<1>1. Len(log) \in Nat
  BY LengthsTyped
<1>2. UNCHANGED <<log, cas, raced>> /\ RestartWorker /\ call' = [c \in Callers |-> IdleCall]
  BY DEF RestartService, RestartWorker
<1>3. WorkerWithin(AnyChunk, Resources)'
  BY <1>2, RestartWithin DEF IngestionInv
<1>4. /\ watermark' \in 0..Len(log)
      /\ \A c \in Projectors : project'[c].last \in 0..Len(log)
  BY <1>1, <1>2 DEF RestartWorker, IdleProject
<1>5. IdleCall \in CallRecord /\ CallFits(IdleCall, log, cas) /\ IndexesWithin(AnyChunk, IdleCall)
  BY <1>1, IdleFits
<1>6. /\ call' \in [Callers -> CallRecord]
      /\ \A c \in Callers : CallFits(call'[c], log, cas) /\ IndexesWithin(AnyChunk, call'[c])
  BY <1>2, <1>5
<1> QED
  BY <1>2, <1>3, <1>4, <1>6 DEF IngestionInv, LogTyped, RevisionsHeld

\* The history starts without resources.
LEMMA FirstLog ==
    /\ FirstCommits \in Seq(LogCommit) /\ Numbered(FirstCommits)
    /\ \A i \in DOMAIN FirstCommits, o \in Resources \cup Chunks :
            NamesNot(FirstCommits[i].ops, o)
    /\ DOMAIN RevisionsOf(FirstCommits) = {} /\ Len(RevisionsOf(FirstCommits)) = 0
<1> DEFINE l == FirstCommits
           L == Len(l)
<1>1. l \in Seq(LogCommit) /\ Numbered(l)
  BY IngestionAssumption DEF LogCommit, Numbered
<1>2. \A i \in DOMAIN l : \A j \in DOMAIN l[i].ops : l[i].ops[j].object \notin Resources \cup Chunks
  BY IngestionAssumption
<1>3. \A i \in DOMAIN l, o \in Resources \cup Chunks : NamesNot(l[i].ops, o)
  BY <1>2 DEF NamesNot
<1>4. PICK none : none = {}
  OBVIOUS
<1>5. RevisionSet(l) = none
  BY <1>2, <1>4 DEF RevisionSet, IsRevision
<1>6. L \in Nat /\ none \in SUBSET (1..L)
  BY <1>1, <1>4, LenProperties
<1> HIDE DEF l, L
<1>7. DOMAIN At(l, none) = 1..Cardinality(none)
  BY <1>6, AtLength
<1>8. Cardinality(none) = 0
  BY <1>4, FS_EmptySet
<1>9. DOMAIN At(l, none) = {}
  BY <1>7, <1>8
<1>10. DOMAIN RevisionsOf(l) = {}
  BY <1>5, <1>9 DEF RevisionsOf
<1>11. Len(RevisionsOf(l)) = 0
  <2>1. PICK commit : commit \in LogCommit
    <3>1. [id |-> 0, ops |-> <<>>] \in LogCommit
      BY EmptySeq DEF LogCommit
    <3> QED
      BY <3>1
  <2>2. Len(RevisionsOf(l)) \in Nat /\ DOMAIN RevisionsOf(l) = 1..Len(RevisionsOf(l))
    BY <1>1, <2>1, RevisionsGrow DEF l
  <2> QED
    BY <1>10, <2>2
<1> QED
  BY <1>1, <1>3, <1>10, <1>11 DEF l

\* Initially there is neither a call nor a revision.
LEMMA InitIngestionInv == ResourceInit => IngestionInv
<1> SUFFICES ASSUME ResourceInit
             PROVE  IngestionInv
  OBVIOUS
<1>1. log = FirstCommits
  BY DEF ResourceInit, WorkerInit
<1>2. LogTyped /\ DOMAIN RevisionsOf(log) = {} /\ Len(RevisionsOf(log)) = 0
  BY <1>1, FirstLog DEF LogTyped
<1>3. Len(log) \in Nat /\ MaxRevisions \in Nat
  BY <1>2, LenProperties, IngestionAssumption DEF LogTyped
<1>4. RevisionsHeld
  BY <1>2, <1>3 DEF RevisionsHeld
<1>5. WorkerWithin(AnyChunk, Resources)
  <2>1. IdleProject \in ProjectCall(AnyChunk, Resources)
    BY EmptySeq DEF IdleProject, ProjectCall
  <2> QED
    BY <2>1 DEF ResourceInit, WorkerInit, WorkerWithin, StoresWithin, StoredContent,
                Chunks, Vectors, OfKind
<1>6. watermark \in 0..Len(log) /\ \A c \in Projectors : project[c].last \in 0..Len(log)
  BY <1>3 DEF ResourceInit, WorkerInit, IdleProject
<1>7. IdleCall \in CallRecord /\ CallFits(IdleCall, log, cas) /\ IndexesWithin(AnyChunk, IdleCall)
  BY <1>3, IdleFits
<1>8. cas = {} /\ raced = {} /\ call = [c \in Callers |-> IdleCall]
  BY DEF ResourceInit
<1> QED
  BY <1>2, <1>4, <1>5, <1>6, <1>7, <1>8 DEF IngestionInv

\* The invariant is inductive: one case for each action.
LEMMA StepKeepsIngestionInv == IngestionInv /\ [ResourceNext]_resourceVars => IngestionInv'
<1> SUFFICES ASSUME IngestionInv, [ResourceNext]_resourceVars
             PROVE  IngestionInv'
  OBVIOUS
<1>1. CASE UNCHANGED resourceVars
  BY <1>1 DEF IngestionInv, LogTyped, RevisionsHeld, WorkerWithin, StoresWithin,
              resourceVars, workerVars, serviceVars, stores, worker
<1>2. CASE WorkerNext /\ UNCHANGED serviceVars
  BY <1>2, WorkerPreserves
<1>3. CASE RestartService
  BY <1>3, RestartPreserves
<1>4. ASSUME NEW c \in Callers,
             \/ Import(c) \/ Revise(c) \/ PutContent(c) \/ TombstoneResource(c)
             \/ WriteResource(c)
             \/ StartIngest(c) \/ ViewResource(c) \/ FindRevision(c) \/ PlanChunks(c)
             \/ ChunkHead(c) \/ WriteChunk(c)
             \/ IndexPoints(c) \/ IndexDocuments(c) \/ EndCall(c)
      PROVE  IngestionInv'
  BY <1>4, ImportPreserves, PutContentPreserves, WriteResourcePreserves,
     StartIngestPreserves, ViewResourcePreserves, FindRevisionPreserves,
     PlanChunksPreserves, WriteChunkPreserves, IndexPreserves
<1> QED
  BY <1>1, <1>2, <1>3, <1>4 DEF ResourceNext

\* The types of the ingestion: contents are known ones, bases and watermarks
\* are positions of the log, the stores hold contents.
THEOREM IngestionTypeCorrect == ResourceSpec => []IngestionTypeOK
<1>1. IngestionInv => IngestionTypeOK
  <2> SUFFICES ASSUME IngestionInv
               PROVE  IngestionTypeOK
    OBVIOUS
  <2>1. \A c \in Callers : call[c].base \in 0..Len(log) /\ call[c].revision \in 0..MaxRevisions + 1
    <3>1. \A c \in Callers : call[c] \in CallRecord /\ CallFits(call[c], log, cas)
      BY DEF IngestionInv
    <3> QED
      BY <3>1 DEF CallRecord, CallFits
  <2> QED
    BY <2>1 DEF IngestionInv, IngestionTypeOK, LogTyped, Numbered, WorkerWithin, StoresWithin,
                Contents
<1> QED
  BY <1>1, InitIngestionInv, StepKeepsIngestionInv, PTL DEF ResourceSpec

\* CAS-first visibility: whatever fails or restarts between the content store
\* and the history, and however many services import and revise at a time, the
\* content of every revision of the history is held.
THEOREM RevisionsAreReadable == ResourceSpec => []CasFirst
<1>1. IngestionInv => CasFirst
  BY RevisionsAreOfLog DEF IngestionInv, RevisionsHeld, CasFirst
<1> QED
  BY <1>1, InitIngestionInv, StepKeepsIngestionInv, PTL DEF ResourceSpec

-----------------------------------------------------------------------------
(* What the stores hold and the history created.  A call may ask for its   *)
(* own chunk size, so a content may have several splits; two calls that cut *)
(* a revision differently index chunks the history does not have.  The rest *)
(* is about callers that agree.                                            *)

OneSplit == \A v \in Contents : \A s, t \in Splits[v] : s = t

Created(l) ==
    {p \in AnyChunk : \E i \in DOMAIN l : \E j \in DOMAIN l[i].ops :
                            l[i].ops[j] = CreateOp(p[1], p[2])}

Removed(l) ==
    {o \in Resources : \E i \in DOMAIN l : \E j \in DOMAIN l[i].ops :
                            l[i].ops[j] = TombstoneOp(o)}

PairOf(op) == <<op.object, op.content>>

\* Chunks are created as a revision of the log is cut.
CutOf(l, p) ==
    \E n \in DOMAIN RevisionsOf(l) :
        \E texts \in Splits[RevisionsOf(l)[n].content] : \E i \in DOMAIN texts :
            p = PairOf(ChunkOp(l, n, i, texts[i]))

\* The operations of a call have every chunk of its revision.
Covers(w, l) ==
    \E texts \in Splits[RevisionsOf(l)[w.revision].content] : \A i \in DOMAIN texts :
        \E j \in DOMAIN w.ops :
            PairOf(w.ops[j]) = PairOf(ChunkOp(l, w.revision, i, texts[i]))

\* What a call has created and indexed.
CallProgress(w, l) ==
    /\ IndexesWithin(Created(l), w)
    /\ w.step \in {"head", "chunk"} =>
            \A j \in DOMAIN w.ops : j < w.next => PairOf(w.ops[j]) \in Created(l)
    /\ w.step \in {"points", "documents", "indexed"} => Covers(w, l)

CallIndexed(w) ==
    /\ w.step \in {"documents", "indexed"} => \A j \in DOMAIN w.ops :
            \/ points[w.ops[j].object] = w.ops[j].content
            \/ w.ops[j].content.source \in Removed(log)
    /\ w.step = "indexed" => \A j \in DOMAIN w.ops :
            documents[w.ops[j].object] = w.ops[j].content

ViewOfLog(view, l) ==
    /\ \A k \in Chunks : Present(view, k) => <<k, view.objects[k].content>> \in Created(l)
    /\ \A o \in Removed(l) : view.objects[o].status = "tombstoned"

HistoryInv ==
    /\ \A p \in Created(log) : CutOf(log, p)
    /\ ViewOfLog(View, log)
    /\ WorkerWithin(Created(log), Removed(log))
    /\ \A c \in Callers : CallProgress(call[c], log) /\ CallIndexed(call[c])

\* What was created of a chunk is a text of its revision.
LEMMA CreatedIsCut ==
    ASSUME OneSplit, IngestionInv, \A p \in Created(log) : CutOf(log, p),
           NEW n \in DOMAIN RevisionsOf(log), NEW i \in DOMAIN ChunkIds[n],
           NEW texts \in Splits[RevisionsOf(log)[n].content],
           NEW x, <<ChunkIds[n][i], x>> \in Created(log)
    PROVE  i \in DOMAIN texts /\ x = ChunkContent(RevisionsOf(log)[n].object, texts[i])
<1> DEFINE r == RevisionsOf(log)
<1>1. PICK m \in DOMAIN r : \E t \in Splits[r[m].content] : \E h \in DOMAIN t :
        <<ChunkIds[n][i], x>> = PairOf(ChunkOp(log, m, h, t[h]))
  BY DEF CutOf
<1>2. PICK t \in Splits[r[m].content] : \E h \in DOMAIN t :
        <<ChunkIds[n][i], x>> = PairOf(ChunkOp(log, m, h, t[h]))
  BY <1>1
<1>3. PICK h \in DOMAIN t : <<ChunkIds[n][i], x>> = PairOf(ChunkOp(log, m, h, t[h]))
  BY <1>2
<1>4. ChunkIds[n][i] = ChunkIds[m][h] /\ x = ChunkContent(r[m].object, t[h])
  BY <1>3 DEF PairOf, ChunkOp, CreateOp
<1>5. m \in 1..MaxRevisions /\ h \in DOMAIN ChunkIds[m]
  BY CutTyped
<1>6. n \in 1..MaxRevisions
  BY LengthsTyped, RevisionsAreOfLog
<1>7. n = m /\ i = h
  <2>1. \A a, b \in 1..MaxRevisions : \A e \in DOMAIN ChunkIds[a], f \in DOMAIN ChunkIds[b] :
            ChunkIds[a][e] = ChunkIds[b][f] => a = b /\ e = f
    BY IngestionAssumption, Zenon
  <2> HIDE DEF r
  <2> QED
    BY <1>4, <1>5, <1>6, <2>1
<1>8. r[n].content \in Contents
  BY DEF IngestionInv, RevisionsHeld
<1>9. t = texts
  BY <1>7, <1>8 DEF OneSplit
<1> QED
  BY <1>4, <1>7, <1>9

\* A chunk is created with one content.
LEMMA CreatedOnce ==
    ASSUME OneSplit, IngestionInv, \A p \in Created(log) : CutOf(log, p),
           NEW k, NEW x, NEW y, <<k, x>> \in Created(log), <<k, y>> \in Created(log)
    PROVE  x = y
<1> DEFINE r == RevisionsOf(log)
<1>1. PICK n \in DOMAIN r : \E t \in Splits[r[n].content] : \E h \in DOMAIN t :
        <<k, x>> = PairOf(ChunkOp(log, n, h, t[h]))
  BY DEF CutOf
<1>2. PICK t \in Splits[r[n].content] : \E h \in DOMAIN t :
        <<k, x>> = PairOf(ChunkOp(log, n, h, t[h]))
  BY <1>1
<1>3. PICK i \in DOMAIN t : <<k, x>> = PairOf(ChunkOp(log, n, i, t[i]))
  BY <1>2
<1>4. k = ChunkIds[n][i] /\ x = ChunkContent(r[n].object, t[i])
  BY <1>3 DEF PairOf, ChunkOp, CreateOp
<1>5. i \in DOMAIN ChunkIds[n]
  BY CutTyped
<1>6. y = ChunkContent(r[n].object, t[i])
  BY <1>4, <1>5, CreatedIsCut
<1> QED
  BY <1>4, <1>6

\* What one more operation creates and removes.
LEMMA CreatedGrows ==
    ASSUME NEW l, NEW m, NEW op, LongerBy(l, m, op)
    PROVE  /\ Created(l) \subseteq Created(m) /\ Removed(l) \subseteq Removed(m)
           /\ \A p \in Created(m) : p \in Created(l) \/ op = CreateOp(p[1], p[2])
           /\ \A o \in Removed(m) : o \in Removed(l) \/ op = TombstoneOp(o)
           /\ \A p \in AnyChunk : op = CreateOp(p[1], p[2]) => p \in Created(m)
<1>1. /\ Len(l) \in Nat /\ DOMAIN m = 1..(Len(l) + 1) /\ DOMAIN l = 1..Len(l)
      /\ \A i \in 1..Len(l) : m[i] = l[i]
      /\ m[Len(l) + 1].ops = <<op>>
  BY DEF LongerBy
<1> DEFINE last == Len(l) + 1
           ops == <<op>>
<1>2. /\ DOMAIN l \subseteq DOMAIN m /\ \A i \in DOMAIN l : m[i] = l[i]
      /\ last \in DOMAIN m /\ m[last].ops = ops /\ DOMAIN ops = {1} /\ ops[1] = op
      /\ \A i \in DOMAIN m : i \in DOMAIN l \/ i = last
  BY <1>1
<1> HIDE DEF last, ops
<1> QED
  BY <1>2 DEF Created, Removed

\* The view of a log that grows by one accepted operation.
LEMMA ViewOfLogGrows ==
    ASSUME NEW l \in Seq(LogCommit), NEW op \in MutationOperation, op.kind # "replace",
           NEW commit, commit = [id |-> Len(l) + 1, ops |-> <<op>>],
           NEW m, m = Append(l, commit), LongerBy(l, m, op),
           NEW v, v = Replay(SeedView, l), ViewOfLog(v, l),
           NEW w, w = Replay(SeedView, m), w.ok,
           op.kind = "tombstone" => Active(v, op.object)
    PROVE  ViewOfLog(w, m)
<1>1. Len(l) + 1 \in Nat
  BY LenProperties
<1>2. v \in MemoryView /\ w = ApplyOperation(v, op)
  BY <1>1, ViewAfter
<1>3. /\ Created(l) \subseteq Created(m) /\ Removed(l) \subseteq Removed(m)
      /\ \A o \in Removed(m) : o \in Removed(l) \/ op = TombstoneOp(o)
      /\ \A p \in AnyChunk : op = CreateOp(p[1], p[2]) => p \in Created(m)
  BY CreatedGrows
<1>4. v.ok
  BY <1>2, OperationKeeps
<1>5. ASSUME NEW k \in Chunks, Present(w, k)
      PROVE  <<k, w.objects[k].content>> \in Created(m)
  <2>1. k \in Objects /\ Kind[k] = "resource_chunk"
    BY DEF Chunks, OfKind
  <2>2. CASE op.kind = "create" /\ op.object = k
    <3>1. w.objects[k].content = op.content
      BY <1>2, <2>2, AfterCreate
    <3>2. op.content \in Content /\ op = CreateOp(k, op.content)
      BY <2>2 DEF MutationOperation, CreateOp
    <3>3. PICK p : p = <<k, op.content>>
      OBVIOUS
    <3>4. p \in AnyChunk /\ op = CreateOp(p[1], p[2])
      BY <3>2, <3>3 DEF AnyChunk
    <3> QED
      BY <1>3, <3>1, <3>3, <3>4
  <2>3. CASE ~(op.kind = "create" /\ op.object = k)
    <3>1. op.kind = "update" => op.object # k
      BY <2>1 DEF MutationOperation, OfKind
    <3>2. /\ ~Present(v, k) /\ Present(w, k) => op.kind = "create" /\ op.object = k
          /\ \/ w.objects[k].content = v.objects[k].content
             \/ op.kind \in {"create", "update"} /\ op.object = k
      BY <1>2, <2>1, OperationChanges
    <3>3. Present(v, k) /\ w.objects[k].content = v.objects[k].content
      BY <1>5, <2>3, <3>1, <3>2
    <3> QED
      BY <1>3, <3>3 DEF ViewOfLog
  <2> QED
    BY <2>2, <2>3
<1>6. ASSUME NEW o \in Removed(m)
      PROVE  w.objects[o].status = "tombstoned"
  <2>1. o \in Objects /\ Kind[o] = "resource"
    BY DEF Removed, Resources, OfKind
  <2>2. CASE o \in Removed(l)
    <3>1. v.objects[o].status = "tombstoned"
      BY <2>2 DEF ViewOfLog
    <3> QED
      BY <1>2, <2>1, <3>1, OperationChanges
  <2>3. CASE op = TombstoneOp(o)
    <3>1. Active(v, o)
      BY <2>3 DEF TombstoneOp
    <3>2. w = ApplyOperation(v, TombstoneOp(o))
      BY <1>2, <2>3
    <3> QED
      BY <1>2, <1>4, <2>1, <3>1, <3>2, TombstoneRemoves
  <2> QED
    BY <1>3, <2>2, <2>3
<1> QED
  BY <1>5, <1>6 DEF ViewOfLog

\* The history accepts one operation: what it has created, and what it shows.
LEMMA HistoryGrows ==
    ASSUME IngestionInv, HistoryInv, NEW op \in MutationOperation, op.kind # "replace",
           NEW base, Accepts(base, <<op>>), Accept(<<op>>),
           RevisionsKept(log, log'),
           op.kind = "create" /\ op.object \in Chunks => CutOf(log, PairOf(op))
    PROVE  /\ \A p \in Created(log') : CutOf(log', p)
           /\ ViewOfLog(View, log)'
           /\ Created(log) \subseteq Created(log') /\ Removed(log) \subseteq Removed(log')
           /\ op.kind = "create" /\ op.object \in Chunks => PairOf(op) \in Created(log')
<1>1. PICK l : l = log
  OBVIOUS
<1>2. PICK m : m = log'
  OBVIOUS
<1>3. PICK commit : commit = [id |-> Len(l) + 1, ops |-> <<op>>]
  OBVIOUS
<1>4. /\ l \in Seq(LogCommit) /\ Numbered(l) /\ m = Append(l, commit)
      /\ commit = Commit(<<op>>)
  BY <1>1, <1>2, <1>3 DEF IngestionInv, LogTyped, Accept, Commit
<1>5. LongerBy(l, m, op)
  BY <1>3, <1>4, LogGrows
<1>6. Executable(SeedView, l, commit)
  BY <1>1, <1>4 DEF Accepts
<1>7. PICK v : v = Replay(SeedView, l)
  OBVIOUS
<1>8. PICK w : w = Replay(SeedView, m)
  OBVIOUS
<1>9. v = View /\ w = View'
  BY <1>1, <1>2, <1>7, <1>8 DEF View
<1>10. w.ok
  BY <1>4, <1>6, <1>8 DEF Executable
<1>11. op.kind = "tombstone" => Active(v, op.object)
  <2>1. commit.ops = <<op>>
    BY <1>3
  <2>2. TargetAvailable(v, l, <<op>>, op)
    BY <1>6, <1>7, <2>1 DEF Executable
  <2> QED
    BY <2>2 DEF TargetAvailable
<1>12. ViewOfLog(w, m)
  BY <1>1, <1>3, <1>4, <1>5, <1>7, <1>8, <1>9, <1>10, <1>11, ViewOfLogGrows DEF HistoryInv
<1>13. /\ Created(l) \subseteq Created(m) /\ Removed(l) \subseteq Removed(m)
       /\ \A p \in Created(m) : p \in Created(l) \/ op = CreateOp(p[1], p[2])
       /\ \A p \in AnyChunk : op = CreateOp(p[1], p[2]) => p \in Created(m)
  BY <1>5, CreatedGrows
<1>14. ASSUME NEW p, CutOf(l, p)
       PROVE  CutOf(m, p)
  BY <1>1, <1>2, <1>14 DEF CutOf, RevisionsKept, ChunkOp
<1>15. ASSUME NEW p \in Created(m)
       PROVE  CutOf(m, p)
  <2>1. CASE p \in Created(l)
    BY <1>1, <1>14, <2>1 DEF HistoryInv
  <2>2. CASE op = CreateOp(p[1], p[2])
    <3>1. p = PairOf(op) /\ op.kind = "create" /\ op.object \in Chunks
      BY <2>2 DEF Created, AnyChunk, PairOf, CreateOp
    <3> QED
      BY <1>1, <1>14, <3>1
  <2> QED
    BY <1>13, <2>1, <2>2
<1>16. ASSUME op.kind = "create", op.object \in Chunks
       PROVE  PairOf(op) \in Created(m)
  <2>1. op.content \in Content /\ op = CreateOp(op.object, op.content)
    BY <1>16 DEF MutationOperation, CreateOp
  <2>2. PICK p : p = <<op.object, op.content>>
    OBVIOUS
  <2>3. p \in AnyChunk /\ op = CreateOp(p[1], p[2]) /\ p = PairOf(op)
    BY <1>16, <2>1, <2>2 DEF AnyChunk, PairOf
  <2> QED
    BY <1>13, <2>3
<1> QED
  BY <1>1, <1>2, <1>9, <1>12, <1>13, <1>15, <1>16


\* What a call has made stays made when the log grows.
LEMMA ProgressKept ==
    ASSUME NEW l, NEW m, RevisionsKept(l, m), Created(l) \subseteq Created(m),
           NEW held, NEW w, CallFits(w, l, held), CallProgress(w, l)
    PROVE  CallProgress(w, m)
<1>1. IndexesWithin(Created(m), w)
  BY DEF CallProgress, IndexesWithin
<1>2. ASSUME w.step \in {"points", "documents", "indexed"}
      PROVE  Covers(w, m)
  <2>1. w.revision \in DOMAIN RevisionsOf(l) /\ Covers(w, l)
    BY <1>2 DEF CallFits, CallProgress
  <2>2. RevisionsOf(m)[w.revision] = RevisionsOf(l)[w.revision]
    BY <2>1 DEF RevisionsKept
  <2> QED
    BY <2>1, <2>2 DEF Covers, ChunkOp
<1> QED
  BY <1>1, <1>2 DEF CallProgress

\* A step of a call, with or without an accepted operation.
LEMMA HistoryMoves ==
    ASSUME IngestionInv, HistoryInv, NEW c \in Callers, NEW v,
           \A p \in Created(log') : CutOf(log', p), ViewOfLog(View, log)',
           Created(log) \subseteq Created(log'), Removed(log) \subseteq Removed(log'),
           RevisionsKept(log, log'), UNCHANGED <<stores, worker>>,
           call' = [call EXCEPT ![c] = v],
           CallProgress(v, log'), CallIndexed(v)'
    PROVE  HistoryInv'
<1>1. WorkerWithin(Created(log), Removed(log))'
  <2>1. PICK S : S = Created(log')
    OBVIOUS
  <2>2. PICK R : R = Removed(log')
    OBVIOUS
  <2>3. WorkerWithin(S, R)
    BY <2>1, <2>2, WithinOfMore DEF HistoryInv
  <2>4. WorkerWithin(S, R)'
    BY <2>3 DEF WorkerWithin, StoresWithin, stores, worker
  <2>5. Created(log)' = S /\ Removed(log)' = R
    BY <2>1, <2>2
  <2> QED
    BY <2>4, <2>5 DEF WorkerWithin, StoresWithin
<1>2. ASSUME NEW d \in Callers
      PROVE  CallProgress(call'[d], log') /\ CallIndexed(call[d])'
  <2>1. CASE d = c
    <3>1. call'[d] = v
      BY <2>1 DEF IngestionInv
    <3> QED
      BY <3>1 DEF CallIndexed
  <2>2. CASE d # c
    <3>1. call'[d] = call[d]
      BY <2>2 DEF IngestionInv
    <3>2. CallFits(call[d], log, cas) /\ CallProgress(call[d], log) /\ CallIndexed(call[d])
      BY DEF IngestionInv, HistoryInv
    <3>3. CallProgress(call[d], log')
      BY <3>2, ProgressKept
    <3>4. UNCHANGED <<points, documents>>
      BY DEF stores
    <3>5. CallIndexed(call[d])'
      BY <3>1, <3>2, <3>4 DEF CallIndexed
    <3> QED
      BY <3>1, <3>3, <3>5
  <2> QED
    BY <2>1, <2>2
<1> QED
  BY <1>1, <1>2 DEF HistoryInv

\* A step of a call that leaves the log.
LEMMA HistoryStays ==
    ASSUME IngestionInv, HistoryInv, NEW c \in Callers, NEW v,
           UNCHANGED workerVars, Set(c, v), CallProgress(v, log), CallIndexed(v)
    PROVE  HistoryInv'
<1>1. UNCHANGED <<log, points, relations, documents>> /\ UNCHANGED <<stores, worker>>
  BY DEF workerVars, stores
<1>2. /\ \A p \in Created(log') : CutOf(log', p)
      /\ ViewOfLog(View, log)'
      /\ Created(log) \subseteq Created(log') /\ Removed(log) \subseteq Removed(log')
      /\ CallProgress(v, log')
  BY <1>1 DEF HistoryInv, View
<1>3. RevisionsKept(log, log')
  BY <1>1, LengthsTyped DEF RevisionsKept
<1>4. CallIndexed(v)'
  BY <1>1 DEF CallIndexed
<1> QED
  BY <1>1, <1>2, <1>3, <1>4, HistoryMoves DEF Set

Early == {"idle", "put", "write", "view", "find", "plan"}

\* Before the plan a call has made nothing.
LEMMA EarlyProgress ==
    ASSUME NEW v, v.step \in Early
    PROVE  CallIndexed(v) /\ \A l : CallProgress(v, l)
BY DEF Early, CallIndexed, CallProgress, IndexesWithin

\* The steps before the chunks of a revision are planned.
LEMMA EarlyKeepHistory ==
    ASSUME IngestionInv, HistoryInv, NEW c \in Callers,
           \/ Import(c) \/ Revise(c) \/ PutContent(c) \/ TombstoneResource(c)
           \/ StartIngest(c) \/ ViewResource(c) \/ FindRevision(c) \/ EndCall(c)
    PROVE  HistoryInv'
<1>1. UNCHANGED workerVars
  BY DEF Import, Revise, PutContent, TombstoneResource, StartIngest, ViewResource,
         FindRevision, EndCall
<1>2. ASSUME NEW v, v.step \in Early, Set(c, v)
      PROVE  HistoryInv'
  BY <1>1, <1>2, EarlyProgress, HistoryStays
<1>3. IdleCall.step = "idle" /\ IdleCall \in [step: {"idle"}, object: {None}, ops: {<<>>},
                                              base: {0}, revision: {0}, next: {1}]
  BY DEF IdleCall
<1>4. \A step, o, op : CallOf(step, o, op).step = step
  BY CallOfFields DEF WriteCall
<1>5. call[c] \in CallRecord
  BY DEF IngestionInv
<1>6. CASE Import(c) \/ Revise(c)
  <2>1. PICK o, op : Set(c, CallOf("put", o, op))
    BY <1>6 DEF Import, Revise
  <2>2. CallOf("put", o, op).step \in Early
    BY <1>4 DEF Early
  <2> QED
    BY <1>2, <2>1, <2>2
<1>7. CASE PutContent(c)
  <2>1. PICK v : v = [call[c] EXCEPT !.step = "write",
                        !.base = IF call[c].ops[1].kind = "create" THEN 0 ELSE Len(log)]
    OBVIOUS
  <2>2. Set(c, v)
    BY <1>7, <2>1 DEF PutContent
  <2>3. v.step \in Early
    BY <1>5, <2>1 DEF CallRecord, Early
  <2> QED
    BY <1>2, <2>2, <2>3
<1>8. CASE TombstoneResource(c)
  <2>1. PICK o : Set(c, [CallOf("write", o, TombstoneOp(o)) EXCEPT !.base = Len(log)])
    BY <1>8 DEF TombstoneResource
  <2>2. PICK v : v = [CallOf("write", o, TombstoneOp(o)) EXCEPT !.base = Len(log)]
    OBVIOUS
  <2>3. CallOf("write", o, TombstoneOp(o)) = WriteCall("write", o, TombstoneOp(o), 0)
    BY CallOfFields
  <2>4. v.step \in Early
    BY <2>2, <2>3 DEF WriteCall, Early
  <2> QED
    BY <1>2, <2>1, <2>2, <2>4
<1>9. CASE StartIngest(c)
  <2>1. PICK o, n : Set(c, ViewCall(o, n))
    BY <1>9 DEF StartIngest, ViewCall
  <2>2. ViewCall(o, n).step \in Early
    BY <1>3 DEF ViewCall, Early
  <2> QED
    BY <1>2, <2>1, <2>2
<1>10. CASE ViewResource(c)
  <2>1. PICK v : v = NextStep(call[c], "find", call[c].base)
    OBVIOUS
  <2>2. Goes(c, "find") /\ "find" \in Steps
    BY <1>10 DEF ViewResource, Steps
  <2>3. Set(c, v) /\ v.step = "find"
    BY <2>1, <2>2, CallGoesOn
  <2> QED
    BY <1>2, <2>3 DEF Early
<1>11. CASE FindRevision(c)
  <2>1. PICK n : Set(c, [call[c] EXCEPT !.step = "plan", !.revision = n])
    BY <1>11 DEF FindRevision
  <2>2. PICK v : v = [call[c] EXCEPT !.step = "plan", !.revision = n]
    OBVIOUS
  <2>3. v.step \in Early
    BY <1>5, <2>2 DEF CallRecord, Early
  <2> QED
    BY <1>2, <2>1, <2>2, <2>3
<1>12. CASE EndCall(c)
  <2>1. Set(c, IdleCall) /\ IdleCall.step \in Early
    BY <1>3, <1>12 DEF EndCall, Return, Early
  <2> QED
    BY <1>2, <2>1
<1> QED
  BY <1>6, <1>7, <1>8, <1>9, <1>10, <1>11, <1>12

\* Chunks that are taken for all of a revision are all of it.
LEMMA RebuiltIsWhole ==
    ASSUME OneSplit, IngestionInv, HistoryInv,
           NEW n \in DOMAIN RevisionsOf(log),
           NEW texts \in Splits[RevisionsOf(log)[n].content],
           NEW e, e = ExistingChunks(n), RebuiltOnly(e, texts),
           NEW i \in DOMAIN texts
    PROVE  \E j \in DOMAIN e :
                /\ e[j] = ChunkIds[n][i]
                /\ View.objects[e[j]].content
                        = ChunkContent(RevisionsOf(log)[n].object, texts[i])
<1> DEFINE ids == ChunkIds[n]
           L == Len(ids)
           M == Len(texts)
           I == {h \in DOMAIN ids : Active(View, ids[h])}
<1>1. n \in 1..MaxRevisions
  BY LengthsTyped, RevisionsAreOfLog
<1>2. /\ L \in Nat /\ DOMAIN ids = 1..L
      /\ \A h \in DOMAIN ids : ids[h] \in Chunks
  BY <1>1, ExistingTyped
<1>3. M \in Nat /\ DOMAIN texts = 1..M
  BY CutTyped
<1>4. I \in SUBSET (1..L) /\ e = At(ids, I)
  BY <1>2 DEF ExistingChunks
<1>5. ASSUME NEW h \in I
      PROVE  /\ h \in 1..M
             /\ View.objects[ids[h]].content
                    = ChunkContent(RevisionsOf(log)[n].object, texts[h])
  <2>1. h \in DOMAIN ChunkIds[n] /\ ChunkIds[n][h] \in Chunks /\ Present(View, ChunkIds[n][h])
    BY <1>2 DEF Active, Present
  <2>2. <<ChunkIds[n][h], View.objects[ChunkIds[n][h]].content>> \in Created(log)
    BY <2>1 DEF HistoryInv, ViewOfLog
  <2>3. \A p \in Created(log) : CutOf(log, p)
    BY DEF HistoryInv
  <2>4. PICK x : x = View.objects[ChunkIds[n][h]].content
    OBVIOUS
  <2>5. h \in DOMAIN texts /\ x = ChunkContent(RevisionsOf(log)[n].object, texts[h])
    BY <2>1, <2>2, <2>3, <2>4, CreatedIsCut
  <2> QED
    BY <1>3, <2>4, <2>5
<1> HIDE DEF I, ids, L
<1>6. Cardinality(I) \in Nat /\ DOMAIN e = 1..Cardinality(I)
  BY <1>2, <1>4, AtLength
<1>7. DOMAIN e = 1..M
  BY <1>3 DEF RebuiltOnly
<1> HIDE DEF M
<1>8. Cardinality(I) = M
  <2>1. CASE M = 0
    BY <1>6, <1>7, <2>1, <1>3
  <2>2. CASE M > 0
    BY <1>6, <1>7, <2>2, <1>3
  <2> QED
    BY <1>3, <2>1, <2>2
<1>9. I = 1..M
  <2>1. IsFiniteSet(1..M) /\ Cardinality(1..M) = M
    BY <1>3, FS_Interval
  <2>2. I \in SUBSET (1..M)
    BY <1>5
  <2> QED
    BY <1>8, <2>1, <2>2, FS_Subset
<1>10. \A h \in I : \E j \in 1..Cardinality(I) : e[j] = ids[h]
  <2>1. TakesFrom(At(ids, I), ids, I)
    BY <1>2, <1>4, AtElements
  <2> QED
    BY <1>4, <2>1 DEF TakesFrom
<1>11. PICK j \in DOMAIN e : e[j] = ids[i]
  BY <1>3, <1>6, <1>9, <1>10
<1>12. View.objects[ids[i]].content = ChunkContent(RevisionsOf(log)[n].object, texts[i])
  BY <1>3, <1>5, <1>9
<1> QED
  BY <1>11, <1>12 DEF ids


\* A planned call, field by field.
LEMMA PlanStepFields ==
    ASSUME NEW w \in CallRecord, NEW step \in Steps, NEW ops \in Seq(MutationOperation),
           NEW v, v = PlanStep(w, step, ops)
    PROVE  v.step = step /\ v.ops = ops /\ v.revision = w.revision /\ v.next = w.next
BY DEF PlanStep, CallRecord

\* A plan: all of the chunks of a revision, or none yet.
LEMMA PlanProgress ==
    ASSUME IngestionInv, HistoryInv, NEW c \in Callers, call[c].step = "plan",
           NEW ops \in Seq(MutationOperation), NEW step,
           \/ step = "head"
           \/ /\ step = "points" /\ Creates(Created(log), ops)
              /\ \E texts \in Splits[RevisionsOf(log)[call[c].revision].content] :
                    \A i \in DOMAIN texts : \E j \in DOMAIN ops :
                        PairOf(ops[j]) = PairOf(ChunkOp(log, call[c].revision, i, texts[i])),
           Set(c, PlanStep(call[c], step, ops)), UNCHANGED <<workerVars, cas, raced>>
    PROVE  HistoryInv'
<1>1. PICK w : w = call[c]
  OBVIOUS
<1>2. w \in CallRecord /\ w.next = 1
  BY <1>1 DEF IngestionInv, CallFits
<1>3. PICK v : v = PlanStep(w, step, ops)
  OBVIOUS
<1>4. step \in Steps
  BY DEF Steps
<1>5. v.step = step /\ v.ops = ops /\ v.revision = w.revision /\ v.next = 1
  BY <1>2, <1>3, <1>4, PlanStepFields
<1>6. Len(ops) \in Nat /\ DOMAIN ops = 1..Len(ops)
  BY LenProperties
<1>7. CallIndexed(v)
  BY <1>5 DEF CallIndexed
<1>8. IndexesWithin(Created(log), v)
  BY <1>5 DEF IndexesWithin, Creates
<1>9. v.step \in {"points", "documents", "indexed"} => Covers(v, log)
  BY <1>1, <1>5 DEF Covers
<1>10. \A j \in DOMAIN v.ops : ~(j < v.next)
  BY <1>5, <1>6
<1>11. CallProgress(v, log)
  BY <1>8, <1>9, <1>10 DEF CallProgress
<1> QED
  BY <1>1, <1>3, <1>7, <1>11, HistoryStays

\* A plan cuts the content of its revision.
LEMMA PlanKeepsHistory ==
    ASSUME OneSplit, IngestionInv, HistoryInv, NEW c \in Callers, PlanChunks(c)
    PROVE  HistoryInv'
<1> DEFINE w == call[c]
           n == w.revision
           e == ExistingChunks(n)
<1>1. /\ w.step = "plan" /\ UNCHANGED <<workerVars, cas, raced>>
      /\ w \in CallRecord /\ CallFits(w, log, cas)
  BY DEF IngestionInv, PlanChunks
<1>2. n \in DOMAIN RevisionsOf(log) /\ RevisionsOf(log)[n].object = w.object /\ Revisions = RevisionsOf(log)
  BY <1>1, RevisionsAreOfLog DEF CallFits
<1>3. n \in 1..MaxRevisions
  BY <1>2, LengthsTyped
<1>4. PICK texts \in Splits[Revisions[n].content] :
        IF RebuiltOnly(e, texts)
        THEN Set(c, [w EXCEPT !.step = "points", !.ops =
                [i \in DOMAIN e |-> CreateOp(e[i], View.objects[e[i]].content)]])
        ELSE Set(c, [w EXCEPT !.step = IF texts = <<>> THEN "points" ELSE NewChunks,
                              !.ops =
                [i \in DOMAIN texts |->
                    CreateOp(ChunkIds[n][i], ChunkContent(w.object, texts[i]))]])
  BY DEF PlanChunks
<1>5. texts \in Splits[RevisionsOf(log)[n].content]
  BY <1>2
<1>6. CASE RebuiltOnly(e, texts)
  <2> DEFINE ops == [i \in DOMAIN e |-> CreateOp(e[i], View.objects[e[i]].content)]
  <2>1. Set(c, PlanStep(w, "points", ops))
    BY <1>4, <1>6 DEF PlanStep
  <2>2. PICK m \in Nat : DOMAIN e = 1..m
    BY <1>3, ExistingTyped
  <2>3. ASSUME NEW i \in DOMAIN e
        PROVE  e[i] \in Chunks /\ <<e[i], View.objects[e[i]].content>> \in Created(log)
    <3>1. /\ \A j \in DOMAIN ChunkIds[n] : ChunkIds[n][j] \in Chunks
          /\ \A h \in DOMAIN e : \E j \in DOMAIN ChunkIds[n] :
                e[h] = ChunkIds[n][j] /\ Active(View, e[h])
      BY <1>3, ExistingTyped
    <3>2. e[i] \in Chunks /\ Present(View, e[i])
      BY <3>1 DEF Active, Present
    <3> QED
      BY <3>2 DEF HistoryInv, ViewOfLog
  <2>4. /\ DOMAIN ops = 1..m /\ ops = [i \in 1..m |-> ops[i]] /\ DOMAIN ops = DOMAIN e
        /\ \A i \in DOMAIN e : ops[i] = CreateOp(e[i], View.objects[e[i]].content)
    BY <2>2
  <2>5. \A i \in DOMAIN texts : \E j \in DOMAIN e :
            /\ e[j] = ChunkIds[n][i]
            /\ View.objects[e[j]].content
                    = ChunkContent(RevisionsOf(log)[n].object, texts[i])
    BY <1>2, <1>5, <1>6, RebuiltIsWhole
  <2> HIDE DEF e, ops
  <2>6. \A i \in DOMAIN e : ops[i].kind = "create" /\ PairOf(ops[i]) = <<e[i], View.objects[e[i]].content>>
                            /\ ops[i].object = e[i] /\ ops[i].content = View.objects[e[i]].content
    <3>1. ASSUME NEW k, NEW x, NEW op, op = CreateOp(k, x)
          PROVE  op.kind = "create" /\ op.object = k /\ op.content = x /\ PairOf(op) = <<k, x>>
      BY <3>1 DEF CreateOp, PairOf
    <3>2. ASSUME NEW i \in DOMAIN e
          PROVE  /\ ops[i].kind = "create" /\ PairOf(ops[i]) = <<e[i], View.objects[e[i]].content>>
                 /\ ops[i].object = e[i] /\ ops[i].content = View.objects[e[i]].content
      <4>1. PICK k : k = e[i]
        OBVIOUS
      <4>2. PICK x : x = View.objects[e[i]].content
        OBVIOUS
      <4>3. PICK op : op = ops[i]
        OBVIOUS
      <4>4. op = CreateOp(k, x)
        BY <2>4, <4>1, <4>2, <4>3
      <4> QED
        BY <3>1, <4>1, <4>2, <4>3, <4>4
    <3> QED
      BY <3>2
  <2>7. Creates(Created(log), ops)
    BY <2>3, <2>4, <2>6 DEF Creates
  <2>8. ops \in Seq(MutationOperation)
    <3>1. \A i \in 1..m : \E k \in Chunks, content \in Content : ops[i] = CreateOp(k, content)
      <4>1. ASSUME NEW i \in 1..m
            PROVE  \E k \in Chunks, content \in Content : ops[i] = CreateOp(k, content)
        <5>1. <<e[i], View.objects[e[i]].content>> \in AnyChunk
          BY <2>2, <2>3 DEF Created
        <5>2. e[i] \in Chunks /\ View.objects[e[i]].content \in Content
          BY <5>1 DEF AnyChunk
        <5> QED
          BY <2>2, <2>4, <5>2
      <4> QED
        BY <4>1
    <3> QED
      BY <2>4, <3>1, CreatesTyped
  <2>9. \A i \in DOMAIN texts : \E j \in DOMAIN ops :
            PairOf(ops[j]) = PairOf(ChunkOp(log, n, i, texts[i]))
    <3>1. ASSUME NEW i \in DOMAIN texts
          PROVE  \E j \in DOMAIN ops : PairOf(ops[j]) = PairOf(ChunkOp(log, n, i, texts[i]))
      <4>1. PICK j \in DOMAIN e :
                /\ e[j] = ChunkIds[n][i]
                /\ View.objects[e[j]].content
                        = ChunkContent(RevisionsOf(log)[n].object, texts[i])
        BY <2>5
      <4>2. PairOf(ChunkOp(log, n, i, texts[i]))
                = <<ChunkIds[n][i], ChunkContent(RevisionsOf(log)[n].object, texts[i])>>
        BY DEF PairOf, ChunkOp, CreateOp
      <4> QED
        BY <2>4, <2>6, <4>1, <4>2
    <3> QED
      BY <3>1
  <2> QED
    BY <1>1, <1>5, <2>1, <2>7, <2>8, <2>9, PlanProgress
<1>7. CASE ~RebuiltOnly(e, texts)
  <2> DEFINE ops == [i \in DOMAIN texts |->
                        CreateOp(ChunkIds[n][i], ChunkContent(w.object, texts[i]))]
             step == IF texts = <<>> THEN "points" ELSE "head"
  <2>1. Set(c, PlanStep(w, step, ops))
    BY <1>4, <1>7 DEF PlanStep, NewChunks
  <2>2. ops = [i \in DOMAIN texts |-> ChunkOp(log, n, i, texts[i])]
    BY <1>2 DEF ChunkOp
  <2>3. DOMAIN ops = DOMAIN texts
    OBVIOUS
  <2> HIDE DEF ops
  <2>4. ops \in Seq(MutationOperation)
    BY <1>2, <1>5, <2>2, CutTyped
  <2>5. texts = <<>> => DOMAIN texts = {}
    OBVIOUS
  <2>6. \/ step = "head"
        \/ step = "points" /\ DOMAIN texts = {} /\ DOMAIN ops = {}
    BY <2>3, <2>5
  <2> HIDE DEF step
  <2>7. DOMAIN ops = {} => Creates(Created(log), ops)
    BY DEF Creates
  <2> QED
    BY <1>1, <1>5, <2>1, <2>4, <2>6, <2>7, PlanProgress
<1> QED
  BY <1>6, <1>7

\* Reading the head makes nothing.
LEMMA HeadKeepsHistory ==
    ASSUME IngestionInv, HistoryInv, NEW c \in Callers, ChunkHead(c)
    PROVE  HistoryInv'
<1>1. PICK v : v = NextStep(call[c], "chunk", Len(log))
  OBVIOUS
<1>2. call[c].step = "head" /\ Set(c, v) /\ UNCHANGED workerVars /\ "chunk" \in Steps
  BY <1>1 DEF ChunkHead, NextStep, Steps
<1>3. /\ v.step = "chunk" /\ v.ops = call[c].ops
      /\ v.revision = call[c].revision /\ v.next = call[c].next
  BY <1>1, <1>2, CallGoesOn
<1>4. CallProgress(call[c], log)
  BY DEF HistoryInv
<1>5. CallProgress(v, log) /\ CallIndexed(v)
  BY <1>2, <1>3, <1>4 DEF CallProgress, CallIndexed, IndexesWithin
<1> QED
  BY <1>2, <1>5, HistoryStays

\* What touches a chunk has created it.
LEMMA KeyOfChunk ==
    ASSUME NEW k \in Chunks, NEW op \in MutationOperation, <<"object", k>> \in ConflictKeys(op)
    PROVE  op.kind = "create" /\ op.object = k /\ op.content \in Content /\ op = CreateOp(k, op.content)
<1>1. Kind[k] = "resource_chunk" /\ k \in Objects
  BY DEF Chunks, OfKind
<1>2. PICK key : key = <<"object", k>>
  OBVIOUS
<1>3. key[1] = "object" /\ key[2] = k
  BY <1>2
<1>4. \A content : RelationSlot(content) # key
  <2>1. ASSUME NEW content, NEW slot, slot = RelationSlot(content)
        PROVE  slot # key
    <3>1. slot[1] = "relation"
      BY <2>1 DEF RelationSlot
    <3> QED
      BY <1>3, <3>1
  <2> QED
    BY <2>1
<1>5. op.kind \in {"create", "update", "tombstone", "replace"}
  BY DEF MutationOperation
<1>6. op.object = k
  <2>1. CASE op.kind = "create" /\ Kind[op.object] = "memory_entity_branch"
    <3>1. PICK other : other = <<"entity-branch", op.content.source>>
      OBVIOUS
    <3>2. other[1] = "entity-branch"
      BY <3>1
    <3>3. ConflictKeys(op) = {other}
      BY <2>1, <3>1 DEF ConflictKeys
    <3> QED
      BY <1>2, <1>3, <3>2, <3>3
  <2>2. CASE op.kind = "create" /\ Kind[op.object] = "memory_relation"
    <3>1. ConflictKeys(op) = {<<"object", op.object>>, RelationSlot(op.content)}
      BY <2>2 DEF ConflictKeys
    <3> QED
      BY <1>2, <1>4, <3>1
  <2>3. CASE op.kind = "replace"
    <3>1. ConflictKeys(op) = {<<"object", op.object>>, <<"object", op.by>>, RelationSlot(op.content)}
      BY <2>3 DEF ConflictKeys
    <3>2. Kind[op.by] = "memory_relation"
      BY <2>3 DEF MutationOperation, OfKind
    <3> QED
      BY <1>1, <1>2, <1>4, <3>1, <3>2
  <2>4. CASE /\ ~(op.kind = "create" /\ Kind[op.object] = "memory_entity_branch")
             /\ ~(op.kind = "create" /\ Kind[op.object] = "memory_relation")
             /\ op.kind # "replace"
    <3>1. ConflictKeys(op) = {<<"object", op.object>>}
      BY <1>5, <2>4 DEF ConflictKeys
    <3> QED
      BY <3>1
  <2> QED
    BY <2>1, <2>2, <2>3, <2>4
<1>7. op.kind = "create"
  BY <1>1, <1>5, <1>6 DEF MutationOperation, OfKind
<1> QED
  BY <1>6, <1>7 DEF MutationOperation, CreateOp

\* A chunk that conflicts has been created.
LEMMA ConflictIsCreated ==
    ASSUME IngestionInv, NEW k \in Chunks, NEW op, op.kind = "create", op.object = k,
           NEW base \in Nat, ConflictsSince(base, <<op>>)
    PROVE  \E y : <<k, y>> \in Created(log)
<1> DEFINE s == <<op>>
<1>1. Kind[k] = "resource_chunk" /\ k \in Objects
  BY DEF Chunks, OfKind
<1>2. ConflictKeys(op) = {<<"object", k>>}
  BY <1>1 DEF ConflictKeys
<1>3. KeysOf(s) = {<<"object", k>>}
  <2>1. DOMAIN s = {1} /\ s[1] = op
    OBVIOUS
  <2> HIDE DEF s
  <2> QED
    BY <1>2, <2>1 DEF KeysOf
<1>4. PICK i \in (base + 1)..Len(log) : KeysOf(log[i].ops) \cap KeysOf(s) # {}
  BY DEF ConflictsSince
<1>5. <<"object", k>> \in KeysOf(log[i].ops)
  BY <1>3, <1>4
<1>6. PICK j \in DOMAIN log[i].ops : <<"object", k>> \in ConflictKeys(log[i].ops[j])
  BY <1>5 DEF KeysOf
<1>7. log \in Seq(LogCommit) /\ Len(log) \in Nat /\ i \in 1..Len(log) /\ DOMAIN log = 1..Len(log)
  BY LengthsTyped, LenProperties DEF IngestionInv, LogTyped
<1>8. log[i] \in LogCommit
  BY <1>7, ElementOfSeq
<1>9. PICK ops : ops = log[i].ops
  OBVIOUS
<1>10. ops \in Seq(MutationOperation)
  BY <1>8, <1>9 DEF LogCommit
<1>11. ops[j] \in MutationOperation
  BY <1>6, <1>9, <1>10, ElementOfSeq, LenProperties
<1>12. PICK other : other = ops[j]
  OBVIOUS
<1>13. other.content \in Content /\ other = CreateOp(k, other.content)
  BY <1>6, <1>9, <1>11, <1>12, KeyOfChunk
<1>14. PICK p : p = <<k, other.content>>
  OBVIOUS
<1>15. p \in AnyChunk /\ log[i].ops[j] = CreateOp(p[1], p[2])
  BY <1>9, <1>12, <1>13, <1>14 DEF AnyChunk
<1>16. p \in Created(log)
  BY <1>6, <1>7, <1>15 DEF Created
<1> QED
  BY <1>14, <1>16

\* The chunk a call writes is in the history afterwards, whoever wrote it.
LEMMA ChunkIsWritten ==
    ASSUME OneSplit, IngestionInv, HistoryInv, NEW c \in Callers, WriteChunk(c),
           NEW op, op = call[c].ops[call[c].next]
    PROVE  /\ \A p \in Created(log') : CutOf(log', p)
           /\ ViewOfLog(View, log)'
           /\ Created(log) \subseteq Created(log') /\ Removed(log) \subseteq Removed(log')
           /\ RevisionsKept(log, log')
           /\ PairOf(op) \in Created(log')
<1>1. PICK w : w = call[c]
  OBVIOUS
<1>2. PICK n : n = w.revision
  OBVIOUS
<1>3. w \in CallRecord /\ CallFits(w, log, cas) /\ w.step = "chunk" /\ UNCHANGED cas
  BY <1>1 DEF IngestionInv, WriteChunk
<1>4. w.next \in 1..Len(w.ops) /\ IsCut(log, n, w.ops) /\ n \in DOMAIN RevisionsOf(log) /\ w.base \in Nat
  BY <1>2, <1>3 DEF CallFits, CallRecord
<1>5. PICK texts \in Splits[RevisionsOf(log)[n].content] :
        w.ops = [i \in DOMAIN texts |-> ChunkOp(log, n, i, texts[i])]
  BY <1>4 DEF IsCut
<1>6. op \in MutationOperation /\ op.kind = "create" /\ op.object \in Chunks /\ ~Revising(op)
  BY <1>1, <1>3, ChunkToWrite
<1>7. /\ w.next \in DOMAIN texts /\ w.next \in DOMAIN ChunkIds[n]
      /\ Len(texts) \in Nat /\ DOMAIN texts = 1..Len(texts)
  <2>1. Len(w.ops) = Len(texts) /\ Len(texts) \in Nat /\ DOMAIN texts = 1..Len(texts)
    BY <1>4, <1>5, CutTyped
  <2>2. w.next \in DOMAIN texts
    BY <1>4, <2>1
  <2> QED
    BY <1>4, <2>1, <2>2, CutTyped
<1>8. op = ChunkOp(log, n, w.next, texts[w.next])
  BY <1>1, <1>5, <1>7
<1>9. CASE Accepts(w.base, <<op>>) /\ Accept(<<op>>)
  <2>1. RevisionsKept(log, log')
    BY <1>3, <1>6, <1>9, AcceptedIsHeld DEF IngestionInv
  <2>2. CutOf(log, PairOf(op))
    BY <1>4, <1>5, <1>7, <1>8 DEF CutOf
  <2>3. op.kind # "replace"
    BY <1>6
  <2> QED
    BY <1>6, <1>9, <2>1, <2>2, <2>3, HistoryGrows
<1>10. CASE ConflictsSince(w.base, <<op>>) /\ UNCHANGED log
  <2>1. PICK y : <<op.object, y>> \in Created(log)
    BY <1>4, <1>6, <1>10, ConflictIsCreated
  <2>2. op.object = ChunkIds[n][w.next]
    BY <1>8 DEF ChunkOp, CreateOp
  <2>3. op.content = ChunkContent(RevisionsOf(log)[n].object, texts[w.next])
    BY <1>8 DEF ChunkOp, CreateOp
  <2>4. \A p \in Created(log) : CutOf(log, p)
    BY DEF HistoryInv
  <2>5. y = ChunkContent(RevisionsOf(log)[n].object, texts[w.next])
    BY <1>4, <1>7, <2>1, <2>2, <2>4, CreatedIsCut
  <2>6. PairOf(op) \in Created(log)
    BY <2>1, <2>3, <2>5 DEF PairOf
  <2>7. RevisionsKept(log, log')
    BY <1>10, LengthsTyped DEF RevisionsKept
  <2>8. View' = View
    BY <1>10 DEF View
  <2>9. ViewOfLog(View, log)'
    BY <1>10, <2>8 DEF HistoryInv
  <2> QED
    BY <1>10, <2>4, <2>6, <2>7, <2>9
<1> QED
  BY <1>1, <1>9, <1>10 DEF WriteChunk

\* A chunk that is created, or that the history has already.
LEMMA WriteChunkKeepsHistory ==
    ASSUME OneSplit, IngestionInv, HistoryInv, NEW c \in Callers, WriteChunk(c)
    PROVE  HistoryInv'
<1>1. PICK w : w = call[c]
  OBVIOUS
<1>2. PICK n : n = w.revision
  OBVIOUS
<1>3. PICK op : op = w.ops[w.next]
  OBVIOUS
<1>4. PICK v : v = AfterChunk(w)
  OBVIOUS
<1>5. PICK m : m = log'
  OBVIOUS
<1>6. PICK S : S = Created(m)
  OBVIOUS
<1>7. /\ w \in CallRecord /\ CallFits(w, log, cas) /\ w.step = "chunk"
      /\ CallProgress(w, log) /\ UNCHANGED <<stores, worker>> /\ Set(c, v)
  BY <1>1, <1>4 DEF IngestionInv, HistoryInv, WriteChunk, AfterChunk
<1>8. /\ \A p \in Created(log') : CutOf(log', p)
      /\ ViewOfLog(View, log)'
      /\ Created(log) \subseteq Created(log') /\ Removed(log) \subseteq Removed(log')
      /\ RevisionsKept(log, log')
      /\ PairOf(op) \in Created(log')
  BY <1>1, <1>3, ChunkIsWritten
<1>9. /\ w.next \in 1..Len(w.ops) /\ IsCut(log, n, w.ops) /\ n \in DOMAIN RevisionsOf(log)
      /\ w.ops \in Seq(MutationOperation)
  BY <1>2, <1>7 DEF CallFits, CallRecord
<1>10. Len(w.ops) \in Nat /\ DOMAIN w.ops = 1..Len(w.ops)
  BY <1>9, LenProperties
<1>11. Creates(AnyChunk, w.ops)
  BY <1>1, <1>3, <1>7, ChunkToWrite
<1>12. /\ v.ops = w.ops /\ v.revision = n
       /\ \/ w.next = Len(w.ops) /\ v.step = "points" /\ v.next = 1
          \/ v.step = "head" /\ v.next = w.next + 1
  BY <1>2, <1>4, <1>7, <1>9, AfterChunkFields
<1>13. \A j \in DOMAIN w.ops : j <= w.next => PairOf(w.ops[j]) \in S
  <2>1. \A j \in DOMAIN w.ops : j < w.next => PairOf(w.ops[j]) \in Created(log)
    BY <1>7 DEF CallProgress
  <2>2. \A j \in DOMAIN w.ops : j <= w.next => j < w.next \/ j = w.next
    BY <1>9, <1>10
  <2> QED
    BY <1>3, <1>5, <1>6, <1>8, <2>1, <2>2
<1>14. IndexesWithin(S, v)
  <2>1. CASE v.step = "head"
    BY <2>1 DEF IndexesWithin
  <2>2. CASE v.step = "points" /\ w.next = Len(w.ops)
    <3>1. \A j \in DOMAIN w.ops : j <= w.next
      BY <1>10, <2>2
    <3>2. \A j \in DOMAIN w.ops : <<w.ops[j].object, w.ops[j].content>> \in S
      BY <1>13, <3>1 DEF PairOf
    <3> QED
      BY <1>11, <1>12, <3>2 DEF IndexesWithin, Creates
  <2> QED
    BY <1>12, <2>1, <2>2
<1>15. \A j \in DOMAIN v.ops : v.step = "head" /\ j < v.next => PairOf(v.ops[j]) \in S
  <2>1. ASSUME NEW j \in DOMAIN w.ops, v.step = "head", j < v.next
        PROVE  j <= w.next
    BY <1>9, <1>10, <1>12, <2>1
  <2> QED
    BY <1>12, <1>13, <2>1
<1>16. Covers(v, m)
  <2>1. PICK texts \in Splits[RevisionsOf(log)[n].content] :
            w.ops = [i \in DOMAIN texts |-> ChunkOp(log, n, i, texts[i])]
    BY <1>9 DEF IsCut
  <2>2. RevisionsOf(m)[n] = RevisionsOf(log)[n]
    BY <1>5, <1>8, <1>9 DEF RevisionsKept
  <2>3. \A i \in DOMAIN texts : i \in DOMAIN w.ops /\ w.ops[i] = ChunkOp(m, n, i, texts[i])
    BY <2>1, <2>2 DEF ChunkOp
  <2> QED
    BY <1>12, <2>1, <2>2, <2>3 DEF Covers
<1>17. CallProgress(v, m)
  <2>1. v.step # "chunk"
    BY <1>12
  <2> QED
    BY <1>6, <1>14, <1>15, <1>16, <2>1 DEF CallProgress
<1>18. CallIndexed(v)'
  BY <1>12 DEF CallIndexed
<1>19. call' = [call EXCEPT ![c] = v] /\ CallProgress(v, log')
  BY <1>5, <1>7, <1>17 DEF Set
<1> QED
  BY <1>7, <1>8, <1>18, <1>19, HistoryMoves

\* A resource that is created, revised or removed creates no chunk.
LEMMA WriteResourceKeepsHistory ==
    ASSUME IngestionInv, HistoryInv, NEW c \in Callers, WriteResource(c)
    PROVE  HistoryInv'
<1> DEFINE w == call[c]
<1>1. w \in CallRecord /\ CallFits(w, log, cas) /\ w.step = "write"
  BY DEF IngestionInv, WriteResource
<1>2. PICK op : w.ops = <<op>> /\ WritesResource(op, w.object)
  BY <1>1 DEF CallFits
<1>3. /\ op \in MutationOperation /\ op.object = w.object /\ w.object \in Resources
      /\ op.kind \in {"create", "update", "tombstone"}
      /\ Revising(op) <=> op.kind # "tombstone"
      /\ op.kind # "tombstone" => op.content.value \in Contents /\ op.content.value \in cas
  BY <1>1, <1>2, ResourceWriteTyped DEF CallFits
<1>4. /\ UNCHANGED <<stores, worker, cas>>
      /\ \/ /\ Accepts(w.base, <<op>>) /\ Accept(<<op>>)
            /\ (op.kind = "tombstone" \/ Len(Revisions) < MaxRevisions)
         \/ UNCHANGED log
      /\ \E n : AfterWrite(c, n)
  BY <1>2 DEF WriteResource
<1>5. /\ \A p \in Created(log') : CutOf(log', p)
      /\ ViewOfLog(View, log)'
      /\ Created(log) \subseteq Created(log') /\ Removed(log) \subseteq Removed(log')
      /\ RevisionsKept(log, log')
  <2>1. CASE /\ Accepts(w.base, <<op>>) /\ Accept(<<op>>)
             /\ (op.kind = "tombstone" \/ Len(Revisions) < MaxRevisions)
    <3>1. RevisionsKept(log, log')
      BY <1>3, <1>4, <2>1, AcceptedIsHeld DEF IngestionInv
    <3>2. op.kind # "replace" /\ op.object \notin Chunks
      BY <1>3 DEF Resources, Chunks, OfKind
    <3> QED
      BY <1>3, <2>1, <3>1, <3>2, HistoryGrows
  <2>2. CASE UNCHANGED log
    <3>1. RevisionsKept(log, log')
      BY <2>2, LengthsTyped DEF RevisionsKept
    <3>2. View' = View
      BY <2>2 DEF View
    <3> QED
      BY <2>2, <3>1, <3>2 DEF HistoryInv
  <2> QED
    BY <1>4, <2>1, <2>2
<1>6. PICK v : Set(c, v) /\ v.step \in Early
  <2>1. IdleCall \in [step: {"idle"}, object: {None}, ops: {<<>>},
                      base: {0}, revision: {0}, next: {1}]
    BY DEF IdleCall
  <2>2. IdleCall.step \in Early /\ \A o, n : ViewCall(o, n).step = "view"
    BY <2>1 DEF ViewCall, Early
  <2>3. Set(c, IdleCall) \/ \E n : Set(c, ViewCall(w.object, n))
    BY <1>4 DEF AfterWrite, Return, ViewCall
  <2> QED
    BY <2>2, <2>3 DEF Early
<1>7. CallProgress(v, log') /\ CallIndexed(v)'
  <2>1. CallProgress(v, log')
    BY <1>6, EarlyProgress
  <2> QED
    BY <1>6, <2>1 DEF CallIndexed, Early
<1>8. call' = [call EXCEPT ![c] = v]
  BY <1>6 DEF Set
<1> QED
  BY <1>4, <1>5, <1>7, <1>8, HistoryMoves

\* The log has what it created and removed.
LEMMA LogIsWithin ==
    ASSUME LogTyped, NEW S, S = Created(log), NEW R, R = Removed(log)
    PROVE  log \in Seq(CommitWithin(S, R))
<1> DEFINE L == Len(log)
<1>1. L \in Nat /\ DOMAIN log = 1..L /\ log \in Seq(LogCommit)
  BY LenProperties DEF LogTyped
<1>2. ASSUME NEW i \in 1..L
      PROVE  log[i] \in CommitWithin(S, R)
  <2>1. log[i] \in LogCommit
    BY <1>1, ElementOfSeq
  <2>2. PICK ops \in Seq(MutationOperation) : ops = log[i].ops
    BY <2>1 DEF LogCommit
  <2>3. PICK m \in Nat : m = Len(ops) /\ DOMAIN ops = 1..m /\ ops = [j \in 1..m |-> ops[j]]
    BY LenProperties
  <2>4. ASSUME NEW j \in 1..m
        PROVE  ops[j] \in Within(S, R)
    <3>1. PICK op \in MutationOperation : op = ops[j]
      BY <2>3, ElementOfSeq
    <3>2. i \in DOMAIN log /\ j \in DOMAIN log[i].ops /\ log[i].ops[j] = op
      BY <1>1, <2>2, <2>3, <3>1
    <3>3. ASSUME op.kind = "create", op.object \in Chunks
          PROVE  <<op.object, op.content>> \in S
      <4>1. op.content \in Content /\ op = CreateOp(op.object, op.content)
        BY <3>3 DEF MutationOperation, CreateOp
      <4>2. PICK p : p = <<op.object, op.content>>
        OBVIOUS
      <4>3. p \in AnyChunk /\ log[i].ops[j] = CreateOp(p[1], p[2])
        BY <3>2, <3>3, <4>1, <4>2 DEF AnyChunk
      <4> QED
        BY <3>2, <4>2, <4>3 DEF Created
    <3>4. ASSUME op.kind = "tombstone", op.object \in Resources
          PROVE  op.object \in R
      <4>1. op = TombstoneOp(op.object)
        BY <3>4 DEF MutationOperation, TombstoneOp
      <4> QED
        BY <3>2, <3>4, <4>1 DEF Removed
    <3> QED
      BY <3>1, <3>3, <3>4 DEF Within
  <2>5. ops \in [1..m -> Within(S, R)]
    BY <2>3, <2>4
  <2>6. ops \in Seq(Within(S, R))
    BY <2>5, FunctionIsSeq
  <2> QED
    BY <2>1, <2>2, <2>6 DEF LogCommit, CommitWithin
<1>3. log \in [1..L -> CommitWithin(S, R)]
  <2>1. log = [i \in 1..L |-> log[i]]
    BY <1>1
  <2> QED
    BY <1>2, <2>1
<1> HIDE DEF L
<1> QED
  BY <1>1, <1>3, FunctionIsSeq

\* A write of a projection leaves what a call has indexed.
LEMMA ProjectionKeepsIndexed ==
    ASSUME OneSplit, IngestionInv, HistoryInv,
           NEW w \in Projected(Created(log), Removed(log)), Written(w),
           NEW k, NEW x, <<k, x>> \in Created(log)
    PROVE  /\ \/ points[k] = x
              \/ x.source \in Removed(log)
              => points'[k] = x \/ x.source \in Removed(log)
           /\ documents[k] = x => documents'[k] = x
<1>1. /\ points \in [Vectors -> StoredContent] /\ documents \in [Chunks -> StoredContent]
      /\ \A p \in Created(log) : CutOf(log, p)
  BY DEF HistoryInv, WorkerWithin, StoresWithin
<1>2. k \in Chunks /\ k \in Vectors
  BY DEF Created, AnyChunk, Chunks, Vectors, OfKind
<1>3. \A y : <<k, y>> \in Created(log) => y = x
  BY <1>1, CreatedOnce
<1>4. points' = PointsAfter(w) /\ documents' = DocumentsAfter(w)
  BY DEF Written
<1>5. ASSUME points[k] = x
      PROVE  points'[k] = x \/ x.source \in Removed(log)
  <2>1. CASE w.do = "upsert" /\ w.object = k
    <3>1. w.content = x
      BY <1>2, <1>3, <2>1 DEF Projected
    <3>2. points' = [points EXCEPT ![k] = x]
      BY <1>4, <2>1, <3>1 DEF PointsAfter
    <3> QED
      BY <1>1, <1>2, <3>2
  <2>2. CASE w.do = "remove" /\ w.object = k
    <3>1. SourceIn(Created(log), Removed(log), k)
      BY <1>2, <2>2 DEF Projected
    <3> QED
      BY <1>3, <3>1 DEF SourceIn
  <2>3. CASE ~(w.do \in {"upsert", "remove"} /\ w.object = k)
    BY <1>1, <1>2, <1>4, <1>5, <2>3 DEF PointsAfter
  <2> QED
    BY <2>1, <2>2, <2>3
<1>6. ASSUME documents[k] = x
      PROVE  documents'[k] = x
  <2>1. CASE w.do = "document" /\ w.object = k
    <3>1. w.content = x
      BY <1>2, <1>3, <2>1 DEF Projected
    <3>2. documents' = [documents EXCEPT ![k] = x]
      BY <1>4, <2>1, <3>1 DEF DocumentsAfter
    <3> QED
      BY <1>1, <1>2, <3>2
  <2>2. CASE ~(w.do = "document" /\ w.object = k)
    BY <1>1, <1>2, <1>4, <1>6, <2>2 DEF DocumentsAfter
  <2> QED
    BY <2>1, <2>2
<1> QED
  BY <1>5, <1>6

\* A step of the worker beside the calls.
LEMMA WorkerKeepsHistory ==
    ASSUME OneSplit, IngestionInv, HistoryInv, WorkerNext, UNCHANGED serviceVars
    PROVE  HistoryInv'
<1>1. PICK S : S = Created(log)
  OBVIOUS
<1>2. PICK R : R = Removed(log)
  OBVIOUS
<1>3. UNCHANGED <<log, call>>
  BY DEF WorkerNext, StartProject, ProjectNext, FinishProject, FailProject, serviceVars
<1>4. WorkerWithin(S, R)'
  <2>1. log \in Seq(CommitWithin(S, R))
    BY <1>1, <1>2, LogIsWithin DEF IngestionInv
  <2>2. watermark \in Nat /\ WorkerWithin(S, R)
    BY <1>1, <1>2, LengthsTyped DEF IngestionInv, HistoryInv
  <2> QED
    BY <2>1, <2>2, WorkerKeepsWithin
<1>5. WorkerWithin(Created(log), Removed(log))'
  <2>1. Created(log)' = S /\ Removed(log)' = R
    BY <1>1, <1>2, <1>3
  <2> QED
    BY <1>4, <2>1 DEF WorkerWithin, StoresWithin
<1>6. /\ \A p \in Created(log') : CutOf(log', p)
      /\ ViewOfLog(View, log)'
  <2>1. View' = View
    BY <1>3 DEF View
  <2> QED
    BY <1>3, <2>1 DEF HistoryInv
<1>7. ASSUME NEW k, NEW x, <<k, x>> \in S
      PROVE  /\ points[k] = x \/ x.source \in R => points'[k] = x \/ x.source \in R
             /\ documents[k] = x => documents'[k] = x
  <2>1. CASE UNCHANGED stores
    BY <2>1 DEF stores
  <2>2. ASSUME NEW c \in Projectors, ProjectNext(c)
        PROVE  /\ points[k] = x \/ x.source \in R => points'[k] = x \/ x.source \in R
               /\ documents[k] = x => documents'[k] = x
    <3>1. PICK w : w = Head(project[c].todo) /\ Written(w) /\ project[c].todo # <<>>
      BY <2>2 DEF ProjectNext
    <3>2. project[c].todo \in Seq(Projected(S, R))
      BY <1>1, <1>2 DEF HistoryInv, WorkerWithin, ProjectCall
    <3>3. w \in Projected(S, R)
      BY <3>1, <3>2, HeadTailProperties
    <3> QED
      BY <1>1, <1>2, <1>7, <3>1, <3>3, ProjectionKeepsIndexed
  <2> QED
    BY <2>1, <2>2 DEF WorkerNext, StartProject, FinishProject, FailProject
<1>8. ASSUME NEW c \in Callers
      PROVE  CallProgress(call'[c], log') /\ CallIndexed(call[c])'
  <2>1. PICK w : w = call[c]
    OBVIOUS
  <2>2. call'[c] = w /\ CallProgress(w, log) /\ CallIndexed(w)
    BY <1>3, <2>1 DEF HistoryInv
  <2>3. w.step \in {"documents", "indexed"} => \A j \in DOMAIN w.ops :
            <<w.ops[j].object, w.ops[j].content>> \in S
    BY <1>1, <2>2 DEF CallProgress, IndexesWithin
  <2>4. w.step \in {"documents", "indexed"} => \A j \in DOMAIN w.ops :
            points'[w.ops[j].object] = w.ops[j].content \/ w.ops[j].content.source \in R
    BY <1>2, <1>7, <2>2, <2>3 DEF CallIndexed
  <2>5. w.step = "indexed" => \A j \in DOMAIN w.ops :
            documents'[w.ops[j].object] = w.ops[j].content
    BY <1>7, <2>2, <2>3 DEF CallIndexed
  <2> QED
    BY <1>2, <1>3, <2>2, <2>4, <2>5 DEF CallIndexed
<1> QED
  BY <1>5, <1>6, <1>8 DEF HistoryInv

Indexes(S, ops) == \A j \in DOMAIN ops : <<ops[j].object, ops[j].content>> \in S

\* What a store has of a chunk once some of the created ones are indexed.
LEMMA IndexedOnce ==
    ASSUME OneSplit, IngestionInv, \A p \in Created(log) : CutOf(log, p),
           NEW ops, Indexes(Created(log), ops),
           NEW k, NEW x, <<k, x>> \in Created(log), NEW store,
           NEW y, y = IndexedBy(store, ops, k)
    PROVE  /\ (\E i \in DOMAIN ops : ops[i].object = k) => y = x
           /\ ~(\E i \in DOMAIN ops : ops[i].object = k) => y = store[k]
<1>1. ASSUME \E i \in DOMAIN ops : ops[i].object = k
      PROVE  y = x
  <2> DEFINE op == CHOOSE op \in Range(ops) : op.object = k
  <2>1. op \in Range(ops) /\ op.object = k
    BY <1>1 DEF Range
  <2>2. PICK i \in DOMAIN ops : op = ops[i]
    BY <2>1 DEF Range
  <2>3. y = op.content
    BY <1>1 DEF IndexedBy
  <2> HIDE DEF op
  <2>4. <<k, y>> \in Created(log)
    BY <2>1, <2>2, <2>3 DEF Indexes
  <2> QED
    BY <2>4, CreatedOnce
<1> QED
  BY <1>1 DEF IndexedBy

\* Documents that replace those of a revision have all that was created of it.
LEMMA ReplacedHasAll ==
    ASSUME OneSplit, IngestionInv, HistoryInv, NEW c \in Callers,
           call[c].step = "documents",
           NEW k, NEW x, <<k, x>> \in Created(log), k \in Range(ChunkIds[call[c].revision])
    PROVE  \E j \in DOMAIN call[c].ops : call[c].ops[j].object = k
<1>1. PICK w : w = call[c]
  OBVIOUS
<1>2. PICK n : n = w.revision
  OBVIOUS
<1>3. n \in DOMAIN RevisionsOf(log) /\ Covers(w, log) /\ \A p \in Created(log) : CutOf(log, p)
  BY <1>1, <1>2 DEF IngestionInv, HistoryInv, CallFits, CallProgress
<1>4. PICK texts \in Splits[RevisionsOf(log)[n].content] : \A i \in DOMAIN texts :
        \E j \in DOMAIN w.ops : PairOf(w.ops[j]) = PairOf(ChunkOp(log, n, i, texts[i]))
  BY <1>2, <1>3 DEF Covers
<1>5. PICK i \in DOMAIN ChunkIds[n] : k = ChunkIds[n][i]
  BY <1>1, <1>2 DEF Range
<1>6. i \in DOMAIN texts
  BY <1>3, <1>5, CreatedIsCut
<1>7. PICK j \in DOMAIN w.ops : PairOf(w.ops[j]) = PairOf(ChunkOp(log, n, i, texts[i]))
  BY <1>4, <1>6
<1>8. w.ops[j].object = k
  BY <1>5, <1>7 DEF PairOf, ChunkOp, CreateOp
<1> QED
  BY <1>1, <1>8

\* What indexing leaves of what was created.
LEMMA IndexingKeepsIndexed ==
    ASSUME OneSplit, IngestionInv, HistoryInv, NEW c \in Callers,
           IndexPoints(c) \/ IndexDocuments(c),
           NEW k, NEW x, <<k, x>> \in Created(log)
    PROVE  /\ points[k] = x => points'[k] = x
           /\ documents[k] = x => documents'[k] = x
           /\ IndexPoints(c) /\ (\E i \in DOMAIN call[c].ops : call[c].ops[i].object = k)
                => points'[k] = x
           /\ IndexDocuments(c) /\ (\E i \in DOMAIN call[c].ops : call[c].ops[i].object = k)
                => documents'[k] = x
<1>1. PICK ops : ops = call[c].ops
  OBVIOUS
<1>2. k \in Chunks /\ k \in Vectors
  BY DEF Created, AnyChunk, Chunks, Vectors, OfKind
<1>3. Indexes(Created(log), ops) /\ \A p \in Created(log) : CutOf(log, p)
  BY <1>1 DEF HistoryInv, CallProgress, IndexesWithin, Indexes, IndexPoints, IndexDocuments
<1>4. CASE IndexPoints(c)
  <2>1. PICK y : y = IndexedBy(points, ops, k)
    OBVIOUS
  <2>2. points'[k] = y /\ UNCHANGED documents
    BY <1>1, <1>2, <1>4, <2>1 DEF IndexPoints
  <2>3. /\ (\E i \in DOMAIN ops : ops[i].object = k) => y = x
        /\ ~(\E i \in DOMAIN ops : ops[i].object = k) => y = points[k]
    BY <1>3, <2>1, IndexedOnce
  <2>4. ~IndexDocuments(c)
    BY <1>4 DEF IndexPoints, IndexDocuments
  <2> QED
    BY <1>1, <2>2, <2>3, <2>4
<1>5. CASE IndexDocuments(c)
  <2> DEFINE n == call[c].revision
             others == [o \in Chunks |->
                            IF o \in Range(ChunkIds[n]) THEN None ELSE documents[o]]
  <2>1. PICK y : y = IndexedBy(others, ops, k)
    OBVIOUS
  <2>2. documents'[k] = y /\ UNCHANGED points
    BY <1>1, <1>2, <1>5, <2>1 DEF IndexDocuments, Replaced
  <2>3. others[k] = documents[k] \/ k \in Range(ChunkIds[n])
    BY <1>2
  <2> HIDE DEF others
  <2>4. /\ (\E i \in DOMAIN ops : ops[i].object = k) => y = x
        /\ ~(\E i \in DOMAIN ops : ops[i].object = k) => y = others[k]
    BY <1>3, <2>1, IndexedOnce
  <2>5. k \in Range(ChunkIds[n]) => \E i \in DOMAIN ops : ops[i].object = k
    BY <1>1, <1>5, ReplacedHasAll DEF IndexDocuments
  <2>6. ~IndexPoints(c)
    BY <1>5 DEF IndexPoints, IndexDocuments
  <2> QED
    BY <1>1, <2>2, <2>3, <2>4, <2>5, <2>6
<1> QED
  BY <1>4, <1>5

\* What is indexed has been created before.
LEMMA IndexKeepsHistory ==
    ASSUME OneSplit, IngestionInv, HistoryInv, NEW c \in Callers,
           IndexPoints(c) \/ IndexDocuments(c)
    PROVE  HistoryInv'
<1>1. PICK S : S = Created(log)
  OBVIOUS
<1>2. PICK R : R = Removed(log)
  OBVIOUS
<1>3. PICK step : /\ step \in {"documents", "indexed"} /\ Goes(c, step)
                  /\ step = "documents" => IndexPoints(c) /\ call[c].step = "points"
                  /\ step = "indexed" => IndexDocuments(c) /\ call[c].step = "documents"
  BY DEF IndexPoints, IndexDocuments
<1>4. PICK v : v = NextStep(call[c], step, call[c].base)
  OBVIOUS
<1>5. step \in Steps
  BY <1>3 DEF Steps
<1>6. v.step = step /\ v.ops = call[c].ops /\ v.revision = call[c].revision /\ Set(c, v)
  BY <1>3, <1>4, <1>5, CallGoesOn
<1>7. UNCHANGED <<log, worker>>
  BY DEF IndexPoints, IndexDocuments
<1>8. WorkerWithin(Created(log), Removed(log))'
  <2>1. S \subseteq AnyChunk /\ StoresWithin(S) /\ IndexesWithin(S, call[c])
    BY <1>1 DEF Created, HistoryInv, WorkerWithin, CallProgress
  <2>2. StoresWithin(S)'
    BY <2>1, IndexingWithin
  <2>3. project' \in [Projectors -> ProjectCall(S, R)]
    BY <1>1, <1>2, <1>7 DEF HistoryInv, WorkerWithin, worker
  <2>4. Created(log)' = S /\ Removed(log)' = R
    BY <1>1, <1>2, <1>7
  <2> QED
    BY <2>2, <2>3, <2>4 DEF WorkerWithin, StoresWithin
<1>9. /\ \A p \in Created(log') : CutOf(log', p)
      /\ ViewOfLog(View, log)'
  <2>1. View' = View
    BY <1>7 DEF View
  <2> QED
    BY <1>7, <2>1 DEF HistoryInv
<1>10. \A k, x : <<k, x>> \in S =>
            /\ points[k] = x => points'[k] = x
            /\ documents[k] = x => documents'[k] = x
            /\ step = "documents" /\ (\E i \in DOMAIN v.ops : v.ops[i].object = k) => points'[k] = x
            /\ step = "indexed" /\ (\E i \in DOMAIN v.ops : v.ops[i].object = k) => documents'[k] = x
  BY <1>1, <1>3, <1>6, IndexingKeepsIndexed
<1>11. ASSUME NEW w, CallProgress(w, log), w.step \in {"documents", "indexed"}, CallIndexed(w)
       PROVE  CallIndexed(w)'
  <2>1. \A j \in DOMAIN w.ops : <<w.ops[j].object, w.ops[j].content>> \in S
    BY <1>1, <1>11 DEF CallProgress, IndexesWithin
  <2> QED
    BY <1>7, <1>10, <1>11, <2>1 DEF CallIndexed
<1>12. ASSUME NEW d \in Callers
       PROVE  CallProgress(call'[d], log') /\ CallIndexed(call[d])'
  <2>1. CASE d # c
    <3>1. PICK w : w = call[d]
      OBVIOUS
    <3>2. call'[d] = w
      BY <1>6, <2>1, <3>1 DEF Set, IngestionInv
    <3>3. CallProgress(w, log) /\ CallIndexed(w)
      BY <3>1 DEF HistoryInv
    <3>4. CallIndexed(w)'
      <4>1. CASE w.step \in {"documents", "indexed"}
        BY <1>11, <3>3, <4>1
      <4>2. CASE w.step \notin {"documents", "indexed"}
        BY <4>2 DEF CallIndexed
      <4> QED
        BY <4>1, <4>2
    <3> QED
      BY <1>7, <3>2, <3>3, <3>4 DEF CallIndexed
  <2>2. CASE d = c
    <3>1. call'[d] = v
      BY <1>6, <2>2 DEF Set, IngestionInv
    <3>2. PICK w : w = call[c]
      OBVIOUS
    <3>3. CallProgress(w, log) /\ CallIndexed(w) /\ w.step \in {"points", "documents"}
      BY <1>3, <3>2 DEF HistoryInv
    <3>4. CallProgress(v, log)
      BY <1>3, <1>6, <3>2, <3>3 DEF CallProgress, IndexesWithin, Covers
    <3>5. \A j \in DOMAIN v.ops : <<v.ops[j].object, v.ops[j].content>> \in S
      BY <1>1, <1>3, <1>6, <3>4 DEF CallProgress, IndexesWithin
    <3>6. ASSUME NEW j \in DOMAIN v.ops
          PROVE  /\ step = "documents" => points'[v.ops[j].object] = v.ops[j].content
                 /\ step = "indexed" => documents'[v.ops[j].object] = v.ops[j].content
      <4>1. PICK k : k = v.ops[j].object
        OBVIOUS
      <4>2. PICK x : x = v.ops[j].content
        OBVIOUS
      <4>3. <<k, x>> \in S /\ \E i \in DOMAIN v.ops : v.ops[i].object = k
        BY <3>5, <4>1, <4>2
      <4> QED
        BY <1>10, <4>1, <4>2, <4>3
    <3>7. \A j \in DOMAIN v.ops : /\ step = "documents" => points'[v.ops[j].object] = v.ops[j].content
                                  /\ step = "indexed" => documents'[v.ops[j].object] = v.ops[j].content
      BY <3>6
    <3>8. step = "indexed" => CallIndexed(w)'
      BY <1>3, <1>11, <3>2, <3>3
    <3>9. CallIndexed(v)'
      BY <1>3, <1>6, <3>2, <3>7, <3>8 DEF CallIndexed
    <3> QED
      BY <1>7, <3>1, <3>4, <3>9 DEF CallIndexed
  <2> QED
    BY <2>1, <2>2
<1> QED
  BY <1>8, <1>9, <1>12 DEF HistoryInv

\* A restart of the service forgets its calls only.
LEMMA RestartKeepsHistory ==
    ASSUME IngestionInv, HistoryInv, RestartService
    PROVE  HistoryInv'
<1>1. PICK S : S = Created(log)
  OBVIOUS
<1>2. PICK R : R = Removed(log)
  OBVIOUS
<1>3. UNCHANGED log /\ RestartWorker /\ call' = [c \in Callers |-> IdleCall]
  BY DEF RestartService, RestartWorker
<1>4. WorkerWithin(S, R)'
  BY <1>1, <1>2, <1>3, RestartWithin DEF HistoryInv
<1>5. WorkerWithin(Created(log), Removed(log))'
  <2>1. Created(log)' = S /\ Removed(log)' = R
    BY <1>1, <1>2, <1>3
  <2> QED
    BY <1>4, <2>1 DEF WorkerWithin, StoresWithin
<1>6. /\ \A p \in Created(log') : CutOf(log', p)
      /\ ViewOfLog(View, log)'
  <2>1. View' = View
    BY <1>3 DEF View
  <2> QED
    BY <1>3, <2>1 DEF HistoryInv
<1>7. ASSUME NEW c \in Callers
      PROVE  CallProgress(call'[c], log') /\ CallIndexed(call[c])'
  <2>1. call'[c] = IdleCall
    BY <1>3
  <2>2. IdleCall.step = "idle"
    BY DEF IdleCall
  <2>3. CallProgress(IdleCall, log')
    BY <2>2, EarlyProgress DEF Early
  <2> QED
    BY <2>1, <2>2, <2>3 DEF CallIndexed
<1> QED
  BY <1>5, <1>6, <1>7 DEF HistoryInv

\* Initially the stores are empty and nothing was cut.
LEMMA InitHistoryInv == ResourceInit => HistoryInv
<1> SUFFICES ASSUME ResourceInit
             PROVE  HistoryInv
  OBVIOUS
<1>1. log = FirstCommits /\ call = [c \in Callers |-> IdleCall]
  BY DEF ResourceInit, WorkerInit
<1>2. \A i \in DOMAIN log, o \in Resources \cup Chunks : NamesNot(log[i].ops, o)
  BY <1>1, FirstLog
<1>3. Created(log) = {} /\ Removed(log) = {}
  BY <1>2 DEF Created, Removed, NamesNot, AnyChunk, CreateOp, TombstoneOp
<1>4. ViewOfLog(View, log)
  <2>1. ASSUME NEW k \in Chunks
        PROVE  ~Present(View, k)
    BY <1>1, <1>2, UnnamedIsAbsent, FirstLog DEF View, Chunks, OfKind
  <2> QED
    BY <1>3, <2>1 DEF ViewOfLog
<1>5. WorkerWithin(Created(log), Removed(log))
  <2>1. IdleProject \in ProjectCall(Created(log), Removed(log))
    BY EmptySeq DEF IdleProject, ProjectCall
  <2> QED
    BY <2>1 DEF ResourceInit, WorkerInit, WorkerWithin, StoresWithin, StoredContent,
                Chunks, Vectors, OfKind
<1>6. ASSUME NEW c \in Callers
      PROVE  CallProgress(call[c], log) /\ CallIndexed(call[c])
  <2>1. call[c] = IdleCall
    BY <1>1
  <2>2. IdleCall.step = "idle"
    BY DEF IdleCall
  <2> QED
    BY <2>1, <2>2, EarlyProgress DEF Early
<1> QED
  BY <1>3, <1>4, <1>5, <1>6 DEF HistoryInv

\* The second invariant is inductive, relative to the first.
LEMMA StepKeepsHistoryInv ==
    OneSplit /\ IngestionInv /\ HistoryInv /\ [ResourceNext]_resourceVars => HistoryInv'
<1> SUFFICES ASSUME OneSplit, IngestionInv, HistoryInv, [ResourceNext]_resourceVars
             PROVE  HistoryInv'
  OBVIOUS
<1>1. CASE UNCHANGED resourceVars
  <2>1. /\ UNCHANGED <<log, points, relations, documents, project, call>>
        /\ UNCHANGED View
    BY <1>1 DEF resourceVars, workerVars, serviceVars, stores, worker, View
  <2>2. PICK S : S = Created(log)
    OBVIOUS
  <2>3. PICK R : R = Removed(log)
    OBVIOUS
  <2>4. Created(log)' = S /\ Removed(log)' = R /\ WorkerWithin(S, R)
    BY <2>1, <2>2, <2>3 DEF HistoryInv
  <2>5. WorkerWithin(Created(log), Removed(log))'
    BY <2>1, <2>4 DEF WorkerWithin, StoresWithin
  <2>6. (\A p \in Created(log') : CutOf(log', p)) /\ ViewOfLog(View, log)'
    BY <2>1 DEF HistoryInv
  <2>7. \A c \in Callers : CallProgress(call'[c], log') /\ CallIndexed(call[c])'
    BY <2>1 DEF HistoryInv, CallIndexed
  <2> QED
    BY <2>5, <2>6, <2>7 DEF HistoryInv
<1>2. CASE WorkerNext /\ UNCHANGED serviceVars
  BY <1>2, WorkerKeepsHistory
<1>3. CASE RestartService
  BY <1>3, RestartKeepsHistory
<1>4. ASSUME NEW c \in Callers,
             \/ Import(c) \/ Revise(c) \/ PutContent(c) \/ TombstoneResource(c)
             \/ WriteResource(c)
             \/ StartIngest(c) \/ ViewResource(c) \/ FindRevision(c) \/ PlanChunks(c)
             \/ ChunkHead(c) \/ WriteChunk(c)
             \/ IndexPoints(c) \/ IndexDocuments(c) \/ EndCall(c)
      PROVE  HistoryInv'
  BY <1>4, EarlyKeepHistory, WriteResourceKeepsHistory, PlanKeepsHistory, HeadKeepsHistory,
     WriteChunkKeepsHistory, IndexKeepsHistory
<1> QED
  BY <1>1, <1>2, <1>3, <1>4 DEF ResourceNext

\* Both invariants hold of every behaviour.
LEMMA HistoryInvHolds == OneSplit /\ ResourceSpec => [](IngestionInv /\ HistoryInv)
<1>1. OneSplit /\ ResourceInit => OneSplit /\ IngestionInv /\ HistoryInv
  BY InitIngestionInv, InitHistoryInv
<1>2. OneSplit /\ IngestionInv /\ HistoryInv /\ [ResourceNext]_resourceVars
        => OneSplit' /\ IngestionInv' /\ HistoryInv'
  <2>1. OneSplit => OneSplit'
    BY DEF OneSplit
  <2> QED
    BY <2>1, StepKeepsIngestionInv, StepKeepsHistoryInv
<1> QED
  BY <1>1, <1>2, PTL DEF ResourceSpec

\* What has been created stands in a commit of the log.
LEMMA CreatedIsInLog ==
    ASSUME NEW k, NEW x, <<k, x>> \in Created(log)
    PROVE  CreatedInLog(k, x)
<1>1. PICK p : p = <<k, x>>
  OBVIOUS
<1>2. PICK i \in DOMAIN log : \E j \in DOMAIN log[i].ops :
            log[i].ops[j] = CreateOp(p[1], p[2])
  BY <1>1 DEF Created
<1> QED
  BY <1>1, <1>2 DEF CreatedInLog, Range

\* A search result has a source: where every caller cuts a content in the same
\* way, what the vector and the BM25 store hold of a chunk is what an accepted
\* commit created, through every failure, restart and interleaving of the
\* ingestions with the projection.
THEOREM SearchResultsHaveSources == OneSplit /\ ResourceSpec => []IndexedIsHistory
<1>1. HistoryInv => IndexedIsHistory
  <2>1. HistoryInv => StoresWithin(Created(log))
    BY DEF HistoryInv, WorkerWithin
  <2> QED
    BY <2>1, CreatedIsInLog DEF StoresWithin, IndexedIsHistory
<1> QED
  BY <1>1, HistoryInvHolds, PTL

\* An ingestion that answers "indexed" has the whole revision, in the history
\* and in both stores, whatever it retried, met or was overtaken by: a removed
\* resource alone may have lost its points.
THEOREM IngestionsAreWhole == OneSplit /\ ResourceSpec => []IngestedWhole
<1>1. IngestionInv /\ HistoryInv => IngestedWhole
  <2> SUFFICES ASSUME IngestionInv, HistoryInv, NEW c \in Callers, call[c].step = "indexed"
               PROVE  \E texts \in Splits[Revisions[call[c].revision].content] :
                        \A i \in DOMAIN texts :
                            LET k == ChunkIds[call[c].revision][i]
                                content == ChunkContent(call[c].object, texts[i])
                            IN  /\ CreatedInLog(k, content)
                                /\ documents[k] = content
                                /\ points[k] = content \/ ~Active(View, call[c].object)
    BY DEF IngestedWhole
  <2>1. PICK w : w = call[c]
    OBVIOUS
  <2>2. PICK n : n = w.revision
    OBVIOUS
  <2>3. PICK o : o = w.object
    OBVIOUS
  <2>4. CallFits(w, log, cas) /\ CallProgress(w, log) /\ CallIndexed(w) /\ w.step = "indexed"
    BY <2>1 DEF IngestionInv, HistoryInv
  <2>5. /\ RevisionsOf(log)[n].object = o
        /\ \A j \in DOMAIN w.ops :
                /\ <<w.ops[j].object, w.ops[j].content>> \in Created(log)
                /\ points[w.ops[j].object] = w.ops[j].content
                    \/ w.ops[j].content.source \in Removed(log)
                /\ documents[w.ops[j].object] = w.ops[j].content
    BY <2>2, <2>3, <2>4 DEF CallFits, CallProgress, CallIndexed, IndexesWithin
  <2>6. PICK texts \in Splits[RevisionsOf(log)[n].content] : \A i \in DOMAIN texts :
            \E j \in DOMAIN w.ops : PairOf(w.ops[j]) = PairOf(ChunkOp(log, n, i, texts[i]))
    BY <2>2, <2>4 DEF CallProgress, Covers
  <2>7. ASSUME NEW i \in DOMAIN texts, NEW k, k = ChunkIds[n][i],
               NEW content, content = ChunkContent(o, texts[i])
        PROVE  /\ CreatedInLog(k, content)
               /\ documents[k] = content
               /\ points[k] = content \/ ~Active(View, o)
    <3>1. PICK j \in DOMAIN w.ops : PairOf(w.ops[j]) = PairOf(ChunkOp(log, n, i, texts[i]))
      BY <2>6
    <3>2. w.ops[j].object = k /\ w.ops[j].content = content
      BY <2>5, <2>7, <3>1 DEF PairOf, ChunkOp, CreateOp
    <3>3. /\ <<k, content>> \in Created(log) /\ documents[k] = content
          /\ points[k] = content \/ content.source \in Removed(log)
      BY <2>5, <3>2
    <3>4. content.source = o
      BY <2>7 DEF ChunkContent
    <3>5. o \in Removed(log) => ~Active(View, o)
      BY DEF HistoryInv, ViewOfLog, Active
    <3> QED
      BY <3>3, <3>4, <3>5, CreatedIsInLog
  <2>8. texts \in Splits[Revisions[n].content]
    BY <2>6, RevisionsAreOfLog
  <2> QED
    BY <2>1, <2>2, <2>3, <2>7, <2>8
<1> QED
  BY <1>1, HistoryInvHolds, PTL

=============================================================================
