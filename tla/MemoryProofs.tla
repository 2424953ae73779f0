---------------------------- MODULE MemoryProofs ----------------------------
(***************************************************************************)
(* Proofs about the memory model: what a replay does, operation by         *)
(* operation and commit by commit, and what a write leaves behind on the   *)
(* conflict branch it is captured on.                                      *)
(***************************************************************************)
EXTENDS MemoryModel, SequenceLemmas

-----------------------------------------------------------------------------
(* The operations of a batch, applied in their order.                      *)

MemoryObject == [status: {"absent", "active", "tombstoned"}, content: Content]
MemoryView == [ok: BOOLEAN, objects: [Objects -> MemoryObject]]

Applicable(S) == \A v \in MemoryView, op \in S : ApplyOperation(v, op) \in MemoryView

ApplyAll(view, ops) == FoldLeft(ApplyOperation, view, ops)

\* The views a batch passes through.
LEMMA ApplyAllPath ==
    ASSUME NEW S, Applicable(S), NEW view \in MemoryView, NEW ops \in Seq(S),
           NEW F, F = [p \in MemoryView \X (1..Len(ops)) |-> ApplyOperation(p[1], ops[p[2]])]
    PROVE  Leads(Len(ops), MemoryView, view, F, ApplyAll(view, ops))
<1> DEFINE n == Len(ops)
           It == CHOOSE iter : iter =
                    [s \in SUBSET DOMAIN ops |->
                        IF s = {} THEN view
                        ELSE ApplyOperation(iter[s \ {Max(s)}], ops[Max(s)])]
<1>1. n \in Nat /\ DOMAIN ops = 1..n /\ \A k \in 1..n : ops[k] \in S
  BY LenProperties, ElementOfSeq
<1>2. ApplyAll(view, ops) = It[DOMAIN ops]
  BY DEF ApplyAll, FoldLeft, MapThenFoldSet
<1> HIDE DEF n
<1>3. /\ view \in MemoryView
      /\ F \in [MemoryView \X (1..n) -> MemoryView]
      /\ \A t \in MemoryView, k \in 1..n : F[<<t, k>>] = ApplyOperation(t, ops[k])
  BY <1>1 DEF n, Applicable
<1>4. PICK iter \in [SUBSET (1..n) -> MemoryView] : IsRecursion(iter, n, view, F)
  BY <1>1, <1>3, RecursionExists
<1>5. ASSUME NEW s \in SUBSET (1..n), s # {}
      PROVE  iter[s] = ApplyOperation(iter[s \ {Max(s)}], ops[Max(s)])
  <2> DEFINE m == Max(s)
             r == s \ {m}
  <2>1. m \in 1..n /\ r \in SUBSET (1..n)
    BY <1>1, <1>5, LargestElement
  <2> HIDE DEF m, r
  <2>2. F[<<iter[r], m>>] = ApplyOperation(iter[r], ops[m])
    BY <1>3, <1>4, <2>1
  <2> QED
    BY <1>4, <1>5, <2>2 DEF r, m, IsRecursion
<1>6. iter = [s \in SUBSET DOMAIN ops |->
                IF s = {} THEN view
                ELSE ApplyOperation(iter[s \ {Max(s)}], ops[Max(s)])]
  BY <1>1, <1>4, <1>5 DEF IsRecursion
<1>7. It = [s \in SUBSET DOMAIN ops |->
                IF s = {} THEN view
                ELSE ApplyOperation(It[s \ {Max(s)}], ops[Max(s)])]
  BY <1>6
<1> HIDE DEF It
<1>8. It[{}] = view
  BY <1>7
<1>9. ASSUME NEW s \in SUBSET (1..n), s # {}, It[s \ {Max(s)}] \in MemoryView
      PROVE  It[s] = F[<<It[s \ {Max(s)}], Max(s)>>]
  <2> DEFINE m == Max(s)
             r == s \ {m}
  <2>1. m \in 1..n
    BY <1>1, <1>9, LargestElement
  <2>2. It[s] = ApplyOperation(It[r], ops[m])
    BY <1>1, <1>7, <1>9
  <2>3. It[r] \in MemoryView
    BY <1>9
  <2> HIDE DEF m, r
  <2>4. It[s] = F[<<It[r], m>>]
    BY <1>3, <2>1, <2>2, <2>3
  <2> QED
    BY <2>4 DEF m, r
<1>10. Leads(n, MemoryView, view, F, It[1..n])
  <2>1. IsTypedRecursion(It, n, MemoryView, view, F)
    BY <1>8, <1>9 DEF IsTypedRecursion
  <2>2. n \in Nat /\ view \in MemoryView /\ F \in [MemoryView \X (1..n) -> MemoryView]
    BY <1>1, <1>3
  <2> QED
    BY <2>1, <2>2, RecursionIsPath
<1> QED
  BY <1>1, <1>2, <1>10 DEF n

\* Applying nothing changes nothing; one operation more is applied last.
LEMMA ApplyAllSteps ==
    ASSUME NEW S, Applicable(S), NEW view \in MemoryView, NEW ops \in Seq(S), NEW op \in S
    PROVE  /\ ApplyAll(view, <<>>) = view
           /\ ApplyAll(view, ops) \in MemoryView
           /\ ApplyAll(view, Append(ops, op)) = ApplyOperation(ApplyAll(view, ops), op)
<1> DEFINE n == Len(ops)
           more == Append(ops, op)
           F(l) == [p \in MemoryView \X (1..Len(l)) |-> ApplyOperation(p[1], l[p[2]])]
<1>1. /\ n \in Nat
      /\ more \in Seq(S) /\ Len(more) = n + 1
      /\ \A k \in 1..n : more[k] = ops[k]
      /\ more[n + 1] = op
  BY LenProperties, AppendProperties
<1>2. ApplyAll(view, <<>>) = view
  <2>1. <<>> \in Seq(S) /\ Len(<<>>) = 0
    BY EmptySeq
  <2>2. PICK h : IsPath(h, Len(<<>>), view, F(<<>>)) /\ h[Len(<<>>)] = ApplyAll(view, <<>>)
    <3> DEFINE e == <<>>
               G == F(e)
    <3>1. e \in Seq(S) /\ G = [p \in MemoryView \X (1..Len(e)) |-> ApplyOperation(p[1], e[p[2]])]
      BY <2>1
    <3> HIDE DEF e, G
    <3>2. Leads(Len(e), MemoryView, view, G, ApplyAll(view, e))
      BY <3>1, ApplyAllPath
    <3> QED
      BY <3>2 DEF e, G, Leads
  <2> QED
    BY <2>1, <2>2 DEF IsPath
<1>3. PICK h \in [0..n -> MemoryView] : IsPath(h, n, view, F(ops)) /\ h[n] = ApplyAll(view, ops)
  <2> DEFINE G == F(ops)
  <2>1. G = [p \in MemoryView \X (1..Len(ops)) |-> ApplyOperation(p[1], ops[p[2]])]
    OBVIOUS
  <2> HIDE DEF G
  <2>2. Leads(Len(ops), MemoryView, view, G, ApplyAll(view, ops))
    BY <2>1, ApplyAllPath
  <2> QED
    BY <2>2 DEF G, Leads
<1> HIDE DEF more
<1>4. PICK g \in [0..(n + 1) -> MemoryView] :
            IsPath(g, n + 1, view, F(more)) /\ g[n + 1] = ApplyAll(view, more)
  <2> DEFINE G == F(more)
  <2>1. G = [p \in MemoryView \X (1..Len(more)) |-> ApplyOperation(p[1], more[p[2]])]
    OBVIOUS
  <2> HIDE DEF G
  <2>2. Leads(Len(more), MemoryView, view, G, ApplyAll(view, more))
    BY <1>1, <2>1, ApplyAllPath
  <2> QED
    BY <1>1, <2>2 DEF G, Leads
<1> HIDE DEF n
<1>5. /\ \A t \in MemoryView, k \in 1..n : F(ops)[<<t, k>>] = ApplyOperation(t, ops[k])
      /\ \A t \in MemoryView, k \in 1..(n + 1) : F(more)[<<t, k>>] = ApplyOperation(t, more[k])
  BY <1>1 DEF n
<1> HIDE DEF F
<1>6. \A k \in 0..n : g[k] = h[k]
  <2>1. ASSUME NEW k \in 1..n
        PROVE  F(ops)[<<h[k - 1], k>>] = F(more)[<<h[k - 1], k>>]
    <3>1. more[k] = ops[k] /\ k \in 1..(n + 1) /\ k - 1 \in 0..n
      BY <1>1
    <3>2. h[k - 1] \in MemoryView
      BY <3>1
    <3> QED
      BY <1>5, <3>1, <3>2
  <2>2. n + 1 \in Nat /\ n <= n + 1
    BY <1>1
  <2>3. AgreeOn(n, h, F(ops), F(more))
    BY <2>1 DEF AgreeOn
  <2>4. IsPath(h, n, view, F(ops))
    BY <1>3
  <2>5. IsPath(g, n + 1, view, F(more))
    BY <1>4
  <2>6. n \in Nat
    BY <1>1
  <2>7. SameUpTo(n, h, g)
    BY <2>2, <2>3, <2>4, <2>5, <2>6, PathsAgree
  <2> QED
    BY <2>7 DEF SameUpTo
<1>7. g[n] = h[n] /\ h[n] \in MemoryView /\ n + 1 \in 1..(n + 1) /\ (n + 1) - 1 = n
  BY <1>1, <1>3, <1>6
<1>8. g[n + 1] = F(more)[<<g[n], n + 1>>]
  BY <1>4, <1>7 DEF IsPath
<1>9. g[n + 1] = ApplyOperation(h[n], op)
  BY <1>1, <1>5, <1>7, <1>8
<1> QED
  BY <1>2, <1>3, <1>4, <1>7, <1>9 DEF more

\* Operations that are recorded with their expansion.
ApplyExpanded(view, op) ==
    IF op.kind = "replace"
    THEN ApplyOperation(ApplyOperation(view, TombstoneOp(op.object)),
                        CreateOp(op.by, op.content))
    ELSE ApplyOperation(view, op)

\* What one operation keeps: a failed replay stays failed, and no object
\* becomes absent again.
LEMMA OperationKeeps ==
    ASSUME NEW v \in MemoryView, NEW op \in MutationOperation,
           NEW w, w = ApplyOperation(v, op)
    PROVE  /\ w \in MemoryView
           /\ w.ok => v.ok
           /\ \A o \in Objects : Present(v, o) => Present(w, o)
<1>1. /\ v.ok \in BOOLEAN /\ v.objects \in [Objects -> MemoryObject]
      /\ \A o \in Objects : v.objects[o] \in MemoryObject
  BY DEF MemoryView
<1>2. CASE ~v.ok
  BY <1>2 DEF ApplyOperation
<1>3. CASE v.ok /\ op.kind = "create"
  <2>1. op.object \in Objects /\ op.content \in Content
    BY <1>3 DEF MutationOperation
  <2>2. w = ApplyCreate(v, op.object, op.content)
    BY <1>3 DEF ApplyOperation
  <2>3. \/ w = Store(v, op.object, "active", op.content)
        \/ w = [v EXCEPT !.ok = FALSE]
    BY <2>2 DEF ApplyCreate
  <2>4. CASE w = [v EXCEPT !.ok = FALSE]
    BY <1>1, <2>4 DEF MemoryView, Present
  <2>5. CASE w = Store(v, op.object, "active", op.content)
    BY <1>1, <1>3, <2>1, <2>5 DEF MemoryView, MemoryObject, Store, Present
  <2> QED
    BY <2>3, <2>4, <2>5
<1>4. CASE v.ok /\ op.kind = "update"
  <2>1. op.object \in Objects /\ op.content \in Content
    BY <1>4 DEF MutationOperation, OfKind
  <2>2. w = ApplyUpdate(v, op.object, op.content)
    BY <1>4 DEF ApplyOperation
  <2>3. \/ /\ Present(v, op.object)
           /\ \/ w = Store(v, op.object, v.objects[op.object].status, op.content)
              \/ w = Store(v, op.object, "active", op.content)
        \/ w = [v EXCEPT !.ok = FALSE]
    BY <2>2 DEF ApplyUpdate
  <2>4. CASE w = [v EXCEPT !.ok = FALSE]
    BY <1>1, <2>4 DEF MemoryView, Present
  <2>5. CASE /\ Present(v, op.object)
             /\ w = Store(v, op.object, v.objects[op.object].status, op.content)
    BY <1>1, <1>4, <2>1, <2>5 DEF MemoryView, MemoryObject, Store, Present
  <2>6. CASE w = Store(v, op.object, "active", op.content)
    BY <1>1, <1>4, <2>1, <2>6 DEF MemoryView, MemoryObject, Store, Present
  <2> QED
    BY <2>3, <2>4, <2>5, <2>6
<1>5. CASE v.ok /\ op.kind = "tombstone"
  <2>1. w = ApplyTombstone(v, op.object)
    BY <1>5 DEF ApplyOperation
  <2> DEFINE after(x) == IF x \in Cascade(v, op.object)
                         THEN [v.objects[x] EXCEPT !.status = "tombstoned"]
                         ELSE v.objects[x]
             objects == [x \in Objects |-> after(x)]
  <2>2. w = [v EXCEPT !.objects = objects]
    BY <2>1 DEF ApplyTombstone
  <2>3. ASSUME NEW x \in Objects
        PROVE  /\ after(x) \in MemoryObject
               /\ Present(v, x) => after(x).status # "absent"
    <3>1. CASE x \in Cascade(v, op.object)
      BY <1>1, <3>1 DEF MemoryObject
    <3>2. CASE x \notin Cascade(v, op.object)
      BY <1>1, <3>2 DEF Present
    <3> QED
      BY <3>1, <3>2
  <2> HIDE DEF after
  <2>4. /\ objects \in [Objects -> MemoryObject]
        /\ \A x \in Objects : objects[x] = after(x)
    BY <2>3
  <2> HIDE DEF objects
  <2>5. w.ok = v.ok /\ w.objects = objects /\ w \in MemoryView
    BY <2>2, <2>4 DEF MemoryView
  <2> QED
    BY <2>3, <2>4, <2>5 DEF Present
<1>6. CASE v.ok /\ op.kind \notin {"create", "update", "tombstone"}
  BY <1>6 DEF ApplyOperation
<1> QED
  BY <1>1, <1>2, <1>3, <1>4, <1>5, <1>6

-----------------------------------------------------------------------------
(* The expansion of a batch.                                               *)

Expandable(S) == \A op \in S : Expand(op) \in Seq(S)

\* The lists the expansion of a batch passes through.
LEMMA ExpandedPath ==
    ASSUME NEW S, Expandable(S), NEW ops \in Seq(S),
           NEW F, F = [p \in Seq(S) \X (1..Len(ops)) |-> p[1] \o Expand(ops[p[2]])]
    PROVE  Leads(Len(ops), Seq(S), <<>>, F, Expanded(ops))
<1> DEFINE n == Len(ops)
           It == CHOOSE iter : iter =
                    [s \in SUBSET DOMAIN ops |->
                        IF s = {} THEN <<>>
                        ELSE iter[s \ {Max(s)}] \o Expand(ops[Max(s)])]
<1>1. n \in Nat /\ DOMAIN ops = 1..n /\ \A k \in 1..n : ops[k] \in S
  BY LenProperties, ElementOfSeq
<1>2. Expanded(ops) = It[DOMAIN ops]
  BY DEF Expanded, FoldLeft, MapThenFoldSet
<1> HIDE DEF n
<1>3. /\ <<>> \in Seq(S)
      /\ F \in [Seq(S) \X (1..n) -> Seq(S)]
      /\ \A t \in Seq(S), k \in 1..n : F[<<t, k>>] = t \o Expand(ops[k])
  BY <1>1, EmptySeq, ConcatProperties DEF n, Expandable
<1>4. PICK iter \in [SUBSET (1..n) -> Seq(S)] : IsRecursion(iter, n, <<>>, F)
  BY <1>1, <1>3, RecursionExists
<1>5. ASSUME NEW s \in SUBSET (1..n), s # {}
      PROVE  iter[s] = iter[s \ {Max(s)}] \o Expand(ops[Max(s)])
  <2> DEFINE m == Max(s)
             r == s \ {m}
  <2>1. m \in 1..n /\ r \in SUBSET (1..n)
    BY <1>1, <1>5, LargestElement
  <2> HIDE DEF m, r
  <2>2. F[<<iter[r], m>>] = iter[r] \o Expand(ops[m])
    BY <1>3, <1>4, <2>1
  <2> QED
    BY <1>4, <1>5, <2>2 DEF r, m, IsRecursion
<1>6. iter = [s \in SUBSET DOMAIN ops |->
                IF s = {} THEN <<>>
                ELSE iter[s \ {Max(s)}] \o Expand(ops[Max(s)])]
  BY <1>1, <1>4, <1>5 DEF IsRecursion
<1>7. It = [s \in SUBSET DOMAIN ops |->
                IF s = {} THEN <<>>
                ELSE It[s \ {Max(s)}] \o Expand(ops[Max(s)])]
  BY <1>6
<1> HIDE DEF It
<1>8. It[{}] = <<>>
  BY <1>7
<1>9. ASSUME NEW s \in SUBSET (1..n), s # {}, It[s \ {Max(s)}] \in Seq(S)
      PROVE  It[s] = F[<<It[s \ {Max(s)}], Max(s)>>]
  <2> DEFINE m == Max(s)
             r == s \ {m}
  <2>1. m \in 1..n
    BY <1>1, <1>9, LargestElement
  <2>2. It[s] = It[r] \o Expand(ops[m])
    BY <1>1, <1>7, <1>9
  <2>3. It[r] \in Seq(S)
    BY <1>9
  <2> HIDE DEF m, r
  <2>4. It[s] = F[<<It[r], m>>]
    BY <1>3, <2>1, <2>2, <2>3
  <2> QED
    BY <2>4 DEF m, r
<1>10. Leads(n, Seq(S), <<>>, F, It[1..n])
  <2>1. IsTypedRecursion(It, n, Seq(S), <<>>, F)
    BY <1>8, <1>9 DEF IsTypedRecursion
  <2>2. n \in Nat /\ <<>> \in Seq(S) /\ F \in [Seq(S) \X (1..n) -> Seq(S)]
    BY <1>1, <1>3
  <2> QED
    BY <2>1, <2>2, RecursionIsPath
<1> QED
  BY <1>1, <1>2, <1>10 DEF n

\* Nothing expands to nothing; one operation more adds its expansion.
LEMMA ExpandedSteps ==
    ASSUME NEW S, Expandable(S), NEW ops \in Seq(S), NEW op \in S
    PROVE  /\ Expanded(<<>>) = <<>>
           /\ Expanded(ops) \in Seq(S)
           /\ Expanded(Append(ops, op)) = Expanded(ops) \o Expand(op)
<1> DEFINE n == Len(ops)
           more == Append(ops, op)
           F(l) == [p \in Seq(S) \X (1..Len(l)) |-> p[1] \o Expand(l[p[2]])]
<1>1. /\ n \in Nat
      /\ more \in Seq(S) /\ Len(more) = n + 1
      /\ \A k \in 1..n : more[k] = ops[k]
      /\ more[n + 1] = op
  BY LenProperties, AppendProperties
<1>2. Expanded(<<>>) = <<>>
  <2>1. <<>> \in Seq(S) /\ Len(<<>>) = 0
    BY EmptySeq
  <2>2. PICK h : IsPath(h, Len(<<>>), <<>>, F(<<>>)) /\ h[Len(<<>>)] = Expanded(<<>>)
    <3> DEFINE e == <<>>
               G == F(e)
    <3>1. e \in Seq(S) /\ G = [p \in Seq(S) \X (1..Len(e)) |-> p[1] \o Expand(e[p[2]])]
      BY <2>1
    <3> HIDE DEF e, G
    <3>2. Leads(Len(e), Seq(S), <<>>, G, Expanded(e))
      BY <3>1, ExpandedPath
    <3> QED
      BY <3>2 DEF e, G, Leads
  <2> QED
    BY <2>1, <2>2 DEF IsPath
<1>3. PICK h \in [0..n -> Seq(S)] : IsPath(h, n, <<>>, F(ops)) /\ h[n] = Expanded(ops)
  <2> DEFINE G == F(ops)
  <2>1. G = [p \in Seq(S) \X (1..Len(ops)) |-> p[1] \o Expand(ops[p[2]])]
    OBVIOUS
  <2> HIDE DEF G
  <2>2. Leads(Len(ops), Seq(S), <<>>, G, Expanded(ops))
    BY <2>1, ExpandedPath
  <2> QED
    BY <2>2 DEF G, Leads
<1> HIDE DEF more
<1>4. PICK g \in [0..(n + 1) -> Seq(S)] :
            IsPath(g, n + 1, <<>>, F(more)) /\ g[n + 1] = Expanded(more)
  <2> DEFINE G == F(more)
  <2>1. G = [p \in Seq(S) \X (1..Len(more)) |-> p[1] \o Expand(more[p[2]])]
    OBVIOUS
  <2> HIDE DEF G
  <2>2. Leads(Len(more), Seq(S), <<>>, G, Expanded(more))
    BY <1>1, <2>1, ExpandedPath
  <2> QED
    BY <1>1, <2>2 DEF G, Leads
<1> HIDE DEF n
<1>5. /\ \A t \in Seq(S), k \in 1..n : F(ops)[<<t, k>>] = t \o Expand(ops[k])
      /\ \A t \in Seq(S), k \in 1..(n + 1) : F(more)[<<t, k>>] = t \o Expand(more[k])
  BY <1>1 DEF n
<1> HIDE DEF F
<1>6. \A k \in 0..n : g[k] = h[k]
  <2>1. ASSUME NEW k \in 1..n
        PROVE  F(ops)[<<h[k - 1], k>>] = F(more)[<<h[k - 1], k>>]
    <3>1. more[k] = ops[k] /\ k \in 1..(n + 1) /\ k - 1 \in 0..n
      BY <1>1
    <3>2. h[k - 1] \in Seq(S)
      BY <3>1
    <3> QED
      BY <1>5, <3>1, <3>2
  <2>2. n + 1 \in Nat /\ n <= n + 1
    BY <1>1
  <2>3. AgreeOn(n, h, F(ops), F(more))
    BY <2>1 DEF AgreeOn
  <2>4. IsPath(h, n, <<>>, F(ops))
    BY <1>3
  <2>5. IsPath(g, n + 1, <<>>, F(more))
    BY <1>4
  <2>6. n \in Nat
    BY <1>1
  <2>7. SameUpTo(n, h, g)
    BY <2>2, <2>3, <2>4, <2>5, <2>6, PathsAgree
  <2> QED
    BY <2>7 DEF SameUpTo
<1>7. g[n] = h[n] /\ h[n] \in Seq(S) /\ n + 1 \in 1..(n + 1) /\ (n + 1) - 1 = n
  BY <1>1, <1>3, <1>6
<1>8. g[n + 1] = F(more)[<<g[n], n + 1>>]
  BY <1>4, <1>7 DEF IsPath
<1>9. g[n + 1] = h[n] \o Expand(op)
  BY <1>1, <1>5, <1>7, <1>8
<1> QED
  BY <1>2, <1>3, <1>4, <1>7, <1>9 DEF more

-----------------------------------------------------------------------------
(* The commits of a log, applied in their order.                           *)

ApplyCommit(reverted, view, commit) ==
    IF commit.id \in reverted THEN view ELSE ApplyAll(view, Expanded(commit.ops))

Replayable(reverted, C) ==
    \A v \in MemoryView, c \in C : ApplyCommit(reverted, v, c) \in MemoryView

ReplayWith(reverted, seed, log) ==
    FoldLeft(LAMBDA view, commit : ApplyCommit(reverted, view, commit), seed, log)

\* A replay leaves out the commits that are reverted anywhere in the log.
LEMMA ReplayIsFold ==
    ASSUME NEW seed, NEW log
    PROVE  Replay(seed, log) = ReplayWith(RevertedCommits(log), seed, log)
BY DEF Replay, ReplayWith, ApplyCommit, ApplyAll

\* The views a replay passes through, commit by commit.
LEMMA ReplayWithPath ==
    ASSUME NEW reverted, NEW C, Replayable(reverted, C),
           NEW seed \in MemoryView, NEW log \in Seq(C),
           NEW F, F = [p \in MemoryView \X (1..Len(log)) |-> ApplyCommit(reverted, p[1], log[p[2]])]
    PROVE  Leads(Len(log), MemoryView, seed, F, ReplayWith(reverted, seed, log))
<1> DEFINE n == Len(log)
           It == CHOOSE iter : iter =
                    [s \in SUBSET DOMAIN log |->
                        IF s = {} THEN seed
                        ELSE ApplyCommit(reverted, iter[s \ {Max(s)}], log[Max(s)])]
<1>1. n \in Nat /\ DOMAIN log = 1..n /\ \A k \in 1..n : log[k] \in C
  BY LenProperties, ElementOfSeq
<1>2. ReplayWith(reverted, seed, log) = It[DOMAIN log]
  BY DEF ReplayWith, FoldLeft, MapThenFoldSet
<1> HIDE DEF n
<1>3. /\ seed \in MemoryView
      /\ F \in [MemoryView \X (1..n) -> MemoryView]
      /\ \A t \in MemoryView, k \in 1..n : F[<<t, k>>] = ApplyCommit(reverted, t, log[k])
  BY <1>1 DEF n, Replayable
<1>4. PICK iter \in [SUBSET (1..n) -> MemoryView] : IsRecursion(iter, n, seed, F)
  BY <1>1, <1>3, RecursionExists
<1>5. ASSUME NEW s \in SUBSET (1..n), s # {}
      PROVE  iter[s] = ApplyCommit(reverted, iter[s \ {Max(s)}], log[Max(s)])
  <2> DEFINE m == Max(s)
             r == s \ {m}
  <2>1. m \in 1..n /\ r \in SUBSET (1..n)
    BY <1>1, <1>5, LargestElement
  <2> HIDE DEF m, r
  <2>2. F[<<iter[r], m>>] = ApplyCommit(reverted, iter[r], log[m])
    BY <1>3, <1>4, <2>1
  <2> QED
    BY <1>4, <1>5, <2>2 DEF r, m, IsRecursion
<1>6. iter = [s \in SUBSET DOMAIN log |->
                IF s = {} THEN seed
                ELSE ApplyCommit(reverted, iter[s \ {Max(s)}], log[Max(s)])]
  BY <1>1, <1>4, <1>5 DEF IsRecursion
<1>7. It = [s \in SUBSET DOMAIN log |->
                IF s = {} THEN seed
                ELSE ApplyCommit(reverted, It[s \ {Max(s)}], log[Max(s)])]
  BY <1>6
<1> HIDE DEF It
<1>8. It[{}] = seed
  BY <1>7
<1>9. ASSUME NEW s \in SUBSET (1..n), s # {}, It[s \ {Max(s)}] \in MemoryView
      PROVE  It[s] = F[<<It[s \ {Max(s)}], Max(s)>>]
  <2> DEFINE m == Max(s)
             r == s \ {m}
  <2>1. m \in 1..n
    BY <1>1, <1>9, LargestElement
  <2>2. It[s] = ApplyCommit(reverted, It[r], log[m])
    BY <1>1, <1>7, <1>9
  <2>3. It[r] \in MemoryView
    BY <1>9
  <2> HIDE DEF m, r
  <2>4. It[s] = F[<<It[r], m>>]
    BY <1>3, <2>1, <2>2, <2>3
  <2> QED
    BY <2>4 DEF m, r
<1>10. Leads(n, MemoryView, seed, F, It[1..n])
  <2>1. IsTypedRecursion(It, n, MemoryView, seed, F)
    BY <1>8, <1>9 DEF IsTypedRecursion
  <2>2. n \in Nat /\ seed \in MemoryView /\ F \in [MemoryView \X (1..n) -> MemoryView]
    BY <1>1, <1>3
  <2> QED
    BY <2>1, <2>2, RecursionIsPath
<1> QED
  BY <1>1, <1>2, <1>10 DEF n

\* A replay of nothing shows the seed; one commit more is applied last.
LEMMA ReplayWithSteps ==
    ASSUME NEW reverted, NEW C, Replayable(reverted, C),
           NEW seed \in MemoryView, NEW log \in Seq(C), NEW commit \in C
    PROVE  /\ ReplayWith(reverted, seed, <<>>) = seed
           /\ ReplayWith(reverted, seed, log) \in MemoryView
           /\ ReplayWith(reverted, seed, Append(log, commit)) = ApplyCommit(reverted, ReplayWith(reverted, seed, log), commit)
<1> DEFINE n == Len(log)
           more == Append(log, commit)
           F(l) == [p \in MemoryView \X (1..Len(l)) |-> ApplyCommit(reverted, p[1], l[p[2]])]
<1>1. /\ n \in Nat
      /\ more \in Seq(C) /\ Len(more) = n + 1
      /\ \A k \in 1..n : more[k] = log[k]
      /\ more[n + 1] = commit
  BY LenProperties, AppendProperties
<1>2. ReplayWith(reverted, seed, <<>>) = seed
  <2>1. <<>> \in Seq(C) /\ Len(<<>>) = 0
    BY EmptySeq
  <2>2. PICK h : IsPath(h, Len(<<>>), seed, F(<<>>)) /\ h[Len(<<>>)] = ReplayWith(reverted, seed, <<>>)
    <3> DEFINE e == <<>>
               G == F(e)
    <3>1. e \in Seq(C) /\ G = [p \in MemoryView \X (1..Len(e)) |-> ApplyCommit(reverted, p[1], e[p[2]])]
      BY <2>1
    <3> HIDE DEF e, G
    <3>2. Leads(Len(e), MemoryView, seed, G, ReplayWith(reverted, seed, e))
      BY <3>1, ReplayWithPath
    <3> QED
      BY <3>2 DEF e, G, Leads
  <2> QED
    BY <2>1, <2>2 DEF IsPath
<1>3. PICK h \in [0..n -> MemoryView] : IsPath(h, n, seed, F(log)) /\ h[n] = ReplayWith(reverted, seed, log)
  <2> DEFINE G == F(log)
  <2>1. G = [p \in MemoryView \X (1..Len(log)) |-> ApplyCommit(reverted, p[1], log[p[2]])]
    OBVIOUS
  <2> HIDE DEF G
  <2>2. Leads(Len(log), MemoryView, seed, G, ReplayWith(reverted, seed, log))
    BY <2>1, ReplayWithPath
  <2> QED
    BY <2>2 DEF G, Leads
<1> HIDE DEF more
<1>4. PICK g \in [0..(n + 1) -> MemoryView] :
            IsPath(g, n + 1, seed, F(more)) /\ g[n + 1] = ReplayWith(reverted, seed, more)
  <2> DEFINE G == F(more)
  <2>1. G = [p \in MemoryView \X (1..Len(more)) |-> ApplyCommit(reverted, p[1], more[p[2]])]
    OBVIOUS
  <2> HIDE DEF G
  <2>2. Leads(Len(more), MemoryView, seed, G, ReplayWith(reverted, seed, more))
    BY <1>1, <2>1, ReplayWithPath
  <2> QED
    BY <1>1, <2>2 DEF G, Leads
<1> HIDE DEF n
<1>5. /\ \A t \in MemoryView, k \in 1..n : F(log)[<<t, k>>] = ApplyCommit(reverted, t, log[k])
      /\ \A t \in MemoryView, k \in 1..(n + 1) : F(more)[<<t, k>>] = ApplyCommit(reverted, t, more[k])
  BY <1>1 DEF n
<1> HIDE DEF F
<1>6. \A k \in 0..n : g[k] = h[k]
  <2>1. ASSUME NEW k \in 1..n
        PROVE  F(log)[<<h[k - 1], k>>] = F(more)[<<h[k - 1], k>>]
    <3>1. more[k] = log[k] /\ k \in 1..(n + 1) /\ k - 1 \in 0..n
      BY <1>1
    <3>2. h[k - 1] \in MemoryView
      BY <3>1
    <3> QED
      BY <1>5, <3>1, <3>2
  <2>2. n + 1 \in Nat /\ n <= n + 1
    BY <1>1
  <2>3. AgreeOn(n, h, F(log), F(more))
    BY <2>1 DEF AgreeOn
  <2>4. IsPath(h, n, seed, F(log))
    BY <1>3
  <2>5. IsPath(g, n + 1, seed, F(more))
    BY <1>4
  <2>6. n \in Nat
    BY <1>1
  <2>7. SameUpTo(n, h, g)
    BY <2>2, <2>3, <2>4, <2>5, <2>6, PathsAgree
  <2> QED
    BY <2>7 DEF SameUpTo
<1>7. g[n] = h[n] /\ h[n] \in MemoryView /\ n + 1 \in 1..(n + 1) /\ (n + 1) - 1 = n
  BY <1>1, <1>3, <1>6
<1>8. g[n + 1] = F(more)[<<g[n], n + 1>>]
  BY <1>4, <1>7 DEF IsPath
<1>9. g[n + 1] = ApplyCommit(reverted, h[n], commit)
  BY <1>1, <1>5, <1>7, <1>8
<1> QED
  BY <1>2, <1>3, <1>4, <1>7, <1>9 DEF more

-----------------------------------------------------------------------------
(* What a batch leaves behind.                                             *)

\* The two operations a replacement is recorded as.
LEMMA ReplaceParts ==
    ASSUME NEW op \in MutationOperation, op.kind = "replace"
    PROVE  /\ TombstoneOp(op.object) \in MutationOperation
           /\ CreateOp(op.by, op.content) \in MutationOperation
<1>1. /\ op.object \in Objects \ OfKind({"resource_chunk"})
      /\ op.by \in Objects /\ op.content \in Content
  BY DEF MutationOperation, OfKind
<1> QED
  BY <1>1 DEF MutationOperation, TombstoneOp, CreateOp

\* Views and batches are closed under the operations clients send.
LEMMA OperationsAreApplicable ==
    Applicable(MutationOperation) /\ Expandable(MutationOperation)
<1>1. ASSUME NEW v \in MemoryView, NEW op \in MutationOperation
      PROVE  ApplyOperation(v, op) \in MemoryView
  BY OperationKeeps
<1>2. ASSUME NEW op \in MutationOperation
      PROVE  Expand(op) \in Seq(MutationOperation)
  <2>1. CASE op.kind = "replace"
    <3> DEFINE t == TombstoneOp(op.object)
               c == CreateOp(op.by, op.content)
    <3>1. t \in MutationOperation /\ c \in MutationOperation
      BY <2>1, ReplaceParts
    <3> HIDE DEF t, c
    <3>2. <<t, c>> \in Seq(MutationOperation)
      BY <3>1
    <3> QED
      BY <2>1, <3>2 DEF Expand, t, c
  <2>2. CASE op.kind # "replace"
    BY <2>2 DEF Expand
  <2> QED
    BY <2>1, <2>2
<1> QED
  BY <1>1, <1>2 DEF Applicable, Expandable

\* An operation more, recorded with its expansion.
LEMMA ExpandedOneMore ==
    ASSUME NEW view \in MemoryView, NEW ops \in Seq(MutationOperation),
           NEW op \in MutationOperation
    PROVE  /\ ApplyAll(view, Expanded(<<>>)) = view
           /\ ApplyAll(view, Expanded(ops)) \in MemoryView
           /\ ApplyAll(view, Expanded(Append(ops, op)))
                = ApplyExpanded(ApplyAll(view, Expanded(ops)), op)
<1> DEFINE E == Expanded(ops)
<1>1. /\ Expanded(<<>>) = <<>>
      /\ E \in Seq(MutationOperation)
      /\ Expanded(Append(ops, op)) = E \o Expand(op)
  BY OperationsAreApplicable, ExpandedSteps
<1> HIDE DEF E
<1>2. /\ ApplyAll(view, <<>>) = view
      /\ ApplyAll(view, E) \in MemoryView
  BY <1>1, OperationsAreApplicable, ApplyAllSteps
<1>3. CASE op.kind # "replace"
  <2>1. E \o Expand(op) = Append(E, op)
    BY <1>1, <1>3, AppendIsConcat DEF Expand
  <2>2. ApplyAll(view, Append(E, op)) = ApplyOperation(ApplyAll(view, E), op)
    BY <1>1, OperationsAreApplicable, ApplyAllSteps
  <2> QED
    BY <1>1, <1>2, <1>3, <2>1, <2>2 DEF ApplyExpanded, E
<1>4. CASE op.kind = "replace"
  <2> DEFINE t == TombstoneOp(op.object)
             c == CreateOp(op.by, op.content)
  <2>1. t \in MutationOperation /\ c \in MutationOperation
    BY <1>4, ReplaceParts
  <2>2. Expand(op) = <<t, c>>
    BY <1>4 DEF Expand
  <2> HIDE DEF t, c
  <2> DEFINE Et == Append(E, t)
  <2>3. Et \in Seq(MutationOperation)
    BY <1>1, <2>1, AppendProperties
  <2>4. E \o Expand(op) = Append(Et, c)
    <3>1. <<t, c>> = <<t>> \o <<c>>
      <4>1. <<t>> \in Seq(MutationOperation) /\ <<t, c>> = Append(<<t>>, c)
        BY <2>1
      <4> QED
        BY <2>1, <4>1, AppendIsConcat
    <3>2. Et = E \o <<t>> /\ Append(Et, c) = Et \o <<c>>
      BY <1>1, <2>1, <2>3, AppendIsConcat
    <3>3. (E \o <<t>>) \o <<c>> = E \o (<<t>> \o <<c>>)
      BY <1>1, <2>1, ConcatAssociative
    <3> HIDE DEF Et
    <3> QED
      BY <2>2, <3>1, <3>2, <3>3
  <2>5. ApplyAll(view, Et) = ApplyOperation(ApplyAll(view, E), t)
    BY <1>1, <2>1, OperationsAreApplicable, ApplyAllSteps
  <2> HIDE DEF Et
  <2>6. ApplyAll(view, Append(Et, c)) = ApplyOperation(ApplyAll(view, Et), c)
    BY <2>1, <2>3, OperationsAreApplicable, ApplyAllSteps
  <2> QED
    BY <1>1, <1>2, <1>4, <2>4, <2>5, <2>6 DEF ApplyExpanded, E, t, c
<1> QED
  BY <1>3, <1>4

\* The same for an operation that is recorded with its expansion.
LEMMA ExpandedKeeps ==
    ASSUME NEW v \in MemoryView, NEW op \in MutationOperation,
           NEW w, w = ApplyExpanded(v, op)
    PROVE  /\ w \in MemoryView
           /\ w.ok => v.ok
           /\ \A o \in Objects : Present(v, o) => Present(w, o)
<1>1. CASE op.kind # "replace"
  <2>1. w = ApplyOperation(v, op)
    BY <1>1 DEF ApplyExpanded
  <2> QED
    BY <2>1, OperationKeeps
<1>2. CASE op.kind = "replace"
  <2> DEFINE t == TombstoneOp(op.object)
             c == CreateOp(op.by, op.content)
             u == ApplyOperation(v, t)
  <2>1. t \in MutationOperation /\ c \in MutationOperation
    BY <1>2, ReplaceParts
  <2>2. w = ApplyOperation(u, c)
    BY <1>2 DEF ApplyExpanded
  <2> HIDE DEF t, c
  <2>3. /\ u \in MemoryView
        /\ u.ok => v.ok
        /\ \A o \in Objects : Present(v, o) => Present(u, o)
    BY <2>1, OperationKeeps
  <2> HIDE DEF u
  <2>4. /\ w \in MemoryView
        /\ w.ok => u.ok
        /\ \A o \in Objects : Present(u, o) => Present(w, o)
    BY <2>1, <2>2, <2>3, OperationKeeps
  <2> QED
    BY <2>3, <2>4
<1> QED
  BY <1>1, <1>2

NothingTombstoned(view) == \A o \in Objects : Present(view, o) => Active(view, o)

\* What a create that goes through leaves behind.
LEMMA AfterCreate ==
    ASSUME NEW v \in MemoryView, NEW op \in MutationOperation, op.kind = "create",
           NEW w, w = ApplyOperation(v, op), w.ok
    PROVE  /\ ~Present(v, op.object)
           /\ Active(w, op.object)
           /\ w.objects[op.object].content = op.content
           /\ \A o \in Objects : o # op.object => w.objects[o] = v.objects[o]
<1>1. op.object \in Objects /\ op.content \in Content
  BY DEF MutationOperation
<1>2. v.ok
  BY OperationKeeps
<1>3. w = ApplyCreate(v, op.object, op.content)
  BY <1>2 DEF ApplyOperation
<1>4. w # [v EXCEPT !.ok = FALSE]
  BY DEF MemoryView
<1>5. ~Present(v, op.object) /\ w = Store(v, op.object, "active", op.content)
  BY <1>3, <1>4 DEF ApplyCreate
<1> QED
  BY <1>1, <1>5 DEF Store, MemoryView, Active

\* What an update that goes through leaves behind: a resource keeps its status.
LEMMA AfterUpdate ==
    ASSUME NEW v \in MemoryView, NEW op \in MutationOperation, op.kind = "update",
           NEW w, w = ApplyOperation(v, op), w.ok
    PROVE  /\ Present(v, op.object)
           /\ \/ Active(w, op.object)
              \/ /\ Kind[op.object] = "resource"
                 /\ w.objects[op.object].status = v.objects[op.object].status
           /\ w.objects[op.object].content = op.content
           /\ \A o \in Objects : o # op.object => w.objects[o] = v.objects[o]
<1>1. op.object \in Objects /\ op.content \in Content
  BY DEF MutationOperation, OfKind
<1>2. v.ok
  BY OperationKeeps
<1>3. w = ApplyUpdate(v, op.object, op.content)
  BY <1>2 DEF ApplyOperation
<1>4. w # [v EXCEPT !.ok = FALSE]
  BY DEF MemoryView
<1>5. /\ Present(v, op.object)
      /\ \/ w = Store(v, op.object, "active", op.content)
         \/ /\ Kind[op.object] = "resource"
            /\ w = Store(v, op.object, v.objects[op.object].status, op.content)
  BY <1>3, <1>4 DEF ApplyUpdate
<1>6. CASE w = Store(v, op.object, "active", op.content)
  BY <1>1, <1>5, <1>6 DEF Store, MemoryView, Active
<1>7. CASE /\ Kind[op.object] = "resource"
           /\ w = Store(v, op.object, v.objects[op.object].status, op.content)
  BY <1>1, <1>5, <1>7 DEF Store, MemoryView, Active
<1> QED
  BY <1>5, <1>6, <1>7

\* What a tombstone leaves behind.
LEMMA AfterTombstone ==
    ASSUME NEW v \in MemoryView, NEW op \in MutationOperation, op.kind = "tombstone",
           NEW w, w = ApplyOperation(v, op), w.ok
    PROVE  ~Active(w, op.object)
<1>1. op.object \in Objects
  BY DEF MutationOperation
<1>2. v.ok
  BY OperationKeeps
<1>3. w = ApplyTombstone(v, op.object)
  BY <1>2 DEF ApplyOperation
<1> DEFINE after(x) == IF x \in Cascade(v, op.object)
                       THEN [v.objects[x] EXCEPT !.status = "tombstoned"]
                       ELSE v.objects[x]
           objects == [x \in Objects |-> after(x)]
<1>4. w = [v EXCEPT !.objects = objects]
  BY <1>3 DEF ApplyTombstone
<1>5. objects[op.object] = after(op.object)
  BY <1>1
<1>6. Present(v, op.object) => op.object \in Cascade(v, op.object)
  BY <1>1 DEF Cascade
<1>7. v.objects[op.object] \in MemoryObject
  BY <1>1 DEF MemoryView
<1>8. after(op.object).status # "active"
  BY <1>6, <1>7 DEF Present, MemoryObject
<1> HIDE DEF after, objects
<1>9. w.objects = objects
  BY <1>4 DEF MemoryView
<1> QED
  BY <1>5, <1>8, <1>9 DEF Active

\* The operation of a batch that goes through does what it is meant to do, if
\* the relation it replaces is there and it revises no tombstoned resource.
LEMMA OperationTakesEffect ==
    ASSUME NEW v \in MemoryView, NEW op \in MutationOperation,
           NEW w, w = ApplyExpanded(v, op), w.ok,
           op.kind = "replace" => Present(v, op.object),
           op.kind = "update" /\ Kind[op.object] = "resource" => NothingTombstoned(v)
    PROVE  InForce(w, op)
<1>1. CASE op.kind = "create"
  <2>1. w = ApplyOperation(v, op)
    BY <1>1 DEF ApplyExpanded
  <2> QED
    BY <1>1, <2>1, AfterCreate DEF InForce
<1>2. CASE op.kind = "update"
  <2>1. w = ApplyOperation(v, op)
    BY <1>2 DEF ApplyExpanded
  <2>2. op.object \in Objects
    BY <1>2 DEF MutationOperation, OfKind
  <2>3. /\ Present(v, op.object)
        /\ \/ Active(w, op.object)
           \/ /\ Kind[op.object] = "resource"
              /\ w.objects[op.object].status = v.objects[op.object].status
        /\ w.objects[op.object].content = op.content
    BY <1>2, <2>1, AfterUpdate
  <2>4. Active(w, op.object)
    BY <1>2, <2>2, <2>3 DEF NothingTombstoned, Active
  <2> QED
    BY <1>2, <2>3, <2>4 DEF InForce
<1>3. CASE op.kind = "tombstone"
  <2>1. w = ApplyOperation(v, op)
    BY <1>3 DEF ApplyExpanded
  <2> QED
    BY <1>3, <2>1, AfterTombstone DEF InForce
<1>4. CASE op.kind = "replace"
  <2> DEFINE t == TombstoneOp(op.object)
             c == CreateOp(op.by, op.content)
             u == ApplyOperation(v, t)
  <2>1. t \in MutationOperation /\ c \in MutationOperation
    BY <1>4, ReplaceParts
  <2>2. w = ApplyOperation(u, c)
    BY <1>4 DEF ApplyExpanded
  <2>3. t.kind = "tombstone" /\ t.object = op.object
    BY DEF TombstoneOp
  <2>4. c.kind = "create" /\ c.object = op.by /\ c.content = op.content
    BY DEF CreateOp
  <2>5. op.object \in Objects /\ op.by \in Objects
    BY <1>4 DEF MutationOperation, OfKind
  <2> HIDE DEF t, c
  <2>6. u \in MemoryView /\ Present(u, op.object)
    BY <1>4, <2>1, <2>5, OperationKeeps
  <2>7. u.ok
    <3> HIDE DEF u
    <3> QED
      BY <2>1, <2>2, <2>6, OperationKeeps
  <2>8. ~Active(u, op.object)
    BY <2>1, <2>3, <2>7, AfterTombstone
  <2> HIDE DEF u
  <2>9. /\ ~Present(u, op.by)
        /\ Active(w, op.by)
        /\ w.objects[op.by].content = op.content
        /\ \A o \in Objects : o # op.by => w.objects[o] = u.objects[o]
    BY <2>1, <2>2, <2>4, <2>6, AfterCreate
  <2>10. ~Active(w, op.object)
    BY <2>5, <2>6, <2>8, <2>9 DEF Active
  <2> QED
    BY <1>4, <2>9, <2>10 DEF InForce
<1> QED
  BY <1>1, <1>2, <1>3, <1>4 DEF MutationOperation

\* On a conflict branch the last operation of the captured write is in force:
\* the branch starts without tombstones and with the objects the write
\* replaces, and a batch that revises resources tombstones none.
LEMMA ForkShowsWrite ==
    ASSUME NEW seed \in MemoryView, NothingTombstoned(seed),
           NEW ops \in Seq(MutationOperation), PermittedBatch(ops),
           \A i \in DOMAIN ops : ops[i].kind = "replace" => Present(seed, ops[i].object),
           ApplyAll(seed, Expanded(ops)).ok
    PROVE  InForce(ApplyAll(seed, Expanded(ops)), ops[Len(ops)])
<1> DEFINE n == Len(ops)
           View(k) == ApplyAll(seed, Expanded(SubSeq(ops, 1, k)))
<1>1. n \in Nat /\ DOMAIN ops = 1..n /\ \A k \in 1..n : ops[k] \in MutationOperation
  BY LenProperties, ElementOfSeq
<1>2. n # 0
  BY EmptySeq DEF PermittedBatch
<1>3. \A k \in 0..n : SubSeq(ops, 1, k) \in Seq(MutationOperation)
  BY PrefixSteps
<1>4. \A k \in 0..n : View(k) \in MemoryView
  <2> TAKE k \in 0..n
  <2> DEFINE front == SubSeq(ops, 1, k)
             op == ops[n]
  <2>1. front \in Seq(MutationOperation) /\ op \in MutationOperation
    BY <1>1, <1>2, <1>3
  <2> HIDE DEF front, op
  <2>2. ApplyAll(seed, Expanded(front)) \in MemoryView
    BY <2>1, ExpandedOneMore
  <2> QED
    BY <2>2 DEF front
<1>5. View(0) = seed
  <2>1. SubSeq(ops, 1, 0) = <<>>
    BY PrefixSteps
  <2>2. <<>> \in Seq(MutationOperation) /\ 1 \in 1..n
    BY <1>1, <1>2, EmptySeq
  <2> QED
    BY <1>1, <2>1, <2>2, ExpandedOneMore
<1>6. ASSUME NEW k \in 0..n, k < n
      PROVE  View(k + 1) = ApplyExpanded(View(k), ops[k + 1])
  <2>1. SubSeq(ops, 1, k + 1) = Append(SubSeq(ops, 1, k), ops[k + 1])
    BY <1>6, PrefixSteps
  <2>2. k + 1 \in 1..n
    BY <1>1, <1>6
  <2> DEFINE front == SubSeq(ops, 1, k)
             op == ops[k + 1]
  <2>3. front \in Seq(MutationOperation) /\ op \in MutationOperation
    BY <1>1, <1>3, <2>2
  <2> HIDE DEF front, op
  <2>4. ApplyAll(seed, Expanded(Append(front, op)))
            = ApplyExpanded(ApplyAll(seed, Expanded(front)), op)
    BY <2>3, ExpandedOneMore
  <2> QED
    BY <2>1, <2>4 DEF front, op
<1>7. View(n) = ApplyAll(seed, Expanded(ops))
  BY PrefixSteps
<1> HIDE DEF View
<1>8. \A k \in 0..n : \A o \in Objects : Present(seed, o) => Present(View(k), o)
  <2> DEFINE S == {k \in 0..n : \A o \in Objects : Present(seed, o) => Present(View(k), o)}
  <2>1. 0 \in S
    BY <1>1, <1>5
  <2>2. ASSUME NEW k \in 0..n, k \in S /\ k < n
        PROVE  k + 1 \in S
    <3>1. k + 1 \in 1..n /\ k + 1 \in 0..n
      BY <1>1, <2>2
    <3>2. \A o \in Objects : Present(View(k), o) => Present(View(k + 1), o)
      BY <1>1, <1>4, <1>6, <2>2, <3>1, ExpandedKeeps
    <3> QED
      BY <2>2, <3>1, <3>2
  <2> HIDE DEF S
  <2>3. 0..n \subseteq S
    BY <1>1, <2>1, <2>2, BoundedInduction
  <2> QED
    BY <2>3 DEF S
<1>9. ASSUME \A i \in DOMAIN ops : ops[i].kind \in {"create", "update"}
      PROVE  \A k \in 0..n : View(k).ok => NothingTombstoned(View(k))
  <2> DEFINE S == {k \in 0..n : View(k).ok => NothingTombstoned(View(k))}
  <2>1. 0 \in S
    BY <1>1, <1>5
  <2>2. ASSUME NEW k \in 0..n, k \in S /\ k < n
        PROVE  k + 1 \in S
    <3> DEFINE v == View(k)
               w == View(k + 1)
               op == ops[k + 1]
    <3>1. k + 1 \in 1..n /\ k + 1 \in 0..n
      BY <1>1, <2>2
    <3>2. v \in MemoryView /\ op \in MutationOperation /\ w = ApplyExpanded(v, op)
      BY <1>1, <1>4, <1>6, <2>2, <3>1
    <3>3. op.kind \in {"create", "update"}
      BY <1>1, <1>9, <3>1
    <3> SUFFICES ASSUME w.ok
                 PROVE  NothingTombstoned(w)
      BY <3>1
    <3> HIDE DEF v, w, op
    <3>4. w = ApplyOperation(v, op) /\ v.ok
      BY <3>2, <3>3, ExpandedKeeps DEF ApplyExpanded
    <3>5. NothingTombstoned(v)
      BY <2>2, <3>4 DEF v
    <3>6. op.object \in Objects
      BY <3>2, <3>3 DEF MutationOperation, OfKind
    <3>7. /\ \A o \in Objects : o # op.object => w.objects[o] = v.objects[o]
          /\ Active(w, op.object) \/ w.objects[op.object].status = v.objects[op.object].status
      <4>1. CASE op.kind = "create"
        BY <3>2, <3>4, <4>1, AfterCreate
      <4>2. CASE op.kind = "update"
        BY <3>2, <3>4, <4>2, AfterUpdate
      <4> QED
        BY <3>3, <4>1, <4>2
    <3> QED
      BY <3>5, <3>6, <3>7 DEF NothingTombstoned, Present, Active
  <2> HIDE DEF S
  <2>3. 0..n \subseteq S
    BY <1>1, <2>1, <2>2, BoundedInduction
  <2> QED
    BY <2>3 DEF S
<1> DEFINE j == n - 1
<1>10. j \in 0..n /\ j < n /\ j + 1 = n /\ n \in 1..n
  BY <1>1, <1>2
<1> HIDE DEF j
<1> DEFINE v == View(j)
           w == View(n)
           op == ops[n]
<1>11. v \in MemoryView /\ op \in MutationOperation /\ w = ApplyExpanded(v, op) /\ w.ok
  BY <1>1, <1>4, <1>6, <1>7, <1>10
<1>12. op.kind = "replace" => Present(v, op.object)
  <2>1. op.kind = "replace" => op.object \in Objects
    BY <1>11 DEF MutationOperation, OfKind
  <2>2. op.kind = "replace" => Present(seed, op.object)
    BY <1>1, <1>10
  <2> QED
    BY <1>8, <1>10, <2>1, <2>2
<1>13. op.kind = "update" /\ Kind[op.object] = "resource" => NothingTombstoned(v)
  <2> SUFFICES ASSUME op.kind = "update", Kind[op.object] = "resource"
               PROVE  NothingTombstoned(v)
    OBVIOUS
  <2>1. \A i \in DOMAIN ops : ops[i].kind \in {"create", "update"}
    BY <1>1, <1>10 DEF PermittedBatch, CreatesRoot, IsRevert
  <2>2. v.ok
    BY <1>11, ExpandedKeeps
  <2> QED
    BY <1>9, <1>10, <2>1, <2>2
<1> HIDE DEF v, w, op
<1>14. InForce(w, op)
  BY <1>11, <1>12, <1>13, OperationTakesEffect
<1> QED
  BY <1>7, <1>14 DEF w, op

-----------------------------------------------------------------------------
(* The elements of a list at some positions.                               *)

PicksOut(f, m, I, list, s) ==
    /\ m \in Nat /\ Enumerates(f, m, I)
    /\ IsFiniteSet(I) /\ Cardinality(I) = m
    /\ s = [n \in 1..m |-> list[f[n]]]

\* What At returns, by an enumeration of the positions.
LEMMA EnumeratedAt ==
    ASSUME NEW m \in Nat, NEW f, NEW I, Enumerates(f, m, I), NEW list
    PROVE  PicksOut(f, m, I, list, At(list, I))
<1>1. Cardinality(I) = m /\ IsFiniteSet(I)
  BY EnumerationCounts
<1>2. ASSUME NEW n \in 1..m
      PROVE  Nth(I, n) = f[n]
  <2>1. \A i : IsNth(i, n, I) <=> i = f[n]
    BY EnumerationOrder
  <2>2. f[n] \in I /\ Cardinality({j \in I : j <= f[n]}) = n
    BY <2>1 DEF IsNth
  <2>3. \A i \in I : Cardinality({j \in I : j <= i}) = n => i = f[n]
    BY <2>1 DEF IsNth
  <2> QED
    BY <2>2, <2>3 DEF Nth
<1>3. At(list, I) = [n \in 1..m |-> list[f[n]]]
  BY <1>1, <1>2 DEF At
<1> QED
  BY <1>1, <1>3 DEF PicksOut

\* As many elements as positions.
LEMMA AtLength ==
    ASSUME NEW L \in Nat, NEW I \in SUBSET (1..L), NEW list
    PROVE  /\ Cardinality(I) \in Nat /\ IsFiniteSet(I)
           /\ DOMAIN At(list, I) = 1..Cardinality(I)
<1>0. PICK m \in Nat : \E f : Enumerates(f, m, I)
  BY SubsetIsEnumerated DEF IsEnumerated
<1>1. PICK f : Enumerates(f, m, I)
  BY <1>0
<1>2. PicksOut(f, m, I, list, At(list, I))
  BY <1>1, EnumeratedAt
<1> QED
  BY <1>2 DEF PicksOut

TakesFrom(s, list, I) ==
    /\ \A n \in 1..Cardinality(I) : \E i \in I : s[n] = list[i]
    /\ \A i \in I : \E n \in 1..Cardinality(I) : s[n] = list[i]

\* Every element of At stands at one of the positions, every position gives one.
LEMMA AtElements ==
    ASSUME NEW L \in Nat, NEW I \in SUBSET (1..L), NEW list
    PROVE  TakesFrom(At(list, I), list, I)
<1>0. PICK m \in Nat : \E f : Enumerates(f, m, I)
  BY SubsetIsEnumerated DEF IsEnumerated
<1>1. PICK f : Enumerates(f, m, I)
  BY <1>0
<1>2. PicksOut(f, m, I, list, At(list, I))
  BY <1>1, EnumeratedAt
<1>3. I = {f[k] : k \in 1..m}
  BY <1>1 DEF Enumerates
<1> QED
  BY <1>2, <1>3 DEF PicksOut, TakesFrom

Prolongs(longer, list, L) == \A i \in 1..L : longer[i] = list[i]

\* At of a list that grows by one element.
LEMMA AtOfLonger ==
    ASSUME NEW L \in Nat, NEW I \in SUBSET (1..L), NEW list, NEW longer,
           Prolongs(longer, list, L), NEW J, J = I \cup {L + 1}
    PROVE  /\ At(longer, I) = At(list, I)
           /\ DOMAIN At(longer, J) = 1..(Cardinality(I) + 1)
           /\ \A n \in 1..Cardinality(I) : At(longer, J)[n] = At(list, I)[n]
           /\ At(longer, J)[Cardinality(I) + 1] = longer[L + 1]
<1>0. PICK m \in Nat : \E f : Enumerates(f, m, I)
  BY SubsetIsEnumerated DEF IsEnumerated
<1>1. PICK f : Enumerates(f, m, I)
  BY <1>0
<1>2. /\ PicksOut(f, m, I, list, At(list, I))
      /\ PicksOut(f, m, I, longer, At(longer, I))
  BY <1>1, EnumeratedAt
<1>3. \A n \in 1..m : f[n] \in 1..L
  BY <1>1 DEF Enumerates
<1>4. At(longer, I) = At(list, I)
  BY <1>2, <1>3 DEF PicksOut, Prolongs
<1> DEFINE h == [x \in 1..(m + 1) |-> IF x <= m THEN f[x] ELSE L + (x - m)]
           one == 1
<1>5. Enumerates(h, m + 1, J)
  <2>1. ContinuesFrom(h, f, m, one, L)
    BY DEF ContinuesFrom
  <2>2. BoundedBy(I, L)
    BY DEF BoundedBy
  <2>3. one \in Nat /\ m + one = m + 1 /\ WithNext(I, L, one) = J
    BY DEF WithNext
  <2> HIDE DEF h, one
  <2>4. Enumerates(h, m + one, WithNext(I, L, one))
    BY <1>1, <2>1, <2>2, <2>3, ExtendEnumeration
  <2> QED
    BY <2>3, <2>4
<1>7. \A n \in 1..(m + 1) : longer[h[n]] = IF n <= m THEN list[f[n]] ELSE longer[L + 1]
  <2>1. ASSUME NEW n \in 1..(m + 1)
        PROVE  longer[h[n]] = IF n <= m THEN list[f[n]] ELSE longer[L + 1]
    <3>1. CASE n <= m
      <4>1. n \in 1..m /\ h[n] = f[n]
        BY <3>1
      <4> QED
        BY <1>3, <3>1, <4>1 DEF Prolongs
    <3>2. CASE ~(n <= m)
      <4>1. n = m + 1 /\ h[n] = L + 1
        BY <3>2
      <4> QED
        BY <3>2, <4>1
    <3> QED
      BY <3>1, <3>2
  <2> QED
    BY <2>1
<1> HIDE DEF h
<1>8. PicksOut(h, m + 1, J, longer, At(longer, J))
  <2>1. m + 1 \in Nat
    OBVIOUS
  <2> DEFINE k == m + 1
  <2> HIDE DEF k
  <2>2. k \in Nat /\ Enumerates(h, k, J)
    BY <1>5, <2>1 DEF k
  <2>3. PicksOut(h, k, J, longer, At(longer, J))
    BY <2>2, EnumeratedAt
  <2> QED
    BY <2>3 DEF k
<1>9. /\ Cardinality(I) = m /\ Cardinality(J) = m + 1
      /\ At(longer, J) = [n \in 1..(m + 1) |-> longer[h[n]]]
      /\ \A n \in 1..m : At(list, I)[n] = list[f[n]]
  BY <1>2, <1>8 DEF PicksOut
<1>10. /\ DOMAIN At(longer, J) = 1..(m + 1)
       /\ \A n \in 1..m : At(longer, J)[n] = At(list, I)[n]
       /\ At(longer, J)[m + 1] = longer[L + 1]
  <2>1. \A n \in 1..m : n \in 1..(m + 1) /\ n <= m
    OBVIOUS
  <2>2. m + 1 \in 1..(m + 1) /\ ~(m + 1 <= m)
    OBVIOUS
  <2> QED
    BY <1>7, <1>9, <2>1, <2>2
<1> QED
  BY <1>4, <1>9, <1>10

=============================================================================
