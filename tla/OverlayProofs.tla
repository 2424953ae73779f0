---------------------------- MODULE OverlayProofs ----------------------------
(***************************************************************************)
(* Proofs about the pending overlay: its type, that an operation leaves    *)
(* the overlay only when the cloud has decided it, and that a restart      *)
(* agrees with what was stored.                                            *)
(***************************************************************************)
EXTENDS PendingOverlay, CloudHistoryProofs

-----------------------------------------------------------------------------
(* The cloud below the overlay.                                            *)

\* What a commit appends to the records comes after them, an answer that was given
\* stays.
Extended == \E n \in Nat : RecordsExtended(n)

AnswersStay ==
    \A w \in WriteId : idempotency[w] # NoResult => idempotency'[w] = idempotency[w]

\* A record that is kept as a conflict resolves none.
MarkersAccepted ==
    \A i \in DOMAIN records :
        records[i].status = "conflicted" => records[i].ops[1].kind # "resolve_conflict"

CloudInv == IInv /\ MarkersAccepted

CloudMoves == CloudInv' /\ Extended /\ AnswersStay

\* Accepted records add no conflicted one.
LEMMA AcceptedKeepMarkers ==
    ASSUME MarkersAccepted, NEW b, NEW n \in Nat, NEW new, RecordsAppended(b, n, new)
    PROVE  MarkersAccepted' /\ Extended
<1>1. /\ Len(records) \in Nat /\ DOMAIN records = 1..Len(records)
      /\ DOMAIN records' = 1..(Len(records) + n)
      /\ \A i \in 1..Len(records) : records'[i] = records[i]
  BY DEF RecordsAppended
<1>4. ASSUME NEW k \in 1..n
      PROVE  records'[Len(records) + k].status = "accepted"
  <2>1. records'[Len(records) + k] =
          [sequence |-> sequence + k, branch |-> b, id |-> new[k].id,
           ops |-> new[k].ops, status |-> "accepted"]
    BY DEF RecordsAppended
  <2> QED
    BY <2>1
<1>2. ASSUME NEW i \in DOMAIN records', records'[i].status = "conflicted"
      PROVE  records'[i].ops[1].kind # "resolve_conflict"
  <2>1. CASE i \in 1..Len(records)
    BY <1>1, <1>2, <2>1 DEF MarkersAccepted
  <2>2. CASE i \notin 1..Len(records)
    <3>1. i - Len(records) \in 1..n /\ Len(records) + (i - Len(records)) = i
      BY <1>1, <2>2
    <3> QED
      BY <1>4, <1>2, <3>1
  <2> QED
    BY <2>1, <2>2
<1>3. RecordsExtended(n)
  BY <1>1 DEF RecordsExtended
<1> QED
  BY <1>2, <1>3 DEF MarkersAccepted, Extended

\* Neither does a conflict, of operations that resolve none.
LEMMA CapturedKeepsMarkers ==
    ASSUME MarkersAccepted, NEW b, NEW m, NEW ops \in Batch, ops[1].kind # "resolve_conflict",
           RecordCaptured(b, m, ops)
    PROVE  MarkersAccepted' /\ Extended
<1>1. /\ Len(records) \in Nat /\ DOMAIN records = 1..Len(records)
      /\ DOMAIN records' = 1..(Len(records) + 1)
      /\ \A i \in 1..Len(records) : records'[i] = records[i]
      /\ records'[Len(records) + 1].ops = ops
  BY DEF RecordCaptured
<1>2. ASSUME NEW i \in DOMAIN records', records'[i].status = "conflicted"
      PROVE  records'[i].ops[1].kind # "resolve_conflict"
  <2>1. i \in 1..Len(records) \/ i = Len(records) + 1
    BY <1>1
  <2> QED
    BY <1>1, <1>2, <2>1 DEF MarkersAccepted
<1>3. RecordsExtended(1)
  BY <1>1 DEF RecordsExtended
<1> QED
  BY <1>2, <1>3 DEF MarkersAccepted, Extended

\* What is remembered is remembered of a mutation that had no answer.
LEMMA RememberedStays ==
    ASSUME IInv, NEW b \in Branches, NEW m \in Mutations, NEW status, NEW s, NEW ops, NEW base,
           idempotency[<<b, m>>] = NoResult, Remember(<<b, m>>, status, s, ops, base)
    PROVE  AnswersStay /\ idempotency'[<<b, m>>] # NoResult
<1>1. <<b, m>> \in WriteId /\ DOMAIN idempotency = WriteId
  BY DEF WriteId, IInv, TypeOK
<1>2. idempotency' = [idempotency EXCEPT ![<<b, m>>] =
        [status |-> status, sequence |-> s, ops |-> ops, base |-> base]]
  BY DEF Remember
<1>3. [status |-> status, sequence |-> s, ops |-> ops, base |-> base] # NoResult
  BY DEF NoResult
<1> QED
  BY <1>1, <1>2, <1>3 DEF AnswersStay

\* A call of execute, with whatever operations that resolve nothing.
LEMMA WriteMoves ==
    ASSUME CloudInv, NEW b \in Branches, NEW m \in Mutations, NEW base,
           NEW ops \in Batch, ops[1].kind # "resolve_conflict",
           \/ AcceptWrite(b, m, base, ops)
           \/ ReuseEquivalent(b, m, base, ops)
           \/ CaptureConflict(b, m, base, ops)
    PROVE  CloudMoves /\ idempotency'[<<b, m>>] # NoResult
<1>1. IInv /\ MarkersAccepted
  BY DEF CloudInv
<1>2. idempotency[<<b, m>>] = NoResult /\ base \in KnownBases(b)
  BY DEF AcceptWrite, ReuseEquivalent, CaptureConflict, Unanswered, BaseKnown, KnownBases
<1>3. AnswersStay /\ idempotency'[<<b, m>>] # NoResult
  BY <1>1, <1>2, RememberedStays DEF AcceptWrite, ReuseEquivalent, CaptureConflict
<1>4. CASE AcceptWrite(b, m, base, ops)
  <2>1. PICK new \in [1..1 -> Commit], bases \in [1..1 -> CommitId \cup {None}] :
            Accept(b, new, bases)
    BY <1>1, <1>2, <1>4, AcceptedGoesThrough
  <2>2. TypeOK /\ sequence = Len(records) /\ 1 \in Nat
    BY <1>1 DEF IInv, Numbered
  <2>3. RecordsAppended(b, 1, new)
    BY <2>1, <2>2, AcceptAppends
  <2>4. IInv'
    BY <1>1, <1>2, <1>4, AcceptWritePreserves
  <2> QED
    BY <1>1, <1>3, <2>2, <2>3, <2>4, AcceptedKeepMarkers DEF CloudMoves, CloudInv
<1>5. CASE ReuseEquivalent(b, m, base, ops)
  <2>1. UNCHANGED records
    BY <1>5 DEF ReuseEquivalent
  <2>2. IInv'
    BY <1>1, <1>2, <1>5, ReuseEquivalentPreserves
  <2>3. RecordsExtended(0)
    BY <1>1, <2>1, LenProperties DEF RecordsExtended, IInv, TypeOK
  <2>4. 0 \in Nat /\ MarkersAccepted'
    BY <1>1, <2>1 DEF MarkersAccepted
  <2> QED
    BY <1>3, <2>2, <2>3, <2>4 DEF CloudMoves, CloudInv, Extended
<1>6. CASE CaptureConflict(b, m, base, ops)
  <2>1. RecordCaptured(b, m, ops)
    BY <1>1, <1>2, <1>6, CaptureRecords
  <2>2. IInv'
    BY <1>1, <1>2, <1>6, CaptureConflictPreserves
  <2> QED
    BY <1>1, <1>3, <2>1, <2>2, CapturedKeepsMarkers DEF CloudMoves, CloudInv
<1> QED
  BY <1>3, <1>4, <1>5, <1>6

\* What the other clients and the administrators do.
LEMMA NextMoves ==
    ASSUME CloudInv, [Next]_vars
    PROVE  CloudMoves
<1>1. IInv /\ MarkersAccepted
  BY DEF CloudInv
<1>2. CASE UNCHANGED vars
  <2>1. UNCHANGED <<records, idempotency>>
    BY <1>2 DEF vars
  <2>2. IInv'
    BY <1>1, NextPreserves
  <2>3. RecordsExtended(0)
    BY <1>1, <2>1, LenProperties DEF RecordsExtended, IInv, TypeOK
  <2>4. 0 \in Nat /\ MarkersAccepted' /\ AnswersStay
    BY <1>1, <2>1 DEF MarkersAccepted, AnswersStay
  <2> QED
    BY <2>2, <2>3, <2>4 DEF CloudMoves, CloudInv, Extended
<1>3. CASE WriteStep
  <2>1. PICK b \in Branches, m \in Mutations :
        \E base \in KnownBases(b), ops \in WriteBatches \cup Reverts(b) :
            \/ AcceptWrite(b, m, base, ops)
            \/ ReuseEquivalent(b, m, base, ops)
            \/ CaptureConflict(b, m, base, ops)
    BY <1>3 DEF WriteStep
  <2>2. PICK base \in KnownBases(b), ops \in WriteBatches \cup Reverts(b) :
            \/ AcceptWrite(b, m, base, ops)
            \/ ReuseEquivalent(b, m, base, ops)
            \/ CaptureConflict(b, m, base, ops)
    BY <2>1
  <2>3. ops \in Batch
    BY <1>1, BatchesAreTyped DEF IInv
  <2>4. ops[1].kind # "resolve_conflict"
    <3>1. 1 \in DOMAIN ops
      BY <2>3, EmptySeq, LenProperties DEF Batch
    <3> QED
      BY <3>1, BatchNamesNothing DEF NamesNothing
  <2> QED
    BY <2>2, <2>3, <2>4, WriteMoves
<1>4. CASE ResolutionStep
  <2>1. PICK b \in Branches, r \in Resolutions, cs \in ConflictLists, n \in Nat \ {0} :
            \E new : Chain(b, r, cs, n, new)
    BY <1>1, <1>4, ResolutionAcceptsChain DEF ChainStep
  <2>2. PICK new : Chain(b, r, cs, n, new)
    BY <2>1
  <2>3. /\ new \in [1..n -> Commit] /\ Accept(b, new, Bases(b, new)) /\ n \in Nat
        /\ idempotency' = idempotency
    BY <2>2 DEF Chain
  <2>4. RecordsAppended(b, n, new)
    <3>1. TypeOK /\ sequence = Len(records)
      BY <1>1 DEF IInv, Numbered
    <3> QED
      BY <1>1, <2>3, <3>1, BasesOfChain, AcceptAppends
  <2>5. IInv' /\ AnswersStay
    BY <1>1, <2>3, NextPreserves DEF AnswersStay
  <2> QED
    BY <1>1, <2>3, <2>4, <2>5, AcceptedKeepMarkers DEF CloudMoves, CloudInv
<1> QED
  BY <1>1, <1>2, <1>3, <1>4, StepShapes

-----------------------------------------------------------------------------
(* What the overlay shows are contents.                                    *)

\* The views the fragments lead through.
LEMMA RehydratedIsShown ==
    ASSUME NEW shown \in Shown, NEW active \in Seq(PendingRecord)
    PROVE  Rehydrated(shown, active) \in Shown
<1> DEFINE n == Len(active)
           F == [p \in Shown \X (1..n) |-> Rehydrate(p[1], active[p[2]].fragment)]
           It == CHOOSE iter : iter =
                    [s \in SUBSET DOMAIN active |->
                        IF s = {} THEN shown
                        ELSE Rehydrate(iter[s \ {Max(s)}], active[Max(s)].fragment)]
<1>1. n \in Nat /\ DOMAIN active = 1..n /\ \A k \in 1..n : active[k] \in PendingRecord
  BY LenProperties, ElementOfSeq
<1>2. Rehydrated(shown, active) = It[DOMAIN active]
  BY DEF Rehydrated, FoldLeft, MapThenFoldSet
<1>3. /\ F \in [Shown \X (1..n) -> Shown]
      /\ \A t \in Shown, k \in 1..n : F[<<t, k>>] = Rehydrate(t, active[k].fragment)
  <2>1. \A t \in Shown, k \in 1..n : Rehydrate(t, active[k].fragment) \in Shown
    <3> SUFFICES ASSUME NEW t \in Shown, NEW k \in 1..n
                 PROVE  Rehydrate(t, active[k].fragment) \in Shown
      OBVIOUS
    <3>1. active[k].fragment \in Shown
      BY <1>1 DEF PendingRecord
    <3> QED
      BY <3>1 DEF Rehydrate, Shown
  <2> HIDE DEF n
  <2> QED
    BY <2>1
<1> HIDE DEF n, F
<1>4. PICK iter \in [SUBSET (1..n) -> Shown] : IsRecursion(iter, n, shown, F)
  BY <1>1, <1>3, RecursionExists
<1>5. ASSUME NEW s \in SUBSET (1..n), s # {}
      PROVE  iter[s] = Rehydrate(iter[s \ {Max(s)}], active[Max(s)].fragment)
  <2> DEFINE m == Max(s)
             r == s \ {m}
  <2>1. m \in 1..n /\ r \in SUBSET (1..n)
    BY <1>1, <1>5, LargestElement
  <2> HIDE DEF m, r
  <2>2. F[<<iter[r], m>>] = Rehydrate(iter[r], active[m].fragment)
    BY <1>3, <1>4, <2>1
  <2> QED
    BY <1>4, <1>5, <2>2 DEF r, m, IsRecursion
<1>6. iter = [s \in SUBSET DOMAIN active |->
                IF s = {} THEN shown
                ELSE Rehydrate(iter[s \ {Max(s)}], active[Max(s)].fragment)]
  BY <1>1, <1>4, <1>5 DEF IsRecursion
<1>7. It = [s \in SUBSET DOMAIN active |->
                IF s = {} THEN shown
                ELSE Rehydrate(It[s \ {Max(s)}], active[Max(s)].fragment)]
  BY <1>6
<1> HIDE DEF It
<1>8. It[{}] = shown
  BY <1>7
<1>9. ASSUME NEW s \in SUBSET (1..n), s # {}, It[s \ {Max(s)}] \in Shown
      PROVE  It[s] = F[<<It[s \ {Max(s)}], Max(s)>>]
  <2> DEFINE m == Max(s)
             r == s \ {m}
  <2>1. m \in 1..n
    BY <1>1, <1>9, LargestElement
  <2>2. It[s] = Rehydrate(It[r], active[m].fragment)
    BY <1>1, <1>7, <1>9
  <2>3. It[r] \in Shown
    BY <1>9
  <2> HIDE DEF m, r
  <2>4. It[s] = F[<<It[r], m>>]
    BY <1>3, <2>1, <2>2, <2>3
  <2> QED
    BY <2>4 DEF m, r
<1>10. Leads(n, Shown, shown, F, It[1..n])
  <2>1. IsTypedRecursion(It, n, Shown, shown, F)
    BY <1>8, <1>9 DEF IsTypedRecursion
  <2> QED
    BY <1>1, <1>3, <2>1, RecursionIsPath
<1>11. It[1..n] \in Shown
  BY <1>1, <1>10 DEF Leads
<1> QED
  BY <1>1, <1>2, <1>11

\* The views the removals lead through.
LEMMA UnshadowedIsShown ==
    ASSUME NEW shown \in Shown, NEW active \in Seq(PendingRecord)
    PROVE  Unshadowed(shown, active) \in Shown
<1> DEFINE n == Len(active)
           F == [p \in Shown \X (1..n) |-> RemoveShadowed(p[1], active[p[2]].op)]
           It == CHOOSE iter : iter =
                    [s \in SUBSET DOMAIN active |->
                        IF s = {} THEN shown
                        ELSE RemoveShadowed(iter[s \ {Max(s)}], active[Max(s)].op)]
<1>1. n \in Nat /\ DOMAIN active = 1..n /\ \A k \in 1..n : active[k] \in PendingRecord
  BY LenProperties, ElementOfSeq
<1>2. Unshadowed(shown, active) = It[DOMAIN active]
  BY DEF Unshadowed, FoldLeft, MapThenFoldSet
<1>3. /\ F \in [Shown \X (1..n) -> Shown]
      /\ \A t \in Shown, k \in 1..n : F[<<t, k>>] = RemoveShadowed(t, active[k].op)
  <2>1. \A t \in Shown, k \in 1..n : RemoveShadowed(t, active[k].op) \in Shown
    <3> SUFFICES ASSUME NEW t \in Shown, NEW k \in 1..n
                 PROVE  RemoveShadowed(t, active[k].op) \in Shown
      OBVIOUS
    <3> QED
      BY DEF RemoveShadowed, Shown
  <2> HIDE DEF n
  <2> QED
    BY <2>1
<1> HIDE DEF n, F
<1>4. PICK iter \in [SUBSET (1..n) -> Shown] : IsRecursion(iter, n, shown, F)
  BY <1>1, <1>3, RecursionExists
<1>5. ASSUME NEW s \in SUBSET (1..n), s # {}
      PROVE  iter[s] = RemoveShadowed(iter[s \ {Max(s)}], active[Max(s)].op)
  <2> DEFINE m == Max(s)
             r == s \ {m}
  <2>1. m \in 1..n /\ r \in SUBSET (1..n)
    BY <1>1, <1>5, LargestElement
  <2> HIDE DEF m, r
  <2>2. F[<<iter[r], m>>] = RemoveShadowed(iter[r], active[m].op)
    BY <1>3, <1>4, <2>1
  <2> QED
    BY <1>4, <1>5, <2>2 DEF r, m, IsRecursion
<1>6. iter = [s \in SUBSET DOMAIN active |->
                IF s = {} THEN shown
                ELSE RemoveShadowed(iter[s \ {Max(s)}], active[Max(s)].op)]
  BY <1>1, <1>4, <1>5 DEF IsRecursion
<1>7. It = [s \in SUBSET DOMAIN active |->
                IF s = {} THEN shown
                ELSE RemoveShadowed(It[s \ {Max(s)}], active[Max(s)].op)]
  BY <1>6
<1> HIDE DEF It
<1>8. It[{}] = shown
  BY <1>7
<1>9. ASSUME NEW s \in SUBSET (1..n), s # {}, It[s \ {Max(s)}] \in Shown
      PROVE  It[s] = F[<<It[s \ {Max(s)}], Max(s)>>]
  <2> DEFINE m == Max(s)
             r == s \ {m}
  <2>1. m \in 1..n
    BY <1>1, <1>9, LargestElement
  <2>2. It[s] = RemoveShadowed(It[r], active[m].op)
    BY <1>1, <1>7, <1>9
  <2>3. It[r] \in Shown
    BY <1>9
  <2> HIDE DEF m, r
  <2>4. It[s] = F[<<It[r], m>>]
    BY <1>3, <2>1, <2>2, <2>3
  <2> QED
    BY <2>4 DEF m, r
<1>10. Leads(n, Shown, shown, F, It[1..n])
  <2>1. IsTypedRecursion(It, n, Shown, shown, F)
    BY <1>8, <1>9 DEF IsTypedRecursion
  <2> QED
    BY <1>1, <1>3, <2>1, RecursionIsPath
<1>11. It[1..n] \in Shown
  BY <1>1, <1>10 DEF Leads
<1> QED
  BY <1>1, <1>2, <1>11

OverlayCommit == [id: Nat, ops: Seq(MutationOperation)]

\* The operations of the overlay replay to a view.
LEMMA OverlayReplays ==
    ASSUME NEW seed \in MemoryView, NEW log \in Seq(OverlayCommit)
    PROVE  Replay(seed, log) \in MemoryView
<1> DEFINE R == RevertedCommits(log)
<1>1. Replay(seed, log) = ReplayWith(R, seed, log)
  BY ReplayIsFold
<1> HIDE DEF R
<1>2. PICK op : op \in MutationOperation
  <2>1. NoContent \in Content /\ Root \in Objects
    BY MemoryModelAssumption DEF NoContent, Content
  <2>2. CreateOp(Root, NoContent) \in MutationOperation
    BY <2>1 DEF CreateOp, MutationOperation
  <2> QED
    BY <2>2
<1>3. Replayable(R, OverlayCommit)
  <2> SUFFICES ASSUME NEW v \in MemoryView, NEW c \in OverlayCommit
               PROVE  ApplyCommit(R, v, c) \in MemoryView
    BY DEF Replayable
  <2>1. c.ops \in Seq(MutationOperation)
    BY DEF OverlayCommit
  <2>2. Expanded(c.ops) \in Seq(MutationOperation)
    BY <1>2, <2>1, OperationsAreApplicable, ExpandedSteps
  <2>3. ApplyAll(v, Expanded(c.ops)) \in MemoryView
    BY <1>2, <2>2, OperationsAreApplicable, ApplyAllSteps
  <2> QED
    BY <2>3 DEF ApplyCommit
<1>4. PICK c : c = [id |-> 0, ops |-> <<op>>]
  OBVIOUS
<1>5. c \in OverlayCommit
  BY <1>2, <1>4 DEF OverlayCommit
<1>6. ReplayWith(R, seed, log) \in MemoryView
  BY <1>3, <1>5, ReplayWithSteps
<1> QED
  BY <1>1, <1>6

\* The records in the overlay are records.
LEMMA ActiveAreRecords ==
    ASSUME NEW rs \in Seq(PendingRecord)
    PROVE  ActiveRecords(rs) \in Seq(PendingRecord)
<1> DEFINE I == {i \in DOMAIN rs : IsOverlayActive(rs[i].status)}
<1>1. Len(rs) \in Nat /\ DOMAIN rs = 1..Len(rs) /\ I \in SUBSET (1..Len(rs))
  BY LenProperties
<1>2. ActiveRecords(rs) = At(rs, I)
  BY DEF ActiveRecords
<1> HIDE DEF I
<1>3. /\ Cardinality(I) \in Nat
      /\ DOMAIN At(rs, I) = 1..Cardinality(I)
      /\ TakesFrom(At(rs, I), rs, I)
  BY <1>1, AtLength, AtElements
<1>4. \A n \in 1..Cardinality(I) : At(rs, I)[n] \in PendingRecord
  BY <1>1, <1>3, ElementOfSeq DEF TakesFrom
<1>5. At(rs, I) \in [1..Cardinality(I) -> PendingRecord]
  <2>1. At(rs, I) = [n \in 1..Cardinality(I) |-> rs[Nth(I, n)]]
    BY DEF At
  <2>2. \A n \in 1..Cardinality(I) : rs[Nth(I, n)] \in PendingRecord
    BY <1>4, <2>1
  <2> QED
    BY <2>1, <2>2
<1> QED
  BY <1>2, <1>3, <1>5, SeqDef

\* What is materialised shows contents.
LEMMA MaterializedIsShown ==
    ASSUME NEW snapshot \in Shown, NEW rs \in Seq(PendingRecord)
    PROVE  Materialize(snapshot, rs).shown \in Shown
<1> DEFINE active == ActiveRecords(rs)
           left == Unshadowed(Rehydrated(snapshot, active), active)
           log == [i \in DOMAIN active |-> [id |-> i, ops |-> <<active[i].op>>]]
<1>1. active \in Seq(PendingRecord)
  BY ActiveAreRecords
<1>2. Materialize(snapshot, rs).shown = ShownOf(Replay(SeedOf(left), log))
  BY Zenon DEF Materialize
<1> HIDE DEF active
<1>3. left \in Shown
  BY <1>1, RehydratedIsShown, UnshadowedIsShown
<1> HIDE DEF left
<1>4. SeedOf(left) \in MemoryView
  <2>1. AbsentObject \in MemoryObject
    BY DEF AbsentObject, NoContent, MemoryObject, Content
  <2>2. \A o \in Objects : left[o] # None =>
            [status |-> "active", content |-> left[o]] \in MemoryObject
    BY <1>3 DEF Shown, MemoryObject
  <2> QED
    BY <2>1, <2>2 DEF SeedOf, MemoryView
<1>5. log \in Seq(OverlayCommit)
  <2>1. Len(active) \in Nat /\ DOMAIN active = 1..Len(active)
    BY <1>1, LenProperties
  <2>2. ASSUME NEW i \in 1..Len(active)
        PROVE  [id |-> i, ops |-> <<active[i].op>>] \in OverlayCommit
    <3>1. active[i] \in PendingRecord
      BY <1>1, <2>2, ElementOfSeq
    <3>2. active[i].op \in MutationOperation
      BY <3>1, PendingOverlayAssumption DEF PendingRecord
    <3>3. <<active[i].op>> \in Seq(MutationOperation)
      BY <3>2
    <3> QED
      BY <3>3 DEF OverlayCommit
  <2>3. log \in [1..Len(active) -> OverlayCommit]
    BY <2>1, <2>2
  <2> QED
    BY <2>1, <2>3, SeqDef
<1> HIDE DEF log
<1>6. Replay(SeedOf(left), log) \in MemoryView
  BY <1>4, <1>5, OverlayReplays
<1>7. \A o \in Objects : Replay(SeedOf(left), log).objects[o].content \in Content
  BY <1>6 DEF MemoryView, MemoryObject
<1> QED
  BY <1>2, <1>7 DEF ShownOf, Shown

\* The cloud's view shows contents.
LEMMA ViewNowIsShown ==
    ASSUME CloudInv
    PROVE  ViewNow \in Shown
<1>1. commits[Main] \in Seq(Commit)
  BY PendingOverlayAssumption DEF CloudInv, IInv, TypeOK
<1>2. Replay(SeedView, commits[Main]) \in MemoryView
  BY <1>1, LogShowsView
<1>3. \A o \in Objects : Replay(SeedView, commits[Main]).objects[o].content \in Content
  BY <1>2 DEF MemoryView, MemoryObject
<1> QED
  BY <1>3 DEF ViewNow, ViewOf, Shown

\* A delta of a view, applied to a snapshot, shows contents.
LEMMA AppliedIsShown ==
    ASSUME NEW snapshot \in Shown, NEW shown \in Shown, NEW ops
    PROVE  ApplyDelta(snapshot, Delta(ops, shown)) \in Shown
<1>1. DOMAIN Delta(ops, shown).changed = Delivered(ops, shown)
  BY DEF Delta
<1>2. \A o \in Delivered(ops, shown) : Delta(ops, shown).changed[o] = shown[o]
  BY DEF Delta
<1> QED
  BY <1>1, <1>2 DEF ApplyDelta, Shown

\* A fragment is a part of what was shown.
LEMMA FragmentIsShown ==
    ASSUME NEW shown \in Shown, NEW op
    PROVE  BaseFragment(shown, op) \in Shown
BY DEF BaseFragment, Shown

-----------------------------------------------------------------------------
(* The inductive invariant.                                                *)

StoredRecord == [mutation: LocalMutations, record: PendingRecord]

Files == [valid: BOOLEAN, watermark: Nat \cup {None}, snapshot: Shown,
          head: CommitId \cup {None}, stored: Seq(StoredRecord)]

Drafted == [mutation: LocalMutations, record: PendingRecord, candidate: Seq(LocalMutations)]

Recorded(list) == \A i \in DOMAIN list : operation[list[i]] \in PendingRecord

\* Operations that are listed have a record.
QueueInv ==
    /\ operation \in [LocalMutations -> PendingRecord \cup {NoRecord}]
    /\ queue \in Seq(LocalMutations)
    /\ Recorded(queue)

\* An answer that is on its way has been given.
PushInv ==
    /\ push \in [step: {"idle", "sending", "answered"}, list: Seq(LocalMutations)]
    /\ Recorded(push.list)
    /\ push.step # "idle" => push.list # <<>>
    /\ push.step = "answered" => idempotency[<<Main, Head(push.list)>>] # NoResult

\* A draft is of an operation that only awaits its push, a candidate adds it to
\* operations that have a record.
Drafts(draft) ==
    /\ draft \in Drafted
    /\ draft.record.status = "pending" /\ draft.record.incoming = 0
    /\ \A i \in DOMAIN draft.candidate :
        \/ draft.candidate[i] = draft.mutation
        \/ operation[draft.candidate[i]] \in PendingRecord

StageInv ==
    /\ stage \in [Stagers -> Drafted \cup {NoDraft}]
    /\ \A c \in Stagers : stage[c] = NoDraft \/ Drafts(stage[c])

Seen(watermark) == watermark \in 0..sequence \cup {None}

FilesInv == replica \in Files /\ Seen(replica.watermark)

CallInv ==
    /\ sync \in [step: {"idle", "asked", "applied"}, known: Nat \cup {None}]
    /\ Seen(sync.known)

\* DecidedAs, of a record whose conflict is known.
SettledBy(m, incoming, status) ==
    LET by(kind) == /\ incoming # 0
                    /\ \E i \in AcceptedOn(Main) : /\ Resolves(i, incoming)
                                                   /\ records[i].ops[1].resolution = kind
    IN  CASE status = "resolved" ->
                (\E i \in AcceptedOn(Main) : records[i].id = <<Main, m>>) \/ by("take_incoming")
          [] status = "rejected" -> by("keep_target")
          [] OTHER -> by("manual_merge")

\* What a record says of the cloud is so.
Claims(m, p) ==
    /\ p.incoming # 0 => /\ idempotency[<<Main, m>>].status = "conflict"
                         /\ idempotency[<<Main, m>>].sequence = p.incoming
    /\ p.status \in SettledStatus => SettledBy(m, p.incoming, p.status)

ClaimsInv ==
    \A m \in LocalMutations : operation[m] \in PendingRecord => Claims(m, operation[m])

\* A record agrees with one it was before: it is of the same operation, it has
\* not left the overlay since, its conflict is the one it had.
Agreeing(kept, held) ==
    /\ kept.op = held.op /\ kept.base = held.base /\ kept.fragment = held.fragment
    /\ kept.status \in OverlayStatus => held.status \in OverlayStatus
    /\ kept.incoming # 0 => held.incoming = kept.incoming

MutationsOf(stored) == [i \in DOMAIN stored |-> stored[i].mutation]

StoredInv ==
    /\ \A i, j \in DOMAIN replica.stored :
        replica.stored[i].mutation = replica.stored[j].mutation =>
            replica.stored[i].record = replica.stored[j].record
    /\ replica.stored # <<>> => queue = MutationsOf(replica.stored)
    /\ \A i \in DOMAIN replica.stored :
        /\ Claims(replica.stored[i].mutation, replica.stored[i].record)
        /\ operation[replica.stored[i].mutation] \in PendingRecord
        /\ Agreeing(replica.stored[i].record, operation[replica.stored[i].mutation])

OverlayInv ==
    /\ CloudInv
    /\ QueueInv
    /\ PushInv
    /\ StageInv
    /\ FilesInv
    /\ CallInv
    /\ ClaimsInv
    /\ StoredInv

\* A record is none of the marks for there being none.
LEMMA RecordsAreNot == NoRecord \notin PendingRecord /\ NoDraft \notin Drafted
<1>1. NoRecord \notin PendingRecord
  <2> SUFFICES ASSUME NoRecord \in PendingRecord PROVE FALSE
    OBVIOUS
  <2>1. NoRecord.status = "none"
    BY DEF NoRecord
  <2>2. NoRecord.status \in OverlayStatus \cup SettledStatus
    BY DEF PendingRecord
  <2> QED
    BY <2>1, <2>2 DEF OverlayStatus, SettledStatus
<1>2. NoDraft \notin Drafted
  <2> SUFFICES ASSUME NoDraft \in Drafted PROVE FALSE
    OBVIOUS
  <2>1. DOMAIN NoDraft = {"mutation"}
    BY DEF NoDraft
  <2>2. "record" \in DOMAIN NoDraft
    BY DEF Drafted
  <2> QED
    BY <2>1, <2>2
<1> QED
  BY <1>1, <1>2

\* The overlay starts with nothing.
LEMMA InitOverlayInv == OverlayInit => OverlayInv
<1> SUFFICES ASSUME OverlayInit PROVE OverlayInv
  OBVIOUS
<1>1. Init /\ operation = [m \in LocalMutations |-> NoRecord] /\ queue = <<>>
  BY DEF OverlayInit
<1>2. CloudInv
  <2>1. records = <<>>
    BY <1>1 DEF Init
  <2>2. DOMAIN records = {}
    BY <2>1
  <2> QED
    BY <1>1, <2>2, InitIInv DEF CloudInv, MarkersAccepted
<1>3. QueueInv
  BY <1>1, EmptySeq DEF QueueInv, Recorded
<1>4. PushInv
  <2>1. push = [step |-> "idle", list |-> <<>>]
    BY DEF OverlayInit, IdlePush
  <2> QED
    BY <2>1, EmptySeq DEF PushInv, Recorded
<1>5. StageInv
  BY DEF OverlayInit, StageInv
<1>6. FilesInv
  <2>1. replica = [valid |-> FALSE, watermark |-> None, snapshot |-> Hidden,
                   head |-> None, stored |-> <<>>]
    BY DEF OverlayInit, EmptyFiles
  <2>2. Hidden \in Shown
    BY DEF Hidden, Shown
  <2> QED
    BY <2>1, <2>2, EmptySeq DEF FilesInv, Files, Seen
<1>7. CallInv
  <2>1. sync = [step |-> "idle", known |-> None]
    BY DEF OverlayInit, IdleSync
  <2> QED
    BY <2>1 DEF CallInv, Seen
<1>8. ClaimsInv
  BY <1>1, RecordsAreNot DEF ClaimsInv
<1>9. StoredInv
  <2>1. replica.stored = <<>>
    BY DEF OverlayInit, EmptyFiles
  <2> QED
    BY <2>1 DEF StoredInv
<1> QED
  BY <1>2, <1>3, <1>4, <1>5, <1>6, <1>7, <1>8, <1>9 DEF OverlayInv

-----------------------------------------------------------------------------
(* What a step of the cloud leaves.                                        *)

\* Accepted commits stay, the watermark grows.
LEMMA AcceptedStay ==
    ASSUME CloudInv, CloudMoves
    PROVE  /\ \A i \in AcceptedOn(Main) : i \in AcceptedOn(Main)' /\ records'[i] = records[i]
           /\ sequence \in Nat /\ sequence' \in Nat /\ sequence <= sequence'
<1>1. PICK n \in Nat : RecordsExtended(n)
  BY DEF CloudMoves, Extended
<1>2. /\ Len(records) \in Nat /\ DOMAIN records = 1..Len(records)
      /\ DOMAIN records' = 1..(Len(records) + n)
      /\ \A i \in 1..Len(records) : records'[i] = records[i]
  BY <1>1 DEF RecordsExtended
<1>3. \A i \in DOMAIN records : i \in DOMAIN records' /\ records'[i] = records[i]
  BY <1>2
<1>4. sequence = Len(records) /\ sequence' = Len(records')
  BY DEF CloudMoves, CloudInv, IInv, Numbered
<1>5. Len(records') \in Nat /\ DOMAIN records' = 1..Len(records')
  <2>1. records' \in Seq(CommitRecord)
    BY DEF CloudMoves, CloudInv, IInv, TypeOK
  <2> QED
    BY <2>1, LenProperties
<1>6. Len(records') = Len(records) + n
  BY <1>2, <1>5
<1> QED
  BY <1>2, <1>3, <1>4, <1>6 DEF AcceptedOn

\* A watermark that was seen stays so.
LEMMA SeenStays ==
    ASSUME CloudInv, CloudMoves, NEW w, Seen(w)
    PROVE  Seen(w)'
<1>1. sequence \in Nat /\ sequence' \in Nat /\ sequence <= sequence'
  BY AcceptedStay
<1>2. w \in 0..sequence \cup {None}
  BY DEF Seen
<1> QED
  BY <1>1, <1>2 DEF Seen

\* What settled a record stays.
LEMMA SettlementStays ==
    ASSUME CloudInv, CloudMoves, NEW m, NEW incoming, NEW status, SettledBy(m, incoming, status)
    PROVE  SettledBy(m, incoming, status)'
<1>1. \A i \in AcceptedOn(Main) : i \in AcceptedOn(Main)' /\ records'[i] = records[i]
  BY AcceptedStay
<1>2. \A i \in AcceptedOn(Main) : Resolves(i, incoming) => Resolves(i, incoming)'
  BY <1>1 DEF Resolves
<1> QED
  BY <1>1, <1>2 DEF SettledBy

\* What a record says of the cloud stays so.
LEMMA ClaimsStay ==
    ASSUME CloudInv, CloudMoves, NEW m \in LocalMutations, NEW p, Claims(m, p)
    PROVE  Claims(m, p)'
<1>1. <<Main, m>> \in WriteId
  BY PendingOverlayAssumption DEF WriteId
<1>2. \A w \in WriteId : idempotency[w] # NoResult => idempotency'[w] = idempotency[w]
  BY DEF CloudMoves, AnswersStay
<1>3. p.incoming # 0 => idempotency'[<<Main, m>>] = idempotency[<<Main, m>>]
  BY <1>1, <1>2 DEF Claims, NoResult
<1> QED
  BY <1>3, SettlementStays DEF Claims

-----------------------------------------------------------------------------
(* What a step of the overlay leaves.                                      *)

Grows == \A m \in LocalMutations : operation[m] \in PendingRecord => operation'[m] \in PendingRecord

\* Records only change into records that agree with them.
Agreed ==
    \A m \in LocalMutations :
        operation[m] \in PendingRecord => Agreeing(operation[m], operation'[m])

\* An operation that has a record keeps one.
LEMMA RecordedStays ==
    ASSUME Grows, NEW list \in Seq(LocalMutations), Recorded(list)
    PROVE  Recorded(list)'
<1>1. \A i \in DOMAIN list : list[i] \in LocalMutations
  BY LenProperties, ElementOfSeq
<1> QED
  BY <1>1 DEF Recorded, Grows

\* A push that waits is as it was.
LEMMA PushStays ==
    ASSUME CloudMoves, PushInv, Grows, UNCHANGED push
    PROVE  PushInv'
<1>1. push.list \in Seq(LocalMutations) /\ push' = push
  BY DEF PushInv
<1>2. Recorded(push.list)'
  <2>1. PICK list : list = push.list
    OBVIOUS
  <2>2. Recorded(list)'
    BY <1>1, <2>1, RecordedStays DEF PushInv
  <2> QED
    BY <1>1, <2>1, <2>2
<1>3. ASSUME push.step = "answered"
      PROVE  idempotency'[<<Main, Head(push.list)>>] # NoResult
  <2>1. push.list # <<>> /\ idempotency[<<Main, Head(push.list)>>] # NoResult
    BY <1>3 DEF PushInv
  <2>2. Head(push.list) \in LocalMutations
    BY <1>1, <2>1, HeadTailProperties
  <2>3. <<Main, Head(push.list)>> \in WriteId
    BY <2>2, PendingOverlayAssumption DEF WriteId
  <2> QED
    BY <2>1, <2>3 DEF CloudMoves, AnswersStay
<1> QED
  BY <1>1, <1>2, <1>3 DEF PushInv

\* A draft is as it was.
LEMMA DraftStays ==
    ASSUME Grows, NEW draft, Drafts(draft)
    PROVE  Drafts(draft)'
<1>1. draft \in Drafted /\ draft.candidate \in Seq(LocalMutations)
  BY DEF Drafts, Drafted
<1>2. \A i \in DOMAIN draft.candidate : draft.candidate[i] \in LocalMutations
  BY <1>1, LenProperties, ElementOfSeq
<1> QED
  BY <1>1, <1>2 DEF Drafts, Grows

\* The drafts that stay are as they were.
LEMMA StageStays ==
    ASSUME StageInv, Grows, NEW c \in Stagers, stage'[c] = stage[c]
    PROVE  stage'[c] = NoDraft \/ Drafts(stage[c])'
<1>1. PICK draft : draft = stage[c]
  OBVIOUS
<1>2. CASE draft = NoDraft
  BY <1>1, <1>2
<1>3. CASE draft # NoDraft
  <2>1. Drafts(draft)
    BY <1>1, <1>3 DEF StageInv
  <2>2. Drafts(draft)'
    BY <2>1, DraftStays
  <2>3. draft = stage'[c]
    BY <1>1
  <2> QED
    BY <2>2, <2>3
<1> QED
  BY <1>2, <1>3

\* No call drafts or ends.
LEMMA StagesStay ==
    ASSUME StageInv, Grows, UNCHANGED stage
    PROVE  StageInv'
<1>1. \A c \in Stagers : stage'[c] = NoDraft \/ Drafts(stage[c])'
  BY StageStays
<1> QED
  BY <1>1 DEF StageInv

\* The files are as they were.
LEMMA FilesStay ==
    ASSUME CloudInv, CloudMoves, FilesInv, UNCHANGED replica
    PROVE  FilesInv'
<1>1. PICK w : w = replica.watermark
  OBVIOUS
<1>2. Seen(w)'
  BY <1>1, SeenStays DEF FilesInv
<1>3. w = replica'.watermark
  BY <1>1
<1> QED
  BY <1>2, <1>3 DEF FilesInv

\* A synchronisation that waits knows what it knew.
LEMMA CallStays ==
    ASSUME CloudInv, CloudMoves, CallInv, UNCHANGED sync
    PROVE  CallInv'
<1>1. PICK w : w = sync.known
  OBVIOUS
<1>2. Seen(w)'
  BY <1>1, SeenStays DEF CallInv
<1>3. w = sync'.known
  BY <1>1
<1> QED
  BY <1>2, <1>3 DEF CallInv

\* Records that stay say what they said.
LEMMA QueueStays ==
    ASSUME CloudInv, CloudMoves, QueueInv, ClaimsInv, UNCHANGED <<operation, queue>>
    PROVE  QueueInv' /\ ClaimsInv' /\ Grows /\ Agreed
<1>1. QueueInv' /\ Grows
  BY DEF QueueInv, Recorded, Grows
<1>2. Agreed
  BY DEF Agreed, Agreeing
<1>3. ASSUME NEW m \in LocalMutations, operation'[m] \in PendingRecord
      PROVE  Claims(m, operation[m])'
  <2>1. PICK p : p = operation[m]
    OBVIOUS
  <2>2. Claims(m, p)
    BY <1>3, <2>1 DEF ClaimsInv
  <2>3. Claims(m, p)'
    BY <2>2, ClaimsStay
  <2>4. p = operation'[m]
    BY <2>1
  <2> QED
    BY <2>3, <2>4
<1>4. ClaimsInv'
  BY <1>3 DEF ClaimsInv
<1> QED
  BY <1>1, <1>2, <1>4

\* What is stored agrees with records that agree with what they were.
LEMMA StoredStays ==
    ASSUME OverlayInv, CloudMoves, Grows, Agreed,
           UNCHANGED queue, replica'.stored = replica.stored
    PROVE  StoredInv'
<1>0. CloudInv /\ StoredInv /\ FilesInv
  BY DEF OverlayInv
<1>1. replica.stored \in Seq(StoredRecord)
  BY <1>0 DEF FilesInv, Files
<1>2. ASSUME NEW i \in DOMAIN replica.stored
      PROVE  /\ Claims(replica.stored[i].mutation, replica.stored[i].record)'
             /\ operation'[replica.stored[i].mutation] \in PendingRecord
             /\ Agreeing(replica.stored[i].record, operation'[replica.stored[i].mutation])
  <2>1. PICK m : m = replica.stored[i].mutation
    OBVIOUS
  <2>2. PICK p : p = replica.stored[i].record
    OBVIOUS
  <2>3. m \in LocalMutations
    <3>1. replica.stored[i] \in StoredRecord
      BY <1>1, <1>2, LenProperties, ElementOfSeq
    <3> QED
      BY <2>1, <3>1 DEF StoredRecord
  <2>4. Claims(m, p) /\ operation[m] \in PendingRecord /\ Agreeing(p, operation[m])
    BY <1>0, <1>2, <2>1, <2>2 DEF StoredInv
  <2>5. Claims(m, p)'
    BY <1>0, <2>3, <2>4, ClaimsStay
  <2>6. operation'[m] \in PendingRecord /\ Agreeing(operation[m], operation'[m])
    BY <2>3, <2>4 DEF Grows, Agreed
  <2>7. Agreeing(p, operation'[m])
    BY <2>4, <2>6 DEF Agreeing
  <2>8. m = replica'.stored[i].mutation /\ p = replica'.stored[i].record
    BY <2>1, <2>2
  <2> QED
    BY <2>1, <2>2, <2>5, <2>6, <2>7, <2>8
<1>3. /\ \A i, j \in DOMAIN replica.stored :
            replica.stored[i].mutation = replica.stored[j].mutation =>
                replica.stored[i].record = replica.stored[j].record
      /\ replica.stored # <<>> => queue = MutationsOf(replica.stored)
  BY <1>0 DEF StoredInv
<1>4. \A i \in DOMAIN replica'.stored :
        /\ Claims(replica.stored[i].mutation, replica.stored[i].record)'
        /\ operation'[replica'.stored[i].mutation] \in PendingRecord
        /\ Agreeing(replica'.stored[i].record, operation'[replica'.stored[i].mutation])
  BY <1>2
<1>5. replica'.stored # <<>> => queue' = MutationsOf(replica'.stored)
  BY <1>3
<1>6. \A i, j \in DOMAIN replica'.stored :
            replica'.stored[i].mutation = replica'.stored[j].mutation =>
                replica'.stored[i].record = replica'.stored[j].record
  BY <1>3
<1> QED
  BY <1>4, <1>5, <1>6 DEF StoredInv

\* A copy of the queue is stored.
LEMMA CopyIsStored ==
    ASSUME QueueInv', ClaimsInv', replica'.stored = StoredAs(queue', operation')
    PROVE  StoredInv' /\ replica'.stored \in Seq(StoredRecord)
<1>1. PICK q : q = queue'
  OBVIOUS
<1>2. PICK s : s = replica'.stored
  OBVIOUS
<1>3. q \in Seq(LocalMutations) /\ \A i \in DOMAIN q : operation'[q[i]] \in PendingRecord
  BY <1>1 DEF QueueInv, Recorded
<1>4. /\ Len(q) \in Nat /\ DOMAIN q = 1..Len(q) /\ q = [i \in DOMAIN q |-> q[i]]
      /\ \A i \in DOMAIN q : q[i] \in LocalMutations
  BY <1>3, LenProperties, ElementOfSeq
<1>5. s = [i \in DOMAIN q |-> [mutation |-> q[i], record |-> operation'[q[i]]]]
  BY <1>1, <1>2 DEF StoredAs
<1>6. /\ DOMAIN s = DOMAIN q
      /\ \A i \in DOMAIN s : s[i].mutation = q[i] /\ s[i].record = operation'[q[i]]
  BY <1>5
<1>7. s \in Seq(StoredRecord)
  <2>1. \A i \in DOMAIN q : [mutation |-> q[i], record |-> operation'[q[i]]] \in StoredRecord
    BY <1>3, <1>4 DEF StoredRecord
  <2>2. s \in [1..Len(q) -> StoredRecord]
    BY <1>4, <1>5, <2>1
  <2> QED
    BY <1>4, <2>2, SeqDef
<1>8. \A i \in DOMAIN s : Agreeing(s[i].record, operation'[s[i].mutation])
  BY <1>6 DEF Agreeing
<1>9. \A i \in DOMAIN s : operation'[s[i].mutation] \in PendingRecord
  BY <1>3, <1>6
<1>10. ASSUME NEW i \in DOMAIN s
       PROVE  Claims(replica.stored[i].mutation, replica.stored[i].record)'
  <2>1. PICK m : m = s[i].mutation
    OBVIOUS
  <2>2. m \in LocalMutations /\ operation'[m] \in PendingRecord
    BY <1>4, <1>6, <1>9, <1>10, <2>1
  <2>3. Claims(m, operation[m])'
    BY <2>2 DEF ClaimsInv
  <2>4. replica'.stored[i].mutation = m /\ replica'.stored[i].record = operation'[m]
    BY <1>2, <1>6, <1>10, <2>1
  <2> QED
    BY <2>3, <2>4
<1>11. q = MutationsOf(s)
  BY <1>4, <1>6 DEF MutationsOf
<1>12. \A i, j \in DOMAIN s : s[i].mutation = s[j].mutation => s[i].record = s[j].record
  BY <1>6
<1> QED
  BY <1>1, <1>2, <1>7, <1>8, <1>9, <1>10, <1>11, <1>12 DEF StoredInv

-----------------------------------------------------------------------------
(* The cloud under a step of the overlay.                                  *)

\* The operation of a record is sent as a batch that resolves nothing.
LEMMA SentIsBatch ==
    ASSUME NEW p \in PendingRecord
    PROVE  <<p.op>> \in Batch /\ <<p.op>>[1].kind # "resolve_conflict"
<1>1. p.op \in MutationOperation
  BY PendingOverlayAssumption DEF PendingRecord
<1>2. p.op \in Operation /\ p.op.kind # "resolve_conflict"
  BY <1>1 DEF Operation, MutationOperation
<1> QED
  BY <1>2 DEF Batch

\* Sending an operation executes it or finds its result.
LEMMA ExecuteMoves ==
    ASSUME CloudInv, NEW m \in LocalMutations, operation[m] \in PendingRecord, Execute(m)
    PROVE  CloudMoves /\ idempotency'[<<Main, m>>] # NoResult
<1> DEFINE op == <<operation[m].op>>
           base == operation[m].base
<1>1. op \in Batch /\ op[1].kind # "resolve_conflict"
  BY SentIsBatch
<1>2. Main \in Branches /\ m \in Mutations
  BY PendingOverlayAssumption
<1>3. CASE \/ AcceptWrite(Main, m, base, op)
           \/ ReuseEquivalent(Main, m, base, op)
           \/ CaptureConflict(Main, m, base, op)
  <2> HIDE DEF op, base
  <2> QED
    BY <1>1, <1>2, <1>3, WriteMoves
<1>4. CASE idempotency[<<Main, m>>] # NoResult /\ UNCHANGED vars
  <2>1. CloudMoves
    BY <1>4, NextMoves
  <2> QED
    BY <1>4, <2>1 DEF vars
<1> QED
  BY <1>3, <1>4 DEF Execute

\* Every step of the overlay moves the cloud on.
LEMMA OverlayMoves ==
    ASSUME OverlayInv, [OverlayNext]_allVars
    PROVE  CloudMoves
<1>1. CloudInv /\ QueueInv /\ PushInv
  BY DEF OverlayInv
<1>2. CASE UNCHANGED vars
  BY <1>1, <1>2, NextMoves
<1>3. CASE Send
  <2>1. push.list \in Seq(LocalMutations) /\ push.list # <<>> /\ Recorded(push.list)
    BY <1>1, <1>3 DEF PushInv, Send
  <2>2. /\ Head(push.list) \in LocalMutations
        /\ Head(push.list) = push.list[1] /\ 1 \in DOMAIN push.list
    BY <2>1, HeadTailProperties, LenProperties, EmptySeq
  <2>3. operation[Head(push.list)] \in PendingRecord
    BY <2>1, <2>2 DEF Recorded
  <2> QED
    BY <1>1, <1>3, <2>2, <2>3, ExecuteMoves DEF Send
<1>4. CASE Remote
  <2>1. CASE \E m \in Mutations \ LocalMutations, ops \in WriteBatches :
                AcceptWrite(Main, m, HeadOf(Main), ops)
    <3>1. PICK m \in Mutations, ops \in WriteBatches : AcceptWrite(Main, m, HeadOf(Main), ops)
      BY <2>1
    <3>2. Main \in Branches
      BY PendingOverlayAssumption
    <3>3. ops \in Batch /\ NamesNothing(ops)
      BY <1>1, <3>2, BatchesAreTyped, BatchNamesNothing DEF CloudInv, IInv
    <3>4. ops[1].kind # "resolve_conflict"
      <4>1. 1 \in DOMAIN ops
        BY <3>3, EmptySeq, LenProperties DEF Batch
      <4> QED
        BY <3>3, <4>1 DEF NamesNothing
    <3>5. PICK base : base = HeadOf(Main)
      OBVIOUS
    <3>6. AcceptWrite(Main, m, base, ops)
      BY <3>1, <3>5
    <3> QED
      BY <1>1, <3>2, <3>3, <3>4, <3>6, WriteMoves
  <2>2. CASE \E r \in Resolutions : ResolveConflict(Main, r)
    <3>1. Next
      BY <2>2, PendingOverlayAssumption DEF Next
    <3> QED
      BY <1>1, <3>1, NextMoves
  <2> QED
    BY <1>4, <2>1, <2>2 DEF Remote
<1>5. Local => Send \/ UNCHANGED vars
  BY DEF Local, Draft, Install, StartPush, ReceiveAnswer, PushThrows, StartSync,
         ApplyBatch, Invalidate, SyncThrows, Reconcile, Restart
<1> QED
  BY <1>2, <1>3, <1>4, <1>5 DEF OverlayNext, allVars

-----------------------------------------------------------------------------
(* Each step keeps the invariant.                                          *)

\* Of a step that changes neither queue nor files.
LEMMA QuietStays ==
    ASSUME OverlayInv, CloudMoves, UNCHANGED <<operation, queue, replica>>
    PROVE  CloudInv' /\ QueueInv' /\ ClaimsInv' /\ FilesInv' /\ StoredInv' /\ Grows
<1>1. CloudInv /\ QueueInv /\ ClaimsInv /\ FilesInv
  BY DEF OverlayInv
<1>2. QueueInv' /\ ClaimsInv' /\ Grows /\ Agreed
  BY <1>1, QueueStays
<1>3. FilesInv'
  BY <1>1, FilesStay
<1>4. StoredInv'
  BY <1>2, StoredStays
<1> QED
  BY <1>2, <1>3, <1>4 DEF CloudMoves

\* The other clients and the administrators.
LEMMA RemoteHolds ==
    ASSUME OverlayInv, CloudMoves, UNCHANGED localVars
    PROVE  OverlayInv'
<1>1. CloudInv /\ PushInv /\ StageInv /\ CallInv
  BY DEF OverlayInv
<1>2. UNCHANGED <<operation, queue, replica>> /\ UNCHANGED stage /\ UNCHANGED push
      /\ UNCHANGED sync
  BY DEF localVars
<1>3. CloudInv' /\ QueueInv' /\ ClaimsInv' /\ FilesInv' /\ StoredInv' /\ Grows
  BY <1>2, QuietStays
<1> QED
  BY <1>1, <1>2, <1>3, PushStays, StagesStay, CallStays DEF OverlayInv

\* The synchronisation is asked for, or throws.
LEMMA CallHolds ==
    ASSUME OverlayInv, CloudMoves, StartSync \/ SyncThrows
    PROVE  OverlayInv'
<1>1. CloudInv /\ PushInv /\ StageInv /\ FilesInv
  BY DEF OverlayInv
<1>2. UNCHANGED <<operation, queue, replica>> /\ UNCHANGED stage /\ UNCHANGED push
  BY DEF StartSync, SyncThrows
<1>3. CloudInv' /\ QueueInv' /\ ClaimsInv' /\ FilesInv' /\ StoredInv' /\ Grows
  BY <1>2, QuietStays
<1>4. CallInv'
  <2>1. CASE StartSync
    <3>1. sync' = [step |-> "asked", known |-> replica.watermark] /\ UNCHANGED replica
      BY <2>1 DEF StartSync
    <3>2. Seen(replica.watermark)' /\ replica' \in Files
      BY <1>3 DEF FilesInv
    <3>3. sync'.known = replica'.watermark /\ replica'.watermark \in Nat \cup {None}
      BY <3>1, <3>2 DEF Files
    <3>4. sync' \in [step: {"idle", "asked", "applied"}, known: Nat \cup {None}]
      BY <3>1, <3>3
    <3> QED
      BY <3>2, <3>3, <3>4 DEF CallInv
  <2>2. CASE SyncThrows
    <3>1. sync' = [step |-> "idle", known |-> None]
      BY <2>2 DEF SyncThrows, IdleSync
    <3> QED
      BY <3>1 DEF CallInv, Seen
  <2> QED
    BY <2>1, <2>2
<1> QED
  BY <1>1, <1>2, <1>3, <1>4, PushStays, StagesStay DEF OverlayInv

\* An operation is sent, or the push throws.
LEMMA SendHolds ==
    ASSUME OverlayInv, CloudMoves, Send \/ PushThrows
    PROVE  OverlayInv'
<1>1. CloudInv /\ QueueInv /\ PushInv /\ StageInv /\ CallInv
  BY DEF OverlayInv
<1>2. UNCHANGED <<operation, queue, replica>> /\ UNCHANGED stage /\ UNCHANGED sync
  BY DEF Send, PushThrows
<1>3. CloudInv' /\ QueueInv' /\ ClaimsInv' /\ FilesInv' /\ StoredInv' /\ Grows
  BY <1>2, QuietStays
<1>4. PushInv'
  <2>1. CASE Send
    <3>1. /\ push.list \in Seq(LocalMutations) /\ push.list # <<>> /\ Recorded(push.list)
          /\ push \in [step: {"idle", "sending", "answered"}, list: Seq(LocalMutations)]
      BY <1>1, <2>1 DEF PushInv, Send
    <3>2. /\ Head(push.list) \in LocalMutations
          /\ Head(push.list) = push.list[1] /\ 1 \in DOMAIN push.list
      BY <3>1, HeadTailProperties, LenProperties, EmptySeq
    <3>3. operation[Head(push.list)] \in PendingRecord
      BY <3>1, <3>2 DEF Recorded
    <3>4. idempotency'[<<Main, Head(push.list)>>] # NoResult
      BY <1>1, <2>1, <3>2, <3>3, ExecuteMoves DEF Send
    <3>5. push' = [push EXCEPT !.step = "answered"]
      BY <2>1 DEF Send
    <3>6. push'.list = push.list /\ push'.step = "answered"
          /\ push' \in [step: {"idle", "sending", "answered"}, list: Seq(LocalMutations)]
      BY <3>1, <3>5
    <3>7. Recorded(push.list)'
      BY <1>2, <3>1, <3>6 DEF Recorded
    <3> QED
      BY <3>1, <3>4, <3>6, <3>7 DEF PushInv
  <2>2. CASE PushThrows
    <3>1. push' = [step |-> "idle", list |-> <<>>]
      BY <2>2 DEF PushThrows, IdlePush
    <3> QED
      BY <3>1, EmptySeq DEF PushInv, Recorded
  <2> QED
    BY <2>1, <2>2
<1> QED
  BY <1>1, <1>2, <1>3, <1>4, StagesStay, CallStays DEF OverlayInv

\* The files with another copy of the queue.
LEMMA OnlyStored ==
    ASSUME CloudInv, CloudMoves, FilesInv, NEW stored \in Seq(StoredRecord),
           replica' = [replica EXCEPT !.stored = stored]
    PROVE  FilesInv' /\ replica'.stored = stored
<1>1. PICK w : w = replica.watermark
  OBVIOUS
<1>2. Seen(w)' /\ replica \in Files
  BY <1>1, SeenStays DEF FilesInv
<1>3. replica'.stored = stored /\ replica'.watermark = w /\ replica' \in Files
  BY <1>1, <1>2 DEF Files
<1> QED
  BY <1>2, <1>3 DEF FilesInv

\* A draft.
LEMMA DraftHolds ==
    ASSUME OverlayInv, CloudMoves, NEW c \in Stagers, NEW m \in LocalMutations,
           NEW op \in StageOps[m], Draft(c, m, op)
    PROVE  OverlayInv'
<1>1. CloudInv /\ QueueInv /\ PushInv /\ StageInv /\ FilesInv /\ CallInv
  BY DEF OverlayInv
<1>2. UNCHANGED <<operation, queue, replica>> /\ UNCHANGED push /\ UNCHANGED sync
  BY DEF Draft
<1>3. CloudInv' /\ QueueInv' /\ ClaimsInv' /\ FilesInv' /\ StoredInv' /\ Grows
  BY <1>2, QuietStays
<1> DEFINE record == [op |-> op, base |-> replica.head, status |-> "pending", incoming |-> 0,
                      fragment |-> BaseFragment(Overlay.shown, op)]
           draft == [mutation |-> m, record |-> record, candidate |-> Append(queue, m)]
<1>4. stage' = [stage EXCEPT ![c] = draft]
  BY Zenon DEF Draft
<1>5. record \in PendingRecord
  <2>1. replica.snapshot \in Shown /\ replica.head \in CommitId \cup {None}
    BY <1>1 DEF FilesInv, Files
  <2>2. RecordsOf(queue) \in Seq(PendingRecord)
    <3>1. queue \in Seq(LocalMutations) /\ Recorded(queue)
      BY <1>1 DEF QueueInv
    <3>2. Len(queue) \in Nat /\ DOMAIN queue = 1..Len(queue)
      BY <3>1, LenProperties
    <3>3. RecordsOf(queue) \in [1..Len(queue) -> PendingRecord]
      BY <3>1, <3>2 DEF RecordsOf, Recorded
    <3> QED
      BY <3>2, <3>3, SeqDef
  <2>3. Overlay.shown \in Shown
    BY <2>1, <2>2, MaterializedIsShown DEF Overlay
  <2>4. BaseFragment(Overlay.shown, op) \in Shown
    BY <2>3, FragmentIsShown
  <2>5. op \in UNION {StageOps[n] : n \in LocalMutations}
    OBVIOUS
  <2>6. "pending" \in OverlayStatus \cup SettledStatus /\ 0 \in Nat
    BY DEF OverlayStatus
  <2> QED
    BY <2>1, <2>4, <2>5, <2>6 DEF PendingRecord
<1>6. record.status = "pending" /\ record.incoming = 0
  OBVIOUS
<1> HIDE DEF record
<1>7. PICK d : d = draft
  OBVIOUS
<1>8. Drafts(d)'
  <2>1. /\ queue \in Seq(LocalMutations) /\ Len(queue) \in Nat /\ DOMAIN queue = 1..Len(queue)
        /\ \A i \in DOMAIN queue : operation[queue[i]] \in PendingRecord
    BY <1>1, LenProperties DEF QueueInv, Recorded
  <2>2. /\ Append(queue, m) \in Seq(LocalMutations)
        /\ DOMAIN Append(queue, m) = 1..(Len(queue) + 1)
        /\ Append(queue, m)[Len(queue) + 1] = m
        /\ \A i \in 1..Len(queue) : Append(queue, m)[i] = queue[i]
    BY <2>1, AppendProperties, LenProperties
  <2>3. ASSUME NEW i \in DOMAIN Append(queue, m)
        PROVE  Append(queue, m)[i] = m \/ operation'[Append(queue, m)[i]] \in PendingRecord
    <3>1. i \in 1..Len(queue) \/ i = Len(queue) + 1
      BY <2>1, <2>2, <2>3
    <3> QED
      BY <1>2, <2>1, <2>2, <3>1
  <2>4. /\ d \in Drafted /\ d.mutation = m /\ d.record = record
        /\ d.candidate = Append(queue, m)
    BY <1>5, <1>7, <2>2 DEF Drafted
  <2> QED
    BY <1>6, <2>3, <2>4 DEF Drafts
<1> HIDE DEF draft
<1>9. StageInv'
  <2>1. stage \in [Stagers -> Drafted \cup {NoDraft}] /\ d \in Drafted
    BY <1>1, <1>8 DEF StageInv, Drafts
  <2>2. stage' = [stage EXCEPT ![c] = d]
    BY <1>4, <1>7
  <2>3. stage' \in [Stagers -> Drafted \cup {NoDraft}] /\ stage'[c] = d
    BY <2>1, <2>2
  <2>4. ASSUME NEW e \in Stagers
        PROVE  stage'[e] = NoDraft \/ Drafts(stage[e])'
    <3>1. CASE e = c
      BY <1>8, <2>3, <3>1
    <3>2. CASE e # c
      <4>1. stage'[e] = stage[e]
        BY <2>1, <2>2, <3>2
      <4>2. stage'[e] = NoDraft \/ Drafts(stage[e])'
        BY <1>1, <1>3, <4>1, StageStays
      <4> QED
        BY <4>2
    <3> QED
      BY <3>1, <3>2
  <2> QED
    BY <2>3, <2>4 DEF StageInv
<1> QED
  BY <1>1, <1>2, <1>3, <1>9, PushStays, CallStays DEF OverlayInv

\* The candidate replaces the queue.
LEMMA InstallHolds ==
    ASSUME OverlayInv, CloudMoves, NEW c \in Stagers, Install(c)
    PROVE  OverlayInv'
<1>1. CloudInv /\ QueueInv /\ PushInv /\ StageInv /\ FilesInv /\ CallInv /\ ClaimsInv
  BY DEF OverlayInv
<1>2. PICK d : d = stage[c]
  OBVIOUS
<1>3. Drafts(d) /\ d \in Drafted
  BY <1>1, <1>2 DEF StageInv, Install, Drafts
<1>4. /\ operation' = [operation EXCEPT ![d.mutation] = d.record]
      /\ queue' = d.candidate
      /\ replica' = [replica EXCEPT !.stored = StoredAs(queue', operation')]
      /\ stage' = [stage EXCEPT ![c] = NoDraft]
      /\ UNCHANGED push /\ UNCHANGED sync
  BY <1>2 DEF Install
<1>5. d.mutation \in LocalMutations /\ d.record \in PendingRecord
      /\ d.candidate \in Seq(LocalMutations)
  BY <1>3 DEF Drafted
<1>6. operation \in [LocalMutations -> PendingRecord \cup {NoRecord}]
  BY <1>1 DEF QueueInv
<1>7. /\ operation' \in [LocalMutations -> PendingRecord \cup {NoRecord}]
      /\ operation'[d.mutation] = d.record
      /\ \A m \in LocalMutations : m # d.mutation => operation'[m] = operation[m]
  BY <1>4, <1>5, <1>6
<1>8. Grows
  BY <1>5, <1>7 DEF Grows
<1>9. QueueInv'
  <2>1. ASSUME NEW i \in DOMAIN d.candidate
        PROVE  operation'[d.candidate[i]] \in PendingRecord
    <3>1. d.candidate[i] \in LocalMutations
      BY <1>5, <2>1, LenProperties, ElementOfSeq
    <3>2. d.candidate[i] = d.mutation \/ operation[d.candidate[i]] \in PendingRecord
      BY <1>3, <2>1 DEF Drafts
    <3> QED
      BY <1>5, <1>7, <3>1, <3>2
  <2> QED
    BY <1>4, <1>5, <1>7, <2>1 DEF QueueInv, Recorded
<1>10. ClaimsInv'
  <2> SUFFICES ASSUME NEW m \in LocalMutations, operation'[m] \in PendingRecord
               PROVE  Claims(m, operation[m])'
    BY DEF ClaimsInv
  <2>1. CASE m = d.mutation
    <3>1. PICK p : p = d.record
      OBVIOUS
    <3>2. p.incoming = 0 /\ p.status \notin SettledStatus
      BY <1>3, <3>1 DEF Drafts, SettledStatus
    <3>3. Claims(m, p)'
      BY <3>2 DEF Claims
    <3>4. p = operation'[m]
      BY <1>7, <2>1, <3>1
    <3> QED
      BY <3>3, <3>4
  <2>2. CASE m # d.mutation
    <3>1. PICK p : p = operation[m]
      OBVIOUS
    <3>2. p = operation'[m]
      BY <1>7, <2>2, <3>1
    <3>3. Claims(m, p)
      BY <1>1, <3>1, <3>2 DEF ClaimsInv
    <3>4. Claims(m, p)'
      BY <1>1, <3>3, ClaimsStay
    <3> QED
      BY <3>2, <3>4
  <2> QED
    BY <2>1, <2>2
<1>11. replica \in Files
  BY <1>1 DEF FilesInv
<1>12. replica'.stored = StoredAs(queue', operation')
  BY <1>4, <1>11 DEF Files
<1>13. StoredInv' /\ replica'.stored \in Seq(StoredRecord)
  BY <1>9, <1>10, <1>12, CopyIsStored
<1>14. FilesInv'
  <2>1. PICK stored : stored = StoredAs(queue', operation')
    OBVIOUS
  <2> QED
    BY <1>1, <1>4, <1>12, <1>13, <2>1, OnlyStored
<1>15. StageInv'
  <2>1. stage \in [Stagers -> Drafted \cup {NoDraft}]
    BY <1>1 DEF StageInv
  <2>2. stage' \in [Stagers -> Drafted \cup {NoDraft}] /\ stage'[c] = NoDraft
    BY <1>4, <2>1
  <2>3. ASSUME NEW e \in Stagers
        PROVE  stage'[e] = NoDraft \/ Drafts(stage[e])'
    <3>1. CASE e = c
      BY <2>2, <3>1
    <3>2. CASE e # c
      <4>1. stage'[e] = stage[e]
        BY <1>4, <2>1, <3>2
      <4> QED
        BY <1>1, <1>8, <4>1, StageStays
    <3> QED
      BY <3>1, <3>2
  <2> QED
    BY <2>2, <2>3 DEF StageInv
<1>16. CloudInv'
  BY DEF CloudMoves
<1> QED
  BY <1>1, <1>4, <1>8, <1>9, <1>10, <1>13, <1>14, <1>15, <1>16, PushStays, CallStays
  DEF OverlayInv

\* What is left to send is a part of the list.
LEMMA UnsentIsRest ==
    ASSUME NEW list \in Seq(LocalMutations), NEW ops,
           NEW P, \A i \in DOMAIN list : ops[list[i]] \in P
    PROVE  /\ Unsent(list, ops) \in Seq(LocalMutations)
           /\ \A i \in DOMAIN Unsent(list, ops) : ops[Unsent(list, ops)[i]] \in P
<1> DEFINE waiting == {i \in DOMAIN list : ops[list[i]].status = "pending"}
<1>1. /\ Len(list) \in Nat /\ DOMAIN list = 1..Len(list)
      /\ \A i \in 1..Len(list) : list[i] \in LocalMutations /\ ops[list[i]] \in P
  BY LenProperties, ElementOfSeq
<1>2. CASE waiting = {}
  <2>1. Unsent(list, ops) = <<>>
    BY <1>2 DEF Unsent
  <2> QED
    BY <2>1, EmptySeq
<1>3. CASE waiting # {}
  <2>1. waiting \in SUBSET Nat
    BY <1>1
  <2>2. PICK first \in waiting : \A n \in waiting : first <= n
    BY <1>3, <2>1, LeastElement
  <2>3. Min(waiting) \in waiting
    BY <2>2 DEF Min
  <2>4. PICK k : k = Min(waiting)
    OBVIOUS
  <2>5. k \in 1..Len(list)
    BY <1>1, <2>3, <2>4
  <2>6. Unsent(list, ops) = SubSeq(list, k, Len(list))
    BY <1>3, <2>4 DEF Unsent
  <2> HIDE DEF waiting
  <2>7. \A i \in k..Len(list) : list[i] \in LocalMutations
    BY <1>1, <2>5
  <2>8. k \in Int /\ Len(list) \in Int
    BY <1>1, <2>5
  <2>9. PICK rest : rest = SubSeq(list, k, Len(list))
    OBVIOUS
  <2>10. /\ rest \in Seq(LocalMutations)
         /\ Len(rest) = Len(list) - k + 1
         /\ \A i \in 1..(Len(list) - k + 1) : rest[i] = list[k + i - 1]
    BY <2>5, <2>7, <2>8, <2>9, SubSeqProperties
  <2>11. ASSUME NEW i \in DOMAIN rest
         PROVE  ops[rest[i]] \in P
    <3>1. i \in 1..(Len(list) - k + 1)
      BY <2>10, <2>11, LenProperties
    <3>2. k + i - 1 \in 1..Len(list) /\ rest[i] = list[k + i - 1]
      BY <1>1, <2>5, <2>10, <3>1
    <3> QED
      BY <1>1, <3>2
  <2> QED
    BY <2>6, <2>9, <2>10, <2>11
<1> QED
  BY <1>2, <1>3

\* The loop of a push goes on, or ends and stores the queue.
LEMMA ContinueHolds ==
    ASSUME OverlayInv, CloudMoves, QueueInv', ClaimsInv', Grows, Agreed,
           UNCHANGED queue, UNCHANGED stage, UNCHANGED sync,
           NEW list \in Seq(LocalMutations), Recorded(list)', Continue(list, operation')
    PROVE  OverlayInv'
<1>1. CloudInv /\ StageInv /\ FilesInv /\ CallInv
  BY DEF OverlayInv
<1>2. CASE Unsent(list, operation') = <<>>
  <2>1. /\ push' = [step |-> "idle", list |-> <<>>]
        /\ replica' = [replica EXCEPT !.stored = StoredAs(queue, operation')]
    BY <1>2 DEF Continue, IdlePush
  <2>2. PushInv'
    BY <2>1, EmptySeq DEF PushInv, Recorded
  <2>3. PICK stored : stored = StoredAs(queue, operation')
    OBVIOUS
  <2>4. replica'.stored = StoredAs(queue', operation')
    BY <1>1, <2>1 DEF FilesInv, Files
  <2>5. StoredInv' /\ replica'.stored \in Seq(StoredRecord)
    BY <2>4, CopyIsStored
  <2>6. FilesInv'
    BY <1>1, <2>1, <2>3, <2>4, <2>5, OnlyStored
  <2> QED
    BY <1>1, <2>2, <2>5, <2>6, StagesStay, CallStays DEF OverlayInv, CloudMoves
<1>3. CASE Unsent(list, operation') # <<>>
  <2>1. PICK rest : rest = Unsent(list, operation')
    OBVIOUS
  <2>2. push' = [step |-> "sending", list |-> rest] /\ UNCHANGED replica
    BY <1>3, <2>1 DEF Continue
  <2>3. \A i \in DOMAIN list : operation'[list[i]] \in PendingRecord
    BY DEF Recorded
  <2>4. PICK ops : ops = operation'
    OBVIOUS
  <2>5. rest \in Seq(LocalMutations) /\ \A i \in DOMAIN rest : ops[rest[i]] \in PendingRecord
    BY <2>1, <2>3, <2>4, UnsentIsRest
  <2>6. PushInv'
    BY <1>3, <2>1, <2>2, <2>4, <2>5 DEF PushInv, Recorded
  <2>7. FilesInv' /\ StoredInv'
    BY <1>1, <2>2, FilesStay, StoredStays
  <2> QED
    BY <1>1, <2>6, <2>7, StagesStay, CallStays DEF OverlayInv, CloudMoves
<1> QED
  BY <1>2, <1>3

\* A push begins.
LEMMA StartPushHolds ==
    ASSUME OverlayInv, CloudMoves, StartPush
    PROVE  OverlayInv'
<1>1. CloudInv /\ QueueInv /\ ClaimsInv
  BY DEF OverlayInv
<1>2. /\ UNCHANGED operation /\ UNCHANGED queue /\ UNCHANGED stage /\ UNCHANGED sync
      /\ Continue(queue, operation)
  BY DEF StartPush
<1>3. QueueInv' /\ ClaimsInv' /\ Grows /\ Agreed
  BY <1>1, <1>2, QueueStays
<1>4. PICK list : list = queue
  OBVIOUS
<1>5. list \in Seq(LocalMutations) /\ Recorded(list)'
  BY <1>1, <1>2, <1>4 DEF QueueInv, Recorded
<1>6. Continue(list, operation')
  <2>1. PICK ops : ops = operation'
    OBVIOUS
  <2> QED
    BY <1>2, <1>4
<1> QED
  BY <1>2, <1>3, <1>5, <1>6, ContinueHolds

\* The answer to an operation.
LEMMA AnswerIsRecord ==
    ASSUME OverlayInv, NEW m \in LocalMutations, operation[m] \in PendingRecord,
           idempotency[<<Main, m>>] # NoResult
    PROVE  /\ AnswerOf(m) \in PendingRecord
           /\ Agreeing(operation[m], AnswerOf(m))
           /\ Claims(m, AnswerOf(m))
<1>1. PICK p : p = operation[m]
  OBVIOUS
<1>2. PICK r : r = idempotency[<<Main, m>>]
  OBVIOUS
<1>3. r \in Result
  <2>1. <<Main, m>> \in WriteId
    BY PendingOverlayAssumption DEF WriteId
  <2> QED
    BY <1>2, <2>1 DEF OverlayInv, CloudInv, IInv, TypeOK
<1>4. r.status \in {"accepted", "conflict"} /\ r.sequence \in Nat
  BY <1>3 DEF Result
<1>5. Claims(m, p)
  BY <1>1 DEF OverlayInv, ClaimsInv
<1>6. p \in PendingRecord
  BY <1>1
<1>7. CASE r.status = "accepted"
  <2>1. AnswerOf(m) = [p EXCEPT !.status = "pushed"]
    BY <1>1, <1>2, <1>7 DEF AnswerOf
  <2>2. PICK q : q = [p EXCEPT !.status = "pushed"]
    OBVIOUS
  <2>3. /\ q \in PendingRecord /\ q.status = "pushed" /\ q.incoming = p.incoming
        /\ q.op = p.op /\ q.base = p.base /\ q.fragment = p.fragment
    BY <1>6, <2>2 DEF PendingRecord, OverlayStatus
  <2>4. Agreeing(p, q) /\ Claims(m, q)
    BY <1>5, <2>3 DEF Agreeing, Claims, OverlayStatus, SettledStatus
  <2> QED
    BY <1>1, <2>1, <2>2, <2>3, <2>4
<1>8. CASE r.status # "accepted"
  <2>1. AnswerOf(m) = [p EXCEPT !.status = "conflicted", !.incoming = r.sequence]
    BY <1>1, <1>2, <1>8 DEF AnswerOf
  <2>2. PICK q : q = [p EXCEPT !.status = "conflicted", !.incoming = r.sequence]
    OBVIOUS
  <2>3. /\ q \in PendingRecord /\ q.status = "conflicted" /\ q.incoming = r.sequence
        /\ q.op = p.op /\ q.base = p.base /\ q.fragment = p.fragment
    BY <1>4, <1>6, <2>2 DEF PendingRecord, OverlayStatus
  <2>4. p.incoming # 0 => q.incoming = p.incoming
    BY <1>2, <1>5, <2>3 DEF Claims
  <2>5. Agreeing(p, q)
    BY <2>3, <2>4 DEF Agreeing, OverlayStatus
  <2>6. Claims(m, q)
    BY <1>2, <1>4, <1>8, <2>3 DEF Claims, SettledStatus
  <2> QED
    BY <1>1, <2>1, <2>2, <2>3, <2>5, <2>6
<1> QED
  BY <1>7, <1>8

\* One record changes into another that agrees with it.
LEMMA RecordChanges ==
    ASSUME OverlayInv, CloudMoves, UNCHANGED queue,
           NEW m \in LocalMutations, operation[m] \in PendingRecord,
           NEW q \in PendingRecord, Agreeing(operation[m], q), Claims(m, q),
           operation' = [operation EXCEPT ![m] = q]
    PROVE  QueueInv' /\ ClaimsInv' /\ Grows /\ Agreed
<1>1. CloudInv /\ QueueInv /\ ClaimsInv
  BY DEF OverlayInv
<1>2. operation \in [LocalMutations -> PendingRecord \cup {NoRecord}]
  BY <1>1 DEF QueueInv
<1>3. /\ operation' \in [LocalMutations -> PendingRecord \cup {NoRecord}]
      /\ operation'[m] = q
      /\ \A n \in LocalMutations : n # m => operation'[n] = operation[n]
  BY <1>2
<1>4. Grows
  BY <1>3 DEF Grows
<1>5. Agreed
  <2>1. \A n \in LocalMutations : Agreeing(operation[n], operation[n])
    BY DEF Agreeing
  <2> QED
    BY <1>3, <2>1 DEF Agreed
<1>6. QueueInv'
  <2>1. queue \in Seq(LocalMutations) /\ Recorded(queue)
    BY <1>1 DEF QueueInv
  <2>2. PICK list : list = queue
    OBVIOUS
  <2>3. Recorded(list)'
    BY <1>4, <2>1, <2>2, RecordedStays
  <2>4. list = queue'
    BY <2>2
  <2> QED
    BY <1>3, <2>1, <2>2, <2>3, <2>4 DEF QueueInv
<1>7. ClaimsInv'
  <2> SUFFICES ASSUME NEW n \in LocalMutations, operation'[n] \in PendingRecord
               PROVE  Claims(n, operation[n])'
    BY DEF ClaimsInv
  <2>1. PICK p : p = operation'[n]
    OBVIOUS
  <2>2. Claims(n, p)
    <3>1. CASE n = m
      BY <1>3, <2>1, <3>1
    <3>2. CASE n # m
      BY <1>1, <1>3, <2>1, <3>2 DEF ClaimsInv
    <3> QED
      BY <3>1, <3>2
  <2>3. Claims(n, p)'
    BY <1>1, <2>2, ClaimsStay
  <2> QED
    BY <2>1, <2>3
<1> QED
  BY <1>4, <1>5, <1>6, <1>7

\* The answer is received.
LEMMA ReceiveHolds ==
    ASSUME OverlayInv, CloudMoves, ReceiveAnswer
    PROVE  OverlayInv'
<1>1. PushInv
  BY DEF OverlayInv
<1>2. PICK m : m = Head(push.list)
  OBVIOUS
<1>3. /\ push.step = "answered"
      /\ operation' = [operation EXCEPT ![m] = AnswerOf(m)]
      /\ Continue(Tail(push.list), operation')
      /\ UNCHANGED queue /\ UNCHANGED stage /\ UNCHANGED sync
  BY <1>2, Zenon DEF ReceiveAnswer
<1>4. /\ push.list \in Seq(LocalMutations) /\ push.list # <<>> /\ Recorded(push.list)
      /\ idempotency[<<Main, m>>] # NoResult
  BY <1>1, <1>2, <1>3 DEF PushInv
<1>5. /\ Len(push.list) \in Nat \ {0} /\ DOMAIN push.list = 1..Len(push.list)
      /\ m \in LocalMutations /\ m = push.list[1]
      /\ Tail(push.list) \in Seq(LocalMutations)
      /\ Len(Tail(push.list)) = Len(push.list) - 1
      /\ \A i \in 1..Len(Tail(push.list)) : Tail(push.list)[i] = push.list[i + 1]
  BY <1>2, <1>4, HeadTailProperties, LenProperties, EmptySeq
<1>6. operation[m] \in PendingRecord
  BY <1>4, <1>5 DEF Recorded
<1>7. PICK q : q = AnswerOf(m)
  OBVIOUS
<1>8. q \in PendingRecord /\ Agreeing(operation[m], q) /\ Claims(m, q)
  BY <1>4, <1>5, <1>6, <1>7, AnswerIsRecord
<1>9. operation' = [operation EXCEPT ![m] = q]
  BY <1>3, <1>7
<1>10. QueueInv' /\ ClaimsInv' /\ Grows /\ Agreed
  BY <1>3, <1>5, <1>6, <1>8, <1>9, RecordChanges
<1>11. PICK list : list = Tail(push.list)
  OBVIOUS
<1>12. list \in Seq(LocalMutations) /\ Recorded(list)
  <2>1. ASSUME NEW i \in DOMAIN list
        PROVE  operation[list[i]] \in PendingRecord
    <3>1. i \in 1..Len(list)
      BY <1>5, <1>11, <2>1, LenProperties
    <3>2. list[i] = push.list[i + 1] /\ i + 1 \in DOMAIN push.list
      BY <1>5, <1>11, <3>1
    <3> QED
      BY <1>4, <3>2 DEF Recorded
  <2> QED
    BY <1>5, <1>11, <2>1 DEF Recorded
<1>13. Recorded(list)'
  BY <1>10, <1>12, RecordedStays
<1>14. Continue(list, operation')
  BY <1>3, <1>11
<1> QED
  BY <1>3, <1>10, <1>12, <1>13, <1>14, ContinueHolds

\* What a batch makes of the files.
LEMMA SynchronizedIsTyped ==
    ASSUME OverlayInv
    PROVE  /\ Synchronized \in Files /\ Synchronized.watermark = sequence
           /\ Synchronized.stored = replica.stored
<1>1. CloudInv /\ replica \in Files /\ Seen(sync.known)
  BY DEF OverlayInv, FilesInv, CallInv
<1>2. /\ records \in Seq(CommitRecord) /\ sequence \in Nat /\ sequence = Len(records)
      /\ DOMAIN records = 1..sequence
      /\ \A i \in DOMAIN records : records[i].id \in CommitId
  <2>1. records \in Seq(CommitRecord) /\ sequence = Len(records)
    BY <1>1 DEF CloudInv, IInv, TypeOK, Numbered
  <2>2. Len(records) \in Nat /\ DOMAIN records = 1..Len(records)
        /\ \A i \in DOMAIN records : records[i] \in CommitRecord
    BY <2>1, LenProperties, ElementOfSeq
  <2> QED
    BY <2>1, <2>2 DEF CommitRecord
<1> DEFINE shown == ViewNow
           visible(i) == VisibleOperations(records[i].ops, shown)
           history == {i \in (Before + 1)..sequence : visible(i) # {}}
           accepted == history \cap AcceptedOn(Main)
           ops == UNION {visible(i) : i \in accepted}
           replaced == sync.known = None \/ RebuildRequired(ops)
           head == IF accepted # {} THEN records[Max(accepted)].id
                   ELSE IF replaced THEN None ELSE replica.head
           snapshot == IF replaced THEN shown
                       ELSE IF accepted = {} THEN replica.snapshot
                       ELSE ApplyDelta(replica.snapshot, Delta(ops, shown))
<1>3. Synchronized = [replica EXCEPT !.valid = TRUE, !.watermark = sequence, !.head = head,
                                     !.snapshot = snapshot]
  BY Zenon DEF Synchronized, WatermarkOf
<1>4. shown \in Shown
  BY <1>1, ViewNowIsShown
<1>5. accepted \in SUBSET (1..sequence)
  BY <1>2 DEF AcceptedOn
<1> HIDE DEF shown, visible, history, accepted, ops, replaced
<1>6. head \in CommitId \cup {None}
  <2>1. CASE accepted # {}
    <3>1. Max(accepted) \in accepted
      BY <1>2, <1>5, <2>1, LargestElement
    <3> QED
      BY <1>2, <1>5, <2>1, <3>1
  <2>2. CASE accepted = {}
    BY <1>1, <2>2 DEF Files
  <2> QED
    BY <2>1, <2>2
<1>7. snapshot \in Shown
  <2>1. replica.snapshot \in Shown
    BY <1>1 DEF Files
  <2>2. ApplyDelta(replica.snapshot, Delta(ops, shown)) \in Shown
    BY <1>4, <2>1, AppliedIsShown
  <2> QED
    BY <1>4, <2>1, <2>2
<1> HIDE DEF head, snapshot
<1> QED
  BY <1>1, <1>2, <1>3, <1>6, <1>7 DEF Files

\* The batch is applied, or the replica invalidated.
LEMMA BatchHolds ==
    ASSUME OverlayInv, CloudMoves, ApplyBatch \/ Invalidate
    PROVE  OverlayInv'
<1>1. CloudInv /\ QueueInv /\ ClaimsInv /\ PushInv /\ StageInv /\ FilesInv /\ CallInv
  BY DEF OverlayInv
<1>2. UNCHANGED <<operation, queue>> /\ UNCHANGED vars /\ UNCHANGED stage /\ UNCHANGED push
  BY DEF ApplyBatch, Invalidate
<1>3. QueueInv' /\ ClaimsInv' /\ Grows /\ Agreed
  BY <1>1, <1>2, QueueStays
<1>4. CloudInv' /\ sequence' = sequence /\ sequence \in Nat
  BY <1>1, <1>2 DEF CloudMoves, vars, CloudInv, IInv, TypeOK
<1>5. CASE ApplyBatch
  <2>1. replica' = Synchronized /\ sync' = [sync EXCEPT !.step = "applied"]
    BY <1>5 DEF ApplyBatch
  <2>2. FilesInv' /\ replica'.stored = replica.stored
    <3>1. replica' \in Files /\ replica'.watermark = sequence
          /\ replica'.stored = replica.stored
      BY <2>1, SynchronizedIsTyped
    <3> QED
      BY <1>4, <3>1 DEF FilesInv, Seen
  <2>3. StoredInv'
    BY <1>2, <1>3, <2>2, StoredStays
  <2>4. CallInv'
    BY <1>1, <1>4, <2>1 DEF CallInv, Seen
  <2> QED
    BY <1>1, <1>2, <1>3, <1>4, <2>2, <2>3, <2>4, PushStays, StagesStay DEF OverlayInv
<1>6. CASE Invalidate
  <2>1. /\ replica' = [valid |-> FALSE, watermark |-> None, snapshot |-> Hidden,
                       head |-> None, stored |-> <<>>]
        /\ sync' = [step |-> "idle", known |-> None]
    BY <1>6 DEF Invalidate, EmptyFiles, IdleSync
  <2>2. FilesInv'
    <3>1. Hidden \in Shown
      BY DEF Hidden, Shown
    <3> QED
      BY <2>1, <3>1, EmptySeq DEF FilesInv, Files, Seen
  <2>3. StoredInv'
    <3>1. replica'.stored = <<>>
      BY <2>1
    <3> QED
      BY <3>1 DEF StoredInv
  <2>4. CallInv'
    BY <2>1 DEF CallInv, Seen
  <2> QED
    BY <1>1, <1>2, <1>3, <1>4, <2>2, <2>3, <2>4, PushStays, StagesStay DEF OverlayInv
<1> QED
  BY <1>5, <1>6

\* A reconciled record says only what the cloud has decided.
LEMMA ReconciledIsRecord ==
    ASSUME OverlayInv, NEW m \in LocalMutations, operation[m] \in PendingRecord,
           NEW seen, seen = (Before + 1)..sequence
    PROVE  Reconciled(m, seen) \in PendingRecord /\ Claims(m, Reconciled(m, seen))
<1>1. PICK p : p = operation[m]
  OBVIOUS
<1> DEFINE resolutions == {i \in seen : p.incoming # 0 /\ Resolves(i, p.incoming)}
           own == {i \in seen \cap AcceptedOn(Main) : records[i].id = <<Main, m>>}
           remote == {i \in seen \cap AcceptedOn(Main) :
                        KeysOf(records[i].ops) \cap ConflictKeys(p.op) # {}}
           settled == SettledAs(records[Min(resolutions)].ops[1].resolution)
<1>2. Reconciled(m, seen) =
        IF ~IsOverlayActive(p.status) THEN p
        ELSE IF resolutions # {} THEN [p EXCEPT !.status = settled]
        ELSE IF own # {} THEN [p EXCEPT !.status = "resolved"]
        ELSE IF remote # {} THEN [p EXCEPT !.status = "conflicted"]
        ELSE p
  BY <1>1, Zenon DEF Reconciled
<1>3. p \in PendingRecord /\ Claims(m, p)
  BY <1>1 DEF OverlayInv, ClaimsInv
<1>4. CloudInv
  BY DEF OverlayInv
<1>5. ASSUME NEW status \in OverlayStatus \cup SettledStatus,
             status \in SettledStatus => SettledBy(m, p.incoming, status)
      PROVE  [p EXCEPT !.status = status] \in PendingRecord
             /\ Claims(m, [p EXCEPT !.status = status])
  <2>1. PICK q : q = [p EXCEPT !.status = status]
    OBVIOUS
  <2>2. q \in PendingRecord /\ q.status = status /\ q.incoming = p.incoming
    BY <1>3, <2>1 DEF PendingRecord
  <2>3. Claims(m, q)
    BY <1>3, <1>5, <2>2 DEF Claims
  <2> QED
    BY <2>1, <2>2, <2>3
<1>6. ASSUME resolutions # {}
      PROVE  settled \in SettledStatus /\ SettledBy(m, p.incoming, settled)
  <2>1. /\ records \in Seq(CommitRecord) /\ sequence = Len(records) /\ sequence \in Nat
        /\ sync.known \in 0..sequence \cup {None}
    BY <1>4 DEF OverlayInv, CallInv, Seen, CloudInv, IInv, TypeOK, Numbered
  <2>2. Before \in Nat
    BY <2>1 DEF Before
  <2>3. seen \in SUBSET Nat /\ seen \subseteq 1..Len(records)
    BY <2>1, <2>2
  <2>4. resolutions \in SUBSET Nat
    BY <2>3
  <2>5. PICK first \in resolutions : \A n \in resolutions : first <= n
    BY <1>6, <2>4, LeastElement
  <2>6. Min(resolutions) \in resolutions
    BY <2>5 DEF Min
  <2>7. PICK i : i = Min(resolutions)
    OBVIOUS
  <2>8. i \in 1..Len(records) /\ p.incoming # 0 /\ Resolves(i, p.incoming)
    BY <2>3, <2>6, <2>7
  <2>9. i \in DOMAIN records /\ records[i] \in CommitRecord
    BY <2>1, <2>8, LenProperties, ElementOfSeq
  <2>10. i \in AcceptedOn(Main)
    <3>1. records[i].status # "conflicted"
      BY <1>4, <2>8, <2>9 DEF CloudInv, MarkersAccepted, Resolves
    <3>2. records[i].branch = Main /\ records[i].status = "accepted"
      BY <2>9, <3>1, PendingOverlayAssumption DEF CommitRecord
    <3> QED
      BY <2>9, <3>2 DEF AcceptedOn
  <2>11. PICK op : op = records[i].ops[1]
    OBVIOUS
  <2>12. op.resolution \in ResolutionKinds
    <3>1. op \in Operation
      <4>1. records[i].ops \in Seq(Operation) /\ records[i].ops # <<>>
        BY <2>9 DEF CommitRecord, Batch
      <4>2. 1 \in 1..Len(records[i].ops)
        BY <4>1, EmptySeq
      <4> QED
        BY <2>11, <4>1, <4>2, ElementOfSeq
    <3>2. op.kind = "resolve_conflict"
      BY <2>8, <2>11 DEF Resolves
    <3>3. op \in [kind: {"resolve_conflict"}, conflicts: SUBSET Nat,
                  resolution: ResolutionKinds]
      BY <3>1, <3>2 DEF Operation, MutationOperation
    <3> QED
      BY <3>3
  <2>13. settled = SettledAs(op.resolution)
    BY <2>7, <2>11
  <2> HIDE DEF settled, resolutions
  <2>14. CASE op.resolution = "take_incoming"
    BY <2>8, <2>10, <2>11, <2>13, <2>14 DEF SettledAs, SettledBy, SettledStatus
  <2>15. CASE op.resolution = "keep_target"
    BY <2>8, <2>10, <2>11, <2>13, <2>15 DEF SettledAs, SettledBy, SettledStatus
  <2>16. CASE op.resolution = "manual_merge"
    BY <2>8, <2>10, <2>11, <2>13, <2>16 DEF SettledAs, SettledBy, SettledStatus
  <2> QED
    BY <2>12, <2>14, <2>15, <2>16 DEF ResolutionKinds
<1>7. own # {} => SettledBy(m, p.incoming, "resolved")
  BY DEF SettledBy
<1>8. /\ "resolved" \in SettledStatus /\ "conflicted" \in OverlayStatus
      /\ "conflicted" \notin SettledStatus
  BY DEF SettledStatus, OverlayStatus
<1> HIDE DEF settled, own, remote, resolutions
<1>9. CASE resolutions # {} /\ IsOverlayActive(p.status)
  BY <1>2, <1>5, <1>6, <1>9
<1>10. CASE resolutions = {} /\ own # {} /\ IsOverlayActive(p.status)
  BY <1>2, <1>5, <1>7, <1>8, <1>10
<1>11. CASE resolutions = {} /\ own = {} /\ remote # {} /\ IsOverlayActive(p.status)
  BY <1>2, <1>5, <1>8, <1>11
<1>12. CASE \/ ~IsOverlayActive(p.status)
            \/ resolutions = {} /\ own = {} /\ remote = {}
  BY <1>2, <1>3, <1>12
<1> QED
  BY <1>9, <1>10, <1>11, <1>12

\* The queue is reconciled.
LEMMA ReconcileHolds ==
    ASSUME OverlayInv, CloudMoves, Reconcile
    PROVE  OverlayInv'
<1>1. CloudInv /\ QueueInv /\ ClaimsInv /\ PushInv /\ StageInv /\ FilesInv /\ CallInv
  BY DEF OverlayInv
<1>2. UNCHANGED vars /\ UNCHANGED queue /\ UNCHANGED stage /\ UNCHANGED push
  BY DEF Reconcile
<1>3. PICK seen : seen = (Before + 1)..sequence
  OBVIOUS
<1> DEFINE inQueue == {queue[i] : i \in DOMAIN queue}
<1>4. /\ operation' = [m \in LocalMutations |->
                        IF m \in inQueue THEN Reconciled(m, seen) ELSE operation[m]]
      /\ replica' = [replica EXCEPT !.stored = StoredAs(queue, operation')]
      /\ sync' = [step |-> "idle", known |-> None]
  BY <1>3, Zenon DEF Reconcile, IdleSync
<1>5. \A m \in inQueue : operation[m] \in PendingRecord
  BY <1>1 DEF QueueInv, Recorded
<1> HIDE DEF inQueue
<1>6. ASSUME NEW m \in LocalMutations
      PROVE  /\ operation[m] \in PendingRecord => operation'[m] \in PendingRecord
             /\ operation'[m] \in PendingRecord \cup {NoRecord}
             /\ operation'[m] \in PendingRecord => Claims(m, operation'[m])
  <2>1. CASE m \in inQueue
    BY <1>3, <1>4, <1>5, <2>1, ReconciledIsRecord
  <2>2. CASE m \notin inQueue
    <3>1. operation'[m] = operation[m]
      BY <1>4, <2>2
    <3> QED
      BY <1>1, <3>1 DEF QueueInv, ClaimsInv
  <2> QED
    BY <2>1, <2>2
<1>7. Grows
  BY <1>6 DEF Grows
<1>8. QueueInv'
  <2>1. PICK list : list = queue
    OBVIOUS
  <2>2. list \in Seq(LocalMutations) /\ Recorded(list)
    BY <1>1, <2>1 DEF QueueInv
  <2>3. Recorded(list)' /\ list = queue'
    BY <1>2, <1>7, <2>1, <2>2, RecordedStays
  <2>4. operation' \in [LocalMutations -> PendingRecord \cup {NoRecord}]
    BY <1>4, <1>6
  <2> QED
    BY <2>2, <2>3, <2>4 DEF QueueInv
<1>9. ClaimsInv'
  <2> SUFFICES ASSUME NEW m \in LocalMutations, operation'[m] \in PendingRecord
               PROVE  Claims(m, operation[m])'
    BY DEF ClaimsInv
  <2>1. PICK p : p = operation'[m]
    OBVIOUS
  <2>2. Claims(m, p)
    BY <1>6, <2>1
  <2>3. Claims(m, p)'
    BY <1>1, <2>2, ClaimsStay
  <2> QED
    BY <2>1, <2>3
<1>10. PICK stored : stored = StoredAs(queue, operation')
  OBVIOUS
<1>11. replica'.stored = StoredAs(queue', operation')
  BY <1>1, <1>2, <1>4 DEF FilesInv, Files
<1>12. StoredInv' /\ replica'.stored \in Seq(StoredRecord)
  BY <1>8, <1>9, <1>11, CopyIsStored
<1>13. FilesInv'
  BY <1>1, <1>2, <1>4, <1>10, <1>11, <1>12, OnlyStored
<1>14. CallInv'
  BY <1>4 DEF CallInv, Seen
<1> QED
  BY <1>1, <1>2, <1>7, <1>8, <1>9, <1>12, <1>13, <1>14, PushStays, StagesStay
  DEF OverlayInv, CloudMoves

\* What a start finds in the files.
LEMMA LoadedIsTyped ==
    ASSUME OverlayInv, NEW k
    PROVE  /\ Loaded(k) \in Files /\ Seen(Loaded(k).watermark)
           /\ Loaded(k).stored \in {replica.stored, <<>>}
<1>1. replica \in Files /\ Seen(replica.watermark)
  BY DEF OverlayInv, FilesInv
<1> DEFINE cursor == Survives(RemovedAt.cursor, WrittenAt.cursor, k)
           watermark == IF cursor THEN replica.watermark ELSE None
           snapshot == [o \in Objects |->
                IF cursor /\ SnapshotStore(o, k) THEN replica.snapshot[o] ELSE None]
           head == IF Survives(RemovedAt.history, WrittenAt.history, k)
                   THEN replica.head ELSE None
           stored == IF Survives(RemovedAt.pending, WrittenAt.pending, k)
                     THEN replica.stored ELSE <<>>
<1>2. Loaded(k) = [valid |-> replica.valid, watermark |-> watermark, snapshot |-> snapshot,
                   head |-> head, stored |-> stored]
  BY Zenon DEF Loaded
<1>3. snapshot \in Shown
  <2>1. \A o \in Objects : replica.snapshot[o] \in Content \cup {None}
    BY <1>1 DEF Files, Shown
  <2> QED
    BY <2>1 DEF Shown
<1>4. /\ watermark \in Nat \cup {None} /\ Seen(watermark)
      /\ head \in CommitId \cup {None}
      /\ stored \in Seq(StoredRecord) /\ stored \in {replica.stored, <<>>}
  BY <1>1, EmptySeq DEF Files, Seen
<1>5. replica.valid \in BOOLEAN
  BY <1>1 DEF Files
<1> HIDE DEF cursor, watermark, snapshot, head, stored
<1> QED
  BY <1>2, <1>3, <1>4, <1>5 DEF Files

\* The process starts again.
LEMMA RestartHolds ==
    ASSUME OverlayInv, CloudMoves, NEW k, Restart(k)
    PROVE  OverlayInv'
<1>1. CloudInv /\ QueueInv /\ ClaimsInv /\ StoredInv
  BY DEF OverlayInv
<1>2. PICK files : files = Loaded(k)
  OBVIOUS
<1> DEFINE at(m) == {i \in DOMAIN files.stored : files.stored[i].mutation = m}
<1>3. /\ replica' = files
      /\ queue' = MutationsOf(files.stored)
      /\ operation' = [m \in LocalMutations |->
                IF at(m) = {} THEN NoRecord
                ELSE files.stored[CHOOSE i \in at(m) : TRUE].record]
      /\ stage' = [c \in Stagers |-> NoDraft]
      /\ push' = [step |-> "idle", list |-> <<>>]
      /\ sync' = [step |-> "idle", known |-> None]
      /\ UNCHANGED vars
  <2>1. /\ replica' = Loaded(k)
        /\ queue' = [i \in DOMAIN Loaded(k).stored |-> Loaded(k).stored[i].mutation]
        /\ stage' = [c \in Stagers |-> NoDraft]
        /\ push' = [step |-> "idle", list |-> <<>>]
        /\ sync' = [step |-> "idle", known |-> None]
        /\ UNCHANGED vars
    BY DEF Restart, IdlePush, IdleSync
  <2>2. operation' = [m \in LocalMutations |->
                IF {i \in DOMAIN Loaded(k).stored : Loaded(k).stored[i].mutation = m} = {}
                THEN NoRecord
                ELSE Loaded(k).stored[CHOOSE i \in {j \in DOMAIN Loaded(k).stored :
                                        Loaded(k).stored[j].mutation = m} : TRUE].record]
    BY Zenon DEF Restart
  <2>3. operation' = [m \in LocalMutations |->
                IF at(m) = {} THEN NoRecord
                ELSE files.stored[CHOOSE i \in at(m) : TRUE].record]
    BY <1>2, <2>2
  <2>4. queue' = MutationsOf(files.stored)
    BY <1>2, <2>1 DEF MutationsOf
  <2> HIDE DEF at
  <2> QED
    BY <1>2, <2>1, <2>3, <2>4
<1>4. files \in Files /\ Seen(files.watermark) /\ files.stored \in {replica.stored, <<>>}
  BY <1>2, LoadedIsTyped
<1>5. PICK s : s = files.stored
  OBVIOUS
<1>6. /\ s \in Seq(StoredRecord) /\ Len(s) \in Nat /\ DOMAIN s = 1..Len(s)
      /\ \A i \in DOMAIN s : s[i].mutation \in LocalMutations /\ s[i].record \in PendingRecord
  <2>1. s \in Seq(StoredRecord)
    BY <1>4, <1>5 DEF Files
  <2>2. Len(s) \in Nat /\ DOMAIN s = 1..Len(s) /\ \A i \in DOMAIN s : s[i] \in StoredRecord
    BY <2>1, LenProperties, ElementOfSeq
  <2> QED
    BY <2>1, <2>2 DEF StoredRecord
<1>7. /\ \A i, j \in DOMAIN s : s[i].mutation = s[j].mutation => s[i].record = s[j].record
      /\ \A i \in DOMAIN s : Claims(s[i].mutation, s[i].record)
  <2>1. CASE s = <<>>
    <3>1. DOMAIN s = {}
      BY <2>1
    <3> QED
      BY <3>1
  <2>2. CASE s = replica.stored
    BY <1>1, <2>2 DEF StoredInv
  <2> QED
    BY <1>4, <1>5, <2>1, <2>2
<1>8. ASSUME NEW i \in DOMAIN s
      PROVE  operation'[s[i].mutation] = s[i].record
  <2>1. PICK m : m = s[i].mutation
    OBVIOUS
  <2>2. i \in at(m) /\ m \in LocalMutations
    BY <1>5, <1>6, <1>8, <2>1
  <2>3. (CHOOSE j \in at(m) : TRUE) \in at(m)
    BY <2>2
  <2>4. PICK j : j = CHOOSE n \in at(m) : TRUE
    OBVIOUS
  <2>5. j \in DOMAIN s /\ s[j].mutation = m
    BY <1>5, <2>3, <2>4
  <2>6. operation'[m] = s[j].record
    BY <1>3, <1>5, <2>2, <2>4
  <2> QED
    BY <1>7, <1>8, <2>1, <2>5, <2>6
<1>9. ASSUME NEW m \in LocalMutations
      PROVE  \/ operation'[m] = NoRecord
             \/ \E i \in DOMAIN s : s[i].mutation = m /\ operation'[m] = s[i].record
  <2>1. CASE at(m) = {}
    BY <1>3, <2>1
  <2>2. CASE at(m) # {}
    <3>1. PICK i : i \in at(m)
      BY <2>2
    <3>2. i \in DOMAIN s /\ s[i].mutation = m
      BY <1>5, <3>1
    <3> QED
      BY <1>8, <3>2
  <2> QED
    BY <2>1, <2>2
<1> DEFINE recovered == [m \in LocalMutations |->
                IF at(m) = {} THEN NoRecord
                ELSE files.stored[CHOOSE i \in at(m) : TRUE].record]
<1>10. QueueInv'
  <2>1. operation' = recovered
    BY <1>3
  <2> HIDE DEF at
  <2>2. DOMAIN operation' = LocalMutations /\ operation' = [m \in LocalMutations |-> operation'[m]]
    BY <2>1
  <2> HIDE DEF recovered
  <2>3. operation' \in [LocalMutations -> PendingRecord \cup {NoRecord}]
    <3>1. \A m \in LocalMutations : operation'[m] \in PendingRecord \cup {NoRecord}
      BY <1>6, <1>9
    <3> QED
      BY <2>2, <3>1
  <2>4. queue' = [i \in DOMAIN s |-> s[i].mutation]
    BY <1>3, <1>5 DEF MutationsOf
  <2>5. queue' \in [1..Len(s) -> LocalMutations]
    BY <1>6, <2>4
  <2>6. queue' \in Seq(LocalMutations)
    BY <1>6, <2>5, SeqDef
  <2>7. \A i \in DOMAIN queue' : operation'[queue'[i]] \in PendingRecord
    BY <1>6, <1>8, <2>4
  <2> QED
    BY <2>3, <2>6, <2>7 DEF QueueInv, Recorded
<1> HIDE DEF recovered, at
<1>11. ClaimsInv'
  <2> SUFFICES ASSUME NEW m \in LocalMutations, operation'[m] \in PendingRecord
               PROVE  Claims(m, operation[m])'
    BY DEF ClaimsInv
  <2>1. PICK p : p = operation'[m]
    OBVIOUS
  <2>2. Claims(m, p)
    BY <1>7, <1>9, <2>1, RecordsAreNot
  <2>3. Claims(m, p)'
    BY <1>1, <2>2, ClaimsStay
  <2> QED
    BY <2>1, <2>3
<1>12. StoredInv'
  <2>1. replica'.stored = s
    BY <1>3, <1>5
  <2>2. ASSUME NEW i \in DOMAIN s
        PROVE  Claims(replica.stored[i].mutation, replica.stored[i].record)'
    <3>1. PICK m : m = s[i].mutation
      OBVIOUS
    <3>2. PICK p : p = s[i].record
      OBVIOUS
    <3>3. Claims(m, p)'
      BY <1>1, <1>6, <1>7, <2>2, <3>1, <3>2, ClaimsStay
    <3>4. m = replica'.stored[i].mutation /\ p = replica'.stored[i].record
      BY <2>1, <3>1, <3>2
    <3> QED
      BY <3>3, <3>4
  <2>3. \A i \in DOMAIN s : Agreeing(s[i].record, operation'[s[i].mutation])
    BY <1>8 DEF Agreeing
  <2>4. queue' = MutationsOf(s)
    BY <1>3, <1>5
  <2> QED
    BY <1>6, <1>7, <1>8, <2>1, <2>2, <2>3, <2>4 DEF StoredInv
<1>13. FilesInv'
  <2>1. PICK w : w = files.watermark
    OBVIOUS
  <2>2. Seen(w)'
    BY <1>1, <1>4, <2>1, SeenStays
  <2>3. w = replica'.watermark
    BY <1>3, <2>1
  <2> QED
    BY <1>3, <1>4, <2>2, <2>3 DEF FilesInv
<1>14. PushInv'
  BY <1>3, EmptySeq DEF PushInv, Recorded
<1>15. StageInv'
  BY <1>3 DEF StageInv
<1>16. CallInv'
  BY <1>3 DEF CallInv, Seen
<1> QED
  BY <1>10, <1>11, <1>12, <1>13, <1>14, <1>15, <1>16 DEF OverlayInv, CloudMoves

-----------------------------------------------------------------------------
(* The theorems.                                                           *)

\* Every step keeps the invariant.
LEMMA OverlayStepHolds == OverlayInv /\ [OverlayNext]_allVars => OverlayInv'
<1> SUFFICES ASSUME OverlayInv, [OverlayNext]_allVars PROVE OverlayInv'
  OBVIOUS
<1>1. CloudMoves
  BY OverlayMoves
<1>2. CASE \E c \in Stagers, m \in LocalMutations : \E op \in StageOps[m] : Draft(c, m, op)
  BY <1>1, <1>2, DraftHolds
<1>3. CASE \E c \in Stagers : Install(c)
  BY <1>1, <1>3, InstallHolds
<1>4. CASE StartPush
  BY <1>1, <1>4, StartPushHolds
<1>5. CASE Send \/ PushThrows
  BY <1>1, <1>5, SendHolds
<1>6. CASE ReceiveAnswer
  BY <1>1, <1>6, ReceiveHolds
<1>7. CASE StartSync \/ SyncThrows
  BY <1>1, <1>7, CallHolds
<1>8. CASE ApplyBatch \/ Invalidate
  BY <1>1, <1>8, BatchHolds
<1>9. CASE Reconcile
  BY <1>1, <1>9, ReconcileHolds
<1>10. CASE \E k \in TornAt : Restart(k)
  BY <1>1, <1>10, RestartHolds
<1>11. CASE Remote
  BY <1>1, <1>11, RemoteHolds DEF Remote
<1>12. CASE UNCHANGED allVars
  BY <1>1, <1>12, RemoteHolds DEF allVars
<1> QED
  BY <1>2, <1>3, <1>4, <1>5, <1>6, <1>7, <1>8, <1>9, <1>10, <1>11, <1>12
  DEF OverlayNext, Local

\* The invariant always holds.
LEMMA OverlayInvHolds == OverlaySpec => []OverlayInv
<1>1. OverlayInit => OverlayInv
  BY InitOverlayInv
<1>2. OverlayInv /\ [OverlayNext]_allVars => OverlayInv'
  BY OverlayStepHolds
<1> QED
  BY <1>1, <1>2, PTL DEF OverlaySpec

\* What the invariant says of the types.
LEMMA OverlayIsTyped == OverlayInv => OverlayTypeOK
<1> SUFFICES ASSUME OverlayInv PROVE OverlayTypeOK
  OBVIOUS
<1>1. QueueInv /\ PushInv /\ StageInv /\ FilesInv /\ CallInv /\ CloudInv
  BY DEF OverlayInv
<1>2. /\ \A m \in LocalMutations : LocalRecord(operation[m])
      /\ queue \in Seq(LocalMutations)
      /\ \A i \in DOMAIN queue : operation[queue[i]] # NoRecord
  BY <1>1, RecordsAreNot DEF QueueInv, Recorded, LocalRecord
<1>3. /\ replica.valid \in BOOLEAN
      /\ replica.watermark \in 0..sequence \cup {None}
      /\ replica.snapshot \in Shown
      /\ replica.head \in CommitId \cup {None}
      /\ replica.stored \in Seq(StoredRecord)
  BY <1>1 DEF FilesInv, Files, Seen
<1>4. ASSUME NEW i \in DOMAIN replica.stored
      PROVE  /\ replica.stored[i].mutation \in LocalMutations
             /\ replica.stored[i].record \in PendingRecord
  <2>1. replica.stored[i] \in StoredRecord
    BY <1>3, <1>4, LenProperties, ElementOfSeq
  <2> QED
    BY <2>1 DEF StoredRecord
<1>5. \A c \in Stagers : stage[c].mutation \in LocalMutations \cup {None}
  <2> SUFFICES ASSUME NEW c \in Stagers
               PROVE  stage[c].mutation \in LocalMutations \cup {None}
    OBVIOUS
  <2>1. CASE stage[c] = NoDraft
    BY <2>1 DEF NoDraft
  <2>2. CASE stage[c] # NoDraft
    BY <1>1, <2>2 DEF StageInv, Drafts, Drafted
  <2> QED
    BY <2>1, <2>2
<1>6. push.step \in {"idle", "sending", "answered"} /\ push.list \in Seq(LocalMutations)
  BY <1>1 DEF PushInv
<1>7. sync.step \in {"idle", "asked", "applied"} /\ Before \in 0..sequence
  <2>1. sequence \in Nat
    BY <1>1 DEF CloudInv, IInv, TypeOK
  <2> QED
    BY <1>1, <2>1 DEF CallInv, Seen, Before
<1> QED
  BY <1>2, <1>3, <1>4, <1>5, <1>6, <1>7 DEF OverlayTypeOK

\* What settles a record is a decision on its operation.
LEMMA SettledIsDecided ==
    ASSUME NEW m, NEW incoming, NEW status, SettledBy(m, incoming, status),
           incoming # 0 => operation[m].incoming = incoming
    PROVE  DecidedAs(m, status)
BY DEF SettledBy, DecidedAs

\* The type invariant of the overlay: calls that overlap, answers that are lost,
\* torn files and restarts leave its state among those the code expects.
THEOREM OverlayIsAlwaysTyped == OverlaySpec => []OverlayTypeOK
BY OverlayInvHolds, OverlayIsTyped, PTL

\* An operation leaves the overlay only by a decision of the cloud that says what
\* its status says, for any number of operations, overlapping calls and crashes
\* (push, reconcile).
THEOREM OperationsLeaveWhenDecided == OverlaySpec => []LeavesWhenDecided
<1>1. OverlayInv => LeavesWhenDecided
  <2> SUFFICES ASSUME OverlayInv, NEW m \in LocalMutations,
                      operation[m].status \in SettledStatus
               PROVE  DecidedAs(m, operation[m].status)
    BY DEF LeavesWhenDecided
  <2>1. operation[m] \in PendingRecord
    <3>1. operation[m] # NoRecord
      BY DEF NoRecord, SettledStatus
    <3> QED
      BY <3>1 DEF OverlayInv, QueueInv
  <2>2. SettledBy(m, operation[m].incoming, operation[m].status)
    BY <2>1 DEF OverlayInv, ClaimsInv, Claims
  <2> QED
    BY <2>2, SettledIsDecided
<1> QED
  BY <1>1, OverlayInvHolds, PTL

\* A restart from what is stored agrees with what the process holds: the same
\* operations as they were staged, none back that has left the overlay, and what
\* it shows no longer the cloud has decided (stage, push and reconcile store the
\* queue at their end only).
THEOREM RestartsAgree == OverlaySpec => []RestartAgrees
<1>1. OverlayInv => RestartAgrees
  <2> SUFFICES ASSUME OverlayInv, replica.stored # <<>>
               PROVE  /\ queue = [i \in DOMAIN replica.stored |-> replica.stored[i].mutation]
                      /\ \A i \in DOMAIN queue :
                           LET kept == replica.stored[i].record
                               held == operation[queue[i]]
                           IN  /\ <<kept.op, kept.base, kept.fragment>>
                                    = <<held.op, held.base, held.fragment>>
                               /\ kept.status \in OverlayStatus => held.status \in OverlayStatus
                               /\ kept.status \in SettledStatus =>
                                    DecidedAs(queue[i], kept.status)
    BY DEF RestartAgrees
  <2>1. StoredInv
    BY DEF OverlayInv
  <2>2. queue = [i \in DOMAIN replica.stored |-> replica.stored[i].mutation]
    BY <2>1 DEF StoredInv, MutationsOf
  <2>3. ASSUME NEW i \in DOMAIN queue
        PROVE  LET kept == replica.stored[i].record
                   held == operation[queue[i]]
               IN  /\ <<kept.op, kept.base, kept.fragment>>
                        = <<held.op, held.base, held.fragment>>
                   /\ kept.status \in OverlayStatus => held.status \in OverlayStatus
                   /\ kept.status \in SettledStatus => DecidedAs(queue[i], kept.status)
    <3>1. PICK p : p = replica.stored[i].record
      OBVIOUS
    <3>2. PICK m : m = queue[i]
      OBVIOUS
    <3>3. i \in DOMAIN replica.stored /\ m = replica.stored[i].mutation
      BY <2>2, <2>3, <3>2
    <3>4. Claims(m, p) /\ Agreeing(p, operation[m])
      BY <2>1, <3>1, <3>3 DEF StoredInv
    <3>5. p.status \in SettledStatus => DecidedAs(m, p.status)
      BY <3>4, SettledIsDecided DEF Claims, Agreeing
    <3> QED
      BY <3>1, <3>2, <3>4, <3>5 DEF Agreeing
  <2> QED
    BY <2>2, <2>3
<1> QED
  BY <1>1, OverlayInvHolds, PTL

=============================================================================
