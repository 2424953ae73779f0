---------------------------- MODULE CloudHistory ----------------------------
(***************************************************************************)
(* The cloud memory authority (InMemoryCloudMemoryAuthority,               *)
(* history/cloud-authority.ts): the append-only commit log of each target  *)
(* branch, optimistic conflict detection by Conflict Key, equivalent       *)
(* writes, capture of conflicting writes on conflict branches, and the     *)
(* resolutions an administrator commits.                                   *)
(*                                                                         *)
(* Every call is one step: the durable authority runs each in a write      *)
(* transaction.  A resolution that throws half way keeps the commits it    *)
(* had already made, as this class does when used without a transaction.   *)
(***************************************************************************)
EXTENDS MemoryModel

CONSTANTS
    Branches,           \* target branches of the root
    Mutations,          \* clientMutationIds of writes; one commit id for each
    Resolutions,        \* clientMutationIds of resolutions
    WriteBatches,       \* the operation lists clients send
    ManualOperations,   \* the operations administrators merge by hand
    MaxListed           \* bound: conflicts one resolution names

WriteId == Branches \X Mutations
ResolutionId == Branches \X Resolutions
PartId == Branches \X Resolutions \X {"revert", "apply"} \X (Nat \ {0})
CommitId == WriteId \cup ResolutionId \cup PartId

Operation ==
    MutationOperation
    \cup [kind: {"revert_commit"}, commit: CommitId]
    \cup [kind: {"resolve_conflict"}, conflicts: SUBSET Nat,
          resolution: ResolutionKinds]

ASSUME CloudHistoryAssumption ==
    /\ None \notin CommitId
    /\ WriteBatches \subseteq Seq(MutationOperation)
    /\ \A ops \in WriteBatches : PermittedBatch(ops)
    /\ ManualOperations \subseteq MutationOperation
    /\ Mutations \cap Resolutions = {}  \* commit ids are drawn for one call
    /\ MaxListed \in Nat

Key ==
    ({"object"} \X Objects)
    \cup ({"entity-branch"} \X (Objects \cup {None}))
    \cup ({"relation"} \X (Objects \cup {None}) \X (Values \cup {None}))
    \cup ({"commit-effect"} \X CommitId)
    \cup ({"conflict-resolution"} \X Nat)

VARIABLES
    commits,        \* core: the commits of each branch, oldest first
    sequence,       \* the global commit watermark
    records,        \* every commit record, accepted or conflicted
    acceptedRequests,
    conflicts,
    outbox,
    idempotency,    \* the stored result of each client mutation
    resolutionIdempotency \* the resolutions that have a stored result

vars == <<commits, sequence, records, acceptedRequests, conflicts, outbox,
          idempotency, resolutionIdempotency>>

Batch == Seq(Operation) \ {<<>>}
Commit == [id: CommitId, ops: Batch]

CommitRecord ==
    [sequence: Nat, branch: Branches, id: CommitId, ops: Batch,
     status: {"accepted", "conflicted"}]

AcceptedRequest ==
    [sequence: Nat, branch: Branches, id: CommitId, ops: Batch,
     base: CommitId \cup {None}]

\* remote lists the conflicting accepted records by their sequence.
Conflict ==
    [id: Nat, branch: Branches, base: CommitId \cup {None}, remoteHead: CommitId,
     remote: SUBSET Nat, incoming: CommitId, keys: SUBSET Key,
     status: {"unresolved", "resolved"}, resolvedBy: CommitId \cup {None}]

OutboxEvent ==
    [sequence: Nat, branch: Branches, commit: CommitId,
     kind: {"commit_accepted", "conflict_created"}]

\* The stored request (its fingerprint) and result of a client mutation.
NoResult == [status |-> "none"]
Result == [status: {"accepted", "conflict"}, sequence: Nat,
           ops: Batch, base: CommitId \cup {None}]

TypeOK ==
    /\ commits \in [Branches -> Seq(Commit)]
    /\ sequence \in Nat
    /\ records \in Seq(CommitRecord)
    /\ acceptedRequests \in Seq(AcceptedRequest)
    /\ conflicts \in Seq(Conflict)
    /\ outbox \in Seq(OutboxEvent)
    /\ idempotency \in [WriteId -> Result \cup {NoResult}]
    /\ resolutionIdempotency \subseteq ResolutionId

Init ==
    /\ commits = [b \in Branches |-> <<>>]
    /\ sequence = 0
    /\ records = <<>>
    /\ acceptedRequests = <<>>
    /\ conflicts = <<>>
    /\ outbox = <<>>
    /\ idempotency = [w \in WriteId |-> NoResult]
    /\ resolutionIdempotency = {}

-----------------------------------------------------------------------------
(* What the authority reads.                                               *)

HeadOf(b) == IF commits[b] = <<>> THEN None ELSE commits[b][Len(commits[b])].id

AcceptedOn(b) ==
    {i \in DOMAIN records :
        records[i].branch = b /\ records[i].status = "accepted"}

\* expectedHeadCommitId names an accepted commit of the branch, or nothing.
BaseKnown(b, base) ==
    base = None \/ \E i \in AcceptedOn(b) : records[i].id = base

BaseSequence(b, base) ==
    IF base = None THEN 0
    ELSE records[CHOOSE i \in AcceptedOn(b) : records[i].id = base].sequence

\* Defect: the first commit after the base is taken for seen.
AcceptedSinceSkipsOne(b, base) ==
    {i \in AcceptedOn(b) : records[i].sequence > BaseSequence(b, base) + 1}

\* Defect: the base itself is taken for unseen.
AcceptedSinceInclusive(b, base) ==
    {i \in AcceptedOn(b) : records[i].sequence >= BaseSequence(b, base)}

AcceptedSince(b, base) ==
    {i \in AcceptedOn(b) : records[i].sequence > BaseSequence(b, base)}

\* The keys of an incoming write that accepted commits its author had not
\* seen have touched since its base.
ConflictingKeys(b, base, ops) ==
    IF base = HeadOf(b) THEN {}
    ELSE {k \in KeysOf(ops) :
            \E i \in AcceptedSince(b, base) : k \in KeysOf(records[i].ops)}

\* Defect: touching the same keys is taken for having the same effect.
EquivalentByKeys(b, base, ops) ==
    {i \in AcceptedSince(b, base) :
        ConflictingKeys(b, base, ops) \subseteq KeysOf(records[i].ops)}

\* The records an incoming write merely repeats.
EquivalentSince(b, base, ops) ==
    {i \in AcceptedSince(b, base) :
        /\ ConflictingKeys(b, base, ops) \subseteq KeysOf(records[i].ops)
        /\ EffectsOf(Expanded(records[i].ops)) = EffectsOf(ops)}

RequestsOf(b) == {q \in DOMAIN acceptedRequests : acceptedRequests[q].branch = b}

\* rebuildActiveProjection: the accepted requests of a branch, replayed.
RebuiltLog(b) ==
    LET requests == At(acceptedRequests, RequestsOf(b))
    IN  [i \in DOMAIN requests |->
            [id |-> requests[i].id, ops |-> requests[i].ops]]

ActiveView(b) == Replay(SeedView, commits[b])

\* The log a conflict branch was forked from, and what it shows.
LogBefore(b, s) ==
    SubSeq(commits[b], 1, Cardinality({i \in AcceptedOn(b) : records[i].sequence < s}))

ConflictView(c) ==
    LET ops == records[c.id].ops
    IN  Replay(ConflictSeed(Replay(SeedView, LogBefore(c.branch, c.id)), ops),
               <<[id |-> c.incoming, ops |-> ops]>>)

-----------------------------------------------------------------------------
(* accept: the core executes the commit and the record, the request and    *)
(* the outbox event of each commit are appended.                           *)

\* Defect: the watermark advances once for a whole resolution.
AcceptCountedOnce(b, new, bases) ==
    /\ commits' = [commits EXCEPT ![b] = @ \o new]
    /\ sequence' = sequence + 1
    /\ records' = records \o
        [i \in DOMAIN new |->
            [sequence |-> sequence + i, branch |-> b, id |-> new[i].id,
             ops |-> new[i].ops, status |-> "accepted"]]
    /\ acceptedRequests' = acceptedRequests \o
        [i \in DOMAIN new |->
            [sequence |-> sequence + i, branch |-> b, id |-> new[i].id,
             ops |-> new[i].ops, base |-> bases[i]]]
    /\ outbox' = outbox \o
        [i \in DOMAIN new |->
            [sequence |-> sequence + i, branch |-> b, commit |-> new[i].id,
             kind |-> "commit_accepted"]]

Accept(b, new, bases) ==
    /\ commits' = [commits EXCEPT ![b] = @ \o new]
    /\ sequence' = sequence + Len(new)
    /\ records' = records \o
        [i \in DOMAIN new |->
            [sequence |-> sequence + i, branch |-> b, id |-> new[i].id,
             ops |-> new[i].ops, status |-> "accepted"]]
    /\ acceptedRequests' = acceptedRequests \o
        [i \in DOMAIN new |->
            [sequence |-> sequence + i, branch |-> b, id |-> new[i].id,
             ops |-> new[i].ops, base |-> bases[i]]]
    /\ outbox' = outbox \o
        [i \in DOMAIN new |->
            [sequence |-> sequence + i, branch |-> b, commit |-> new[i].id,
             kind |-> "commit_accepted"]]

\* Defect: the stored status is the record's, not the result's.
RememberRecordStatus(w, status, s, ops, base) ==
    idempotency' = [idempotency EXCEPT ![w] =
        [status |-> IF status = "conflict" THEN "conflicted" ELSE status,
         sequence |-> s, ops |-> ops, base |-> base]]

\* The result of a write is stored under its clientMutationId, so that a
\* retry returns it and changes nothing.
Remember(w, status, s, ops, base) ==
    idempotency' = [idempotency EXCEPT ![w] =
        [status |-> status, sequence |-> s, ops |-> ops, base |-> base]]

Unanswered(b, m, base) ==
    /\ idempotency[<<b, m>>] = NoResult
    /\ BaseKnown(b, base)

AcceptWrite(b, m, base, ops) ==
    LET commit == [id |-> <<b, m>>, ops |-> ops]
    IN  /\ Unanswered(b, m, base)
        /\ ConflictingKeys(b, base, ops) = {}
        /\ Executable(SeedView, commits[b], commit)
        /\ Accept(b, <<commit>>, <<base>>)
        /\ Remember(<<b, m>>, "accepted", sequence + 1, ops, base)
        /\ UNCHANGED <<conflicts, resolutionIdempotency>>

ReuseEquivalent(b, m, base, ops) ==
    /\ Unanswered(b, m, base)
    /\ ConflictingKeys(b, base, ops) # {}
    /\ EquivalentSince(b, base, ops) # {}
    /\ \E i \in EquivalentSince(b, base, ops) :
        /\ \A j \in EquivalentSince(b, base, ops) : i <= j
        /\ Remember(<<b, m>>, "accepted", records[i].sequence, ops, base)
    /\ UNCHANGED <<commits, sequence, records, acceptedRequests, conflicts,
                   outbox, resolutionIdempotency>>

CaptureConflict(b, m, base, ops) ==
    LET keys == ConflictingKeys(b, base, ops)
        id == <<b, m>>
        s == sequence + 1
    IN  /\ Unanswered(b, m, base)
        /\ keys # {}
        /\ EquivalentSince(b, base, ops) = {}
        /\ HeadOf(b) # None
        /\ Executable(ConflictSeed(ActiveView(b), ops), <<>>, [id |-> id, ops |-> ops])
        /\ sequence' = s
        /\ conflicts' = Append(conflicts,
            [id |-> s, branch |-> b, base |-> base, remoteHead |-> HeadOf(b),
             remote |-> {records[i].sequence :
                i \in {j \in AcceptedSince(b, base) :
                        KeysOf(records[j].ops) \cap keys # {}}},
             incoming |-> id, keys |-> keys, status |-> "unresolved",
             resolvedBy |-> None])
        /\ records' = Append(records,
            [sequence |-> s, branch |-> b, id |-> id, ops |-> ops,
             status |-> "conflicted"])
        /\ outbox' = Append(outbox,
            [sequence |-> s, branch |-> b, commit |-> id,
             kind |-> "conflict_created"])
        /\ Remember(id, "conflict", s, ops, base)
        /\ UNCHANGED <<commits, acceptedRequests, resolutionIdempotency>>

-----------------------------------------------------------------------------
(* resolveConflict: a list of conflicts is settled by a series of commits  *)
(* that ends with the resolution commit.                                   *)

\* The remote commits of the listed conflicts, in the order of the list.
RemoteOf(cs) == UNION {conflicts[cs[i]].remote : i \in DOMAIN cs}

RemoteInOrder(cs) ==
    LET Rank(s) == Min({i \in DOMAIN cs : s \in conflicts[cs[i]].remote})
        Before(s, t) == Rank(s) < Rank(t) \/ (Rank(s) = Rank(t) /\ s < t)
        lists == {l \in [1..Cardinality(RemoteOf(cs)) -> RemoteOf(cs)] :
                    \A i, j \in DOMAIN l : i < j => Before(l[i], l[j])}
    IN  IF lists = {} THEN <<>> ELSE CHOOSE l \in lists : TRUE

ConflictLists ==
    {cs \in UNION {[1..n -> DOMAIN conflicts] : n \in 1..MaxListed} :
        \A i, j \in DOMAIN cs : cs[i] = cs[j] => i = j}

\* The first operation of each incoming write is applied again.
IncomingOperations(cs) ==
    [i \in DOMAIN cs |-> records[conflicts[cs[i]].id].ops[1]]

Marker(b, r, cs, kind) ==
    [id |-> <<b, r>>,
     ops |-> <<ResolveOp({conflicts[cs[i]].id : i \in DOMAIN cs}, kind)>>]

\* Defect: the remote commits are left in force.
PlanWithoutReverts(b, r, cs, kind, reverts, applied) ==
    [i \in DOMAIN applied |->
        [id |-> <<b, r, "apply", i>>, ops |-> <<applied[i]>>]]
    \o <<Marker(b, r, cs, kind)>>

Plan(b, r, cs, kind, reverts, applied) ==
    [i \in DOMAIN reverts |->
        [id |-> <<b, r, "revert", i>>,
         ops |-> <<RevertOp(records[reverts[i]].id)>>]]
    \o [i \in DOMAIN applied |->
        [id |-> <<b, r, "apply", i>>, ops |-> <<applied[i]>>]]
    \o <<Marker(b, r, cs, kind)>>

\* The i-th commit of a plan goes through after those before it.
Runs(b, plan, i) ==
    Executable(SeedView, commits[b] \o SubSeq(plan, 1, i - 1), plan[i])

Bases(b, plan) ==
    [i \in DOMAIN plan |-> IF i = 1 THEN HeadOf(b) ELSE plan[i - 1].id]

\* Defect: a conflict that is already resolved can be resolved again.
UnresolvedUnchecked(b, r, cs) ==
    /\ <<b, r>> \notin resolutionIdempotency
    /\ \A i \in DOMAIN cs : conflicts[cs[i]].branch = b

Unresolved(b, r, cs) ==
    /\ <<b, r>> \notin resolutionIdempotency
    /\ \A i \in DOMAIN cs : /\ conflicts[cs[i]].branch = b
                            /\ conflicts[cs[i]].status = "unresolved"

Resolve(b, r, cs, plan) ==
    /\ Unresolved(b, r, cs)
    /\ \A i \in DOMAIN plan : Runs(b, plan, i)
    /\ Accept(b, plan, Bases(b, plan))
    /\ conflicts' = [i \in DOMAIN conflicts |->
        IF \E j \in DOMAIN cs : cs[j] = i
        THEN [conflicts[i] EXCEPT !.status = "resolved", !.resolvedBy = <<b, r>>]
        ELSE conflicts[i]]
    /\ resolutionIdempotency' = resolutionIdempotency \cup {<<b, r>>}
    /\ UNCHANGED idempotency

\* A commit of the plan throws: the ones before it stay accepted.
Interrupt(b, r, cs, plan) ==
    /\ Unresolved(b, r, cs)
    /\ \E n \in 1..(Len(plan) - 1) :
        /\ \A i \in 1..n : Runs(b, plan, i)
        /\ ~Runs(b, plan, n + 1)
        /\ LET done == SubSeq(plan, 1, n)
           IN  Accept(b, done, Bases(b, done))
    /\ UNCHANGED <<conflicts, idempotency, resolutionIdempotency>>

KeepTargetPlan(b, r, cs) == Plan(b, r, cs, "keep_target", <<>>, <<>>)
TakeIncomingPlan(b, r, cs) ==
    Plan(b, r, cs, "take_incoming", RemoteInOrder(cs), IncomingOperations(cs))
ManualMergePlan(b, r, cs, op) ==
    Plan(b, r, cs, "manual_merge", <<>>, <<op>>)

-----------------------------------------------------------------------------
KnownBases(b) == {None} \cup {records[i].id : i \in AcceptedOn(b)}
Reverts(b) == {<<RevertOp(commits[b][i].id)>> : i \in DOMAIN commits[b]}

Write(b, m) ==
    \E base \in KnownBases(b), ops \in WriteBatches \cup Reverts(b) :
        \/ AcceptWrite(b, m, base, ops)
        \/ ReuseEquivalent(b, m, base, ops)
        \/ CaptureConflict(b, m, base, ops)

ResolveConflict(b, r) ==
    \E cs \in ConflictLists :
        \/ Resolve(b, r, cs, KeepTargetPlan(b, r, cs))
        \/ Resolve(b, r, cs, TakeIncomingPlan(b, r, cs))
        \/ Interrupt(b, r, cs, TakeIncomingPlan(b, r, cs))
        \/ \E op \in ManualOperations :
            \/ Resolve(b, r, cs, ManualMergePlan(b, r, cs, op))
            \/ Interrupt(b, r, cs, ManualMergePlan(b, r, cs, op))

Next == \E b \in Branches :
    \/ \E m \in Mutations : Write(b, m)
    \/ \E r \in Resolutions : ResolveConflict(b, r)

Spec == Init /\ [][Next]_vars

-----------------------------------------------------------------------------
(* Correctness.                                                            *)

\* The log, the records and the outbox tell one story: sequence numbers are
\* gapless over accepted and conflicted records alike, each has its event,
\* and a branch log is exactly its accepted records (accept, captureConflict).
HistoryConsistent ==
    /\ sequence = Len(records) /\ Len(outbox) = Len(records)
    /\ \A i \in DOMAIN records :
        /\ records[i].sequence = i
        /\ outbox[i] = [sequence |-> i, branch |-> records[i].branch,
                        commit |-> records[i].id,
                        kind |-> IF records[i].status = "accepted"
                                 THEN "commit_accepted" ELSE "conflict_created"]
    /\ \A b \in Branches :
        LET accepted == At(records, AcceptedOn(b))
        IN  commits[b] = [i \in DOMAIN accepted |->
                            [id |-> accepted[i].id, ops |-> accepted[i].ops]]

\* What was accepted between the base of request a and a itself touched
\* other Conflict Keys.
PassedOverNothing(a) ==
    \A i \in AcceptedOn(a.branch) :
        /\ records[i].sequence < a.sequence
        /\ \A j \in AcceptedOn(a.branch) : records[j].id = a.base => j < i
        => KeysOf(records[i].ops) \cap KeysOf(a.ops) = {}

\* No accepted write passed over a commit it conflicts with: whatever was
\* accepted between the head its author knew and the write itself touched
\* other Conflict Keys (conflictingKeysSince), resolutions included.
NoSilentOverwrite ==
    \A q \in DOMAIN acceptedRequests : PassedOverNothing(acceptedRequests[q])

\* A client mutation has one outcome: unanswered it left no record; answered
\* "conflict" it left one conflicted record; answered "accepted" the named
\* record is accepted on its branch with the effect the client asked for, and
\* the mutation left no second record (the idempotency table of execute).
OneOutcomePerMutation ==
    \A w \in WriteId :
        LET own == {i \in DOMAIN records : records[i].id = w}
            res == idempotency[w]
        IN  CASE res.status = "none" -> own = {}
              [] res.status = "conflict" ->
                    own = {res.sequence} /\ records[res.sequence].status = "conflicted"
              [] OTHER ->
                    /\ own \subseteq {res.sequence}
                    /\ res.sequence \in AcceptedOn(w[1])
                    /\ own = {} => EffectsOf(Expanded(records[res.sequence].ops))
                                      = EffectsOf(res.ops)

\* A conflict keeps both sides: the incoming write is readable on its conflict
\* branch and never entered the target log by itself, and the remote commits it
\* names are accepted ones its author had not seen that touch the same keys
\* (captureConflict, readConflictView).
ConflictsPreserved ==
    \A n \in DOMAIN conflicts :
        LET c == conflicts[n]
            incoming == records[c.id]
        IN  /\ incoming.status = "conflicted" /\ incoming.id = c.incoming
            /\ \A i \in DOMAIN commits[c.branch] : commits[c.branch][i].id # c.incoming
            /\ c.remote # {}
            /\ \A s \in c.remote :
                /\ s < c.id /\ s \in AcceptedOn(c.branch)
                /\ \A j \in AcceptedOn(c.branch) :
                        records[j].id = c.base => j < s
                /\ KeysOf(records[s].ops) \cap KeysOf(incoming.ops) # {}
            /\ ConflictView(c).ok
            /\ InForce(ConflictView(c), incoming.ops[Len(incoming.ops)])

\* A conflict is resolved by exactly one resolution commit of its branch, and
\* until that commit exists it is unresolved (resolveConflict).
ResolvedOnce ==
    \A n \in DOMAIN conflicts :
        LET c == conflicts[n]
            markers == {i \in AcceptedOn(c.branch) :
                            \E j \in DOMAIN records[i].ops :
                                /\ records[i].ops[j].kind = "resolve_conflict"
                                /\ c.id \in records[i].ops[j].conflicts}
        IN  IF c.status = "unresolved"
            THEN markers = {} /\ c.resolvedBy = None
            ELSE \E i \in markers : markers = {i} /\ records[i].id = c.resolvedBy

\* Replaying the accepted requests (rebuildActiveProjection) goes through
\* commit by commit and yields the log the active views are read from.
ProjectionRebuildable ==
    \A b \in Branches :
        LET log == RebuiltLog(b)
        IN  /\ log = commits[b]
            /\ \A i \in DOMAIN log :
                Replay(SeedView, SubSeq(log, 1, i)).ok

\* A resolution commit does what its kind says: keep_target leaves the view
\* alone, manual_merge leaves the merged object in force, take_incoming
\* of one conflict reverts every remote commit and leaves the incoming write in
\* force (only its first operation when it is a batch).
ResolutionMeaning ==
    [][\A i \in (Len(records) + 1)..Len(records') :
        LET op == records'[i].ops[1]
            b == records'[i].branch
            after == Replay(SeedView, commits'[b])
        IN  op.kind = "resolve_conflict" =>
            CASE op.resolution = "keep_target" ->
                    after.objects = ActiveView(b).objects
              [] op.resolution = "manual_merge" ->
                    InForce(after, records'[i - 1].ops[1])
              [] OTHER ->
                    \A n \in DOMAIN conflicts :
                        op.conflicts = {conflicts[n].id} =>
                        /\ InForce(after, records[conflicts[n].id].ops[1])
                        /\ \A s \in conflicts[n].remote :
                            records[s].id \in RevertedCommits(commits'[b])]_vars
=============================================================================
