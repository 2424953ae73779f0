---------------------------- MODULE WorkingReplica ----------------------------
(***************************************************************************)
(* The authorized working replica (sync/working-replica.ts): a local       *)
(* snapshot of what its subject may see of one branch, kept up to date by  *)
(* synchronisation calls and read by local queries.                        *)
(*                                                                         *)
(* The cloud is the log of the branch, as module CloudHistory builds it,   *)
(* and the versions of the subject's grant.  A synchronisation is four     *)
(* steps with awaits between them: it notes the identity of the replica,   *)
(* the policy engine decides, the adapter reads the permission watermark,  *)
(* then the view and the records; the answer is applied last.  A query     *)
(* first asks for the permission watermark, then compares and reads.       *)
(*                                                                         *)
(* A new grant and its watermark change in one step here.                  *)
(***************************************************************************)
EXTENDS AuthorizedView

CONSTANTS
    Batches,        \* the operation lists clients commit
    Incoming,       \* the operation lists that are captured as conflicts
    Grants,         \* what policy decisions may let through
    FirstGrant,     \* the subject's grant at first
    Scopes,         \* the task scopes synchronisations are made under
    Calls,          \* the synchronisation calls that may overlap
    MaxRecords,     \* bound: records of the branch
    MaxVersions     \* bound: versions of the grant

ASSUME WorkingReplicaAssumption ==
    /\ \A ops \in Batches \cup Incoming :
            PermittedBatch(ops) /\ ops \in Seq(ClientOperation)
    /\ Grants \subseteq Admission /\ Scopes \subseteq Admission
    /\ FirstGrant \in Grants
    /\ \A scope \in Scopes : scope.allowed
    /\ None \notin Scopes /\ None \notin Content
    /\ MaxRecords \in Nat /\ MaxVersions \in Nat \ {0}

VARIABLES
    records,    \* the cloud's records of the branch; a sequence number is the
                \* record's index
    grants,     \* the versions of the subject's grant, the last is current
    store,      \* the replica
    call,       \* the synchronisations in flight
    query       \* a local query in flight

vars == <<records, grants, store, call, query>>

Watermark == 0..MaxRecords
Version == 1..MaxVersions

\* An AuthorizedViewIdentity: root, branch and subject are fixed.
Identity == [scope: Scopes, commit: Watermark, permission: Version]

\* version is auxiliary: the grant version the snapshot was last built from.
Replica == [valid: BOOLEAN, identity: Identity \cup {None}, snapshot: Shown,
            history: SUBSET (1..MaxRecords), version: 0..MaxVersions]

EmptyReplica == [valid |-> FALSE, identity |-> None, snapshot |-> Hidden,
                 history |-> {}, version |-> 0]

NoBatch == [kind |-> "none"]

IdleCall == [step |-> "idle", known |-> None, scope |-> None, version |-> 0,
             stamp |-> 0, batch |-> NoBatch]

IdleQuery == [step |-> "idle", permission |-> 0, current |-> 0]

CurrentVersion == Len(grants)

LogUpTo(n) ==
    LET accepted == At(records, {s \in 1..n : records[s].status = "accepted"})
    IN  [i \in DOMAIN accepted |-> [id |-> accepted[i].id, ops |-> accepted[i].ops]]

\* What a subject sees of the first n records with version v of its grant.
ViewAt(n, v, scope) == ViewOf(LogUpTo(n), Narrow(grants[v], scope))

Init ==
    /\ records = <<>>
    /\ grants = <<FirstGrant>>
    /\ store = EmptyReplica
    /\ call = [c \in Calls |-> IdleCall]
    /\ query = IdleQuery

-----------------------------------------------------------------------------
(* The cloud.                                                              *)

\* Defect: a record takes the number of the one before it.
RecordAtOldNumber(ops, status) ==
    /\ Len(records) < MaxRecords
    /\ records' = Append(records,
            [id |-> Len(records), ops |-> ops, status |-> status])
    /\ UNCHANGED <<grants, store, call, query>>

Record(ops, status) ==
    /\ Len(records) < MaxRecords
    /\ records' = Append(records,
            [id |-> Len(records) + 1, ops |-> ops, status |-> status])
    /\ UNCHANGED <<grants, store, call, query>>

\* A write, or a revert, is accepted.
Commit(ops) ==
    /\ Record(ops, "accepted")
    /\ Executable(SeedView, LogUpTo(Len(records)),
                  [id |-> Len(records) + 1, ops |-> ops])

\* A write is captured as a conflict: its record changes nothing.
Capture(ops) == records # <<>> /\ Record(ops, "conflicted")

Reverts == {<<RevertOp(records[i].id)>> : i \in DOMAIN records}

\* The subject's roles or delegations change.
ChangeGrant(g) ==
    /\ CurrentVersion < MaxVersions
    /\ g # grants[CurrentVersion]
    /\ grants' = Append(grants, g)
    /\ UNCHANGED <<records, store, call, query>>

-----------------------------------------------------------------------------
(* AuthorizedWorkingReplicaSynchronizer.sync                               *)

Start(c, scope) ==
    /\ call[c].step = "idle"
    /\ call' = [call EXCEPT ![c] =
            [IdleCall EXCEPT !.step = "deciding", !.known = store.identity,
                             !.scope = scope]]
    /\ UNCHANGED <<records, grants, store, query>>

\* The policy engine decides on the grant of this moment.
Decide(c) ==
    /\ call[c].step = "deciding"
    /\ call' = [call EXCEPT
            ![c].step = IF grants[CurrentVersion].allowed THEN "stamping" ELSE "applying",
            ![c].version = CurrentVersion,
            ![c].batch = IF grants[CurrentVersion].allowed
                         THEN @ ELSE [kind |-> "denied"]]
    /\ UNCHANGED <<records, grants, store, query>>

\* The adapter reads the permission watermark.
Stamp(c) ==
    /\ call[c].step = "stamping"
    /\ call' = [call EXCEPT ![c].step = "answering", ![c].stamp = CurrentVersion]
    /\ UNCHANGED <<records, grants, store, query>>

Replacing(known, identity) ==
    \/ known = None
    \/ known # None /\ known.permission # identity.permission
    \/ known # None /\ known.scope # identity.scope

VisibleOf(s, shown) == VisibleOperations(records[s].ops, shown)

\* Defect: the first record after the watermark is taken as known.
HistoryAfterNext(w, shown) ==
    {s \in (w + 2)..Len(records) : VisibleOf(s, shown) # {}}

\* The records after a watermark that keep an operation.
HistoryAfter(w, shown) ==
    {s \in (w + 1)..Len(records) : VisibleOf(s, shown) # {}}

\* CloudAuthorizedViewAdapter.execute from the end of its await on.
BatchFor(known, identity, shown) ==
    LET since == IF Replacing(known, identity) THEN 0 ELSE known.commit
        history == HistoryAfter(since, shown)
        accepted == {s \in history : records[s].status = "accepted"}
        ops == UNION {VisibleOf(s, shown) : s \in accepted}
    IN  IF Replacing(known, identity) \/ RebuildRequired(ops)
        THEN [kind |-> "replace", identity |-> identity, history |-> history,
              snapshot |-> shown]
        ELSE IF accepted = {}
        THEN [kind |-> "noop", identity |-> identity, history |-> history]
        ELSE [kind |-> "delta", identity |-> identity, history |-> history,
              delta |-> Delta(ops, shown)]

\* Defect: the watermark counts what is visible to the subject.
VisibleIdentity(c) ==
    [scope |-> call[c].scope,
     commit |-> Cardinality(HistoryAfter(0,
                    ViewAt(Len(records), call[c].version, call[c].scope))),
     permission |-> call[c].stamp]

AnswerIdentity(c) ==
    [scope |-> call[c].scope, commit |-> Len(records), permission |-> call[c].stamp]

Answer(c) ==
    /\ call[c].step = "answering"
    /\ \E identity \in {AnswerIdentity(c)} :
       \E shown \in {ViewAt(identity.commit, call[c].version, call[c].scope)} :
       \E batch \in {BatchFor(call[c].known, identity, shown)} :
            call' = [call EXCEPT ![c].step = "applying", ![c].batch = batch]
    /\ UNCHANGED <<records, grants, store, query>>

Finished(c) == call' = [call EXCEPT ![c] = IdleCall]

\* A denied synchronisation invalidates the replica.
ApplyDenial(c) ==
    /\ call[c].step = "applying" /\ call[c].batch.kind = "denied"
    /\ store' = EmptyReplica
    /\ Finished(c)
    /\ UNCHANGED <<records, grants, query>>

ApplyReplace(c) ==
    LET batch == call[c].batch
    IN  /\ call[c].step = "applying" /\ batch.kind = "replace"
        /\ store' = [valid |-> TRUE, identity |-> batch.identity,
                     snapshot |-> batch.snapshot, history |-> batch.history,
                     version |-> call[c].version]
        /\ Finished(c)
        /\ UNCHANGED <<records, grants, query>>

ApplyChanges(c) ==
    LET batch == call[c].batch
    IN  /\ call[c].step = "applying" /\ batch.kind \in {"delta", "noop"}
        /\ store.valid
        /\ IF batch.kind = "delta"
           THEN \E snapshot \in {ApplyDelta(store.snapshot, batch.delta)} :
                store' = [store EXCEPT !.identity = batch.identity,
                            !.history = @ \cup batch.history,
                            !.snapshot = snapshot]
           ELSE store' = [store EXCEPT !.identity = batch.identity,
                            !.history = @ \cup batch.history]
        /\ Finished(c)
        /\ UNCHANGED <<records, grants, query>>

\* The replica was invalidated meanwhile: a change of it throws.
ApplyToNothing(c) ==
    /\ call[c].step = "applying" /\ call[c].batch.kind \in {"delta", "noop"}
    /\ ~store.valid
    /\ Finished(c)
    /\ UNCHANGED <<records, grants, store, query>>

-----------------------------------------------------------------------------
(* SynchronizedLocalQuerySource, and what the host does with the replica.  *)

\* assertFresh asks for the current permission watermark.
Ask ==
    /\ query.step = "idle" /\ store.identity # None
    /\ query' = [step |-> "asked", permission |-> store.identity.permission,
                 current |-> CurrentVersion]
    /\ UNCHANGED <<records, grants, store, call>>

\* Defect: the watermark is not compared.
NotOutdated == FALSE

Outdated == query.current # query.permission

\* The permission watermark moved on: the replica is invalidated.
RefuseQuery ==
    /\ query.step = "asked"
    /\ Outdated
    /\ store' = EmptyReplica
    /\ query' = IdleQuery
    /\ UNCHANGED <<records, grants, call>>

\* The query reads the snapshot there is now, or throws if there is none.
AnswerQuery ==
    /\ query.step = "asked"
    /\ ~Outdated
    /\ query' = IdleQuery
    /\ UNCHANGED <<records, grants, store, call>>

\* The host drops the local data.
Clear ==
    /\ store # EmptyReplica
    /\ store' = EmptyReplica
    /\ UNCHANGED <<records, grants, call, query>>

Sync(c) ==
    \/ \E scope \in Scopes : Start(c, scope)
    \/ Decide(c)
    \/ Stamp(c)
    \/ Answer(c)
    \/ ApplyDenial(c)
    \/ ApplyReplace(c)
    \/ ApplyChanges(c)
    \/ ApplyToNothing(c)

Next ==
    \/ \E ops \in Batches \cup Reverts : Commit(ops)
    \/ \E ops \in Incoming : Capture(ops)
    \/ \E g \in Grants : ChangeGrant(g)
    \/ \E c \in Calls : Sync(c)
    \/ Ask \/ RefuseQuery \/ AnswerQuery
    \/ Clear

\* The host keeps synchronising and no call waits for ever.  In every state
\* some step of Sync(c) is enabled, and Sync(c) alone changes call[c]: this is
\* WF_vars(Sync(c)), without its ENABLED.
Spec == Init /\ [][Next]_vars /\ \A c \in Calls : []<><<call'[c] # call[c]>>_vars

-----------------------------------------------------------------------------
(* Correctness.                                                            *)

Batch ==
    [kind: {"none", "denied"}]
    \cup [kind: {"noop"}, identity: Identity, history: SUBSET (1..MaxRecords)]
    \cup [kind: {"replace"}, identity: Identity, history: SUBSET (1..MaxRecords),
          snapshot: Shown]

IsDelta(batch) ==
    /\ batch.kind = "delta"
    /\ batch.identity \in Identity
    /\ batch.history \subseteq 1..MaxRecords
    /\ DOMAIN batch.delta.changed \subseteq Objects
    /\ \A o \in DOMAIN batch.delta.changed : batch.delta.changed[o] \in Content
    /\ batch.delta.removed \subseteq Objects

TypeOK ==
    /\ Len(records) <= MaxRecords
    /\ \A s \in DOMAIN records :
        /\ records[s].id = s
        /\ records[s].status \in {"accepted", "conflicted"}
    /\ Len(grants) \in Version
    /\ \A v \in DOMAIN grants : grants[v] \in Grants
    /\ store \in Replica
    /\ DOMAIN call = Calls
    /\ \A c \in Calls :
        /\ call[c].step \in {"idle", "deciding", "stamping", "answering", "applying"}
        /\ call[c].known \in Identity \cup {None}
        /\ call[c].scope \in Scopes \cup {None}
        /\ call[c].version \in 0..MaxVersions /\ call[c].stamp \in 0..MaxVersions
        /\ call[c].batch \in Batch \/ IsDelta(call[c].batch)
    /\ query.step \in {"idle", "asked"}
    /\ query.permission \in 0..MaxVersions /\ query.current \in 0..MaxVersions

\* The replica holds what its watermarks say: exactly what the subject may see
\* of the branch at the commit watermark, with the grant of the permission
\* watermark under the task scope of its identity.  A snapshot stamped with a
\* later version than the decision behind it was made on is exempt: the adapter
\* may read the watermark after a change the decision did not see.
ReplicaIsAuthorizedView ==
    store.valid /\ store.version = store.identity.permission =>
        store.snapshot = ViewAt(store.identity.commit, store.version,
                                store.identity.scope)

\* A shown branch has a tag, a shown entity or resource an id, that an
\* admission lets through.
Admits(admission, o, content) ==
    /\ Kind[o] = "memory_entity_branch" => content.value \in admission.tags
    /\ Kind[o] \in {"memory_entity", "resource"} => o = Root \/ o \in admission.objects

\* Everything shown was let through by the scope and by the grant the snapshot
\* was decided on, or by the one of its permission watermark.  These are one
\* grant unless it changed between the decision and the read of the watermark:
\* then what the older one lets through is shown under the newer watermark.
OnlyAdmitted ==
    store.valid =>
        \A o \in Objects : store.snapshot[o] # None =>
            \E v \in {store.version, store.identity.permission} :
                Admits(Narrow(grants[v], store.identity.scope), o, store.snapshot[o])

\* A part or a relation is shown with what it hangs from.
NothingAlone ==
    store.valid /\ store.version = store.identity.permission =>
        \A o \in Objects : store.snapshot[o] # None =>
            \A x \in Ends(store.snapshot[o]) : store.snapshot[x] # None

\* What deltas, rebuilds and denials leave in the replica was let through by a
\* grant it names, and is shown with what it hangs from.  It is not promised that
\* the grant of the permission watermark lets it through: a revocation between
\* the decision and the read of the watermark (OnlyAdmitted) goes unnoticed.
ShownAsDecided == OnlyAdmitted /\ NothingAlone

\* A query that passes the freshness check reads a snapshot whose permission
\* watermark is not older than the one the check compared with, although the
\* replica may be cleared or replaced between the two.  This is about the
\* watermark: it is newer than the grant the snapshot was filtered with where
\* that changed between the decision and the read of the watermark.
ReadsAreStampedFresh ==
    [][query.step = "asked" /\ query' = IdleQuery /\ store.valid /\ store' = store
        => store.identity.permission >= query.current]_vars

\* The last accepted record in the replica's history is the last one up to its
\* watermark that touches something it shows: a local revision based on it
\* (stageResourceRevision) has seen every change of what it revises.  A rebuild
\* drops the records before the watermark it started from, never the last.
RevisionBaseIsLatest ==
    store.valid /\ store.version = store.identity.permission =>
        \A s \in 1..store.identity.commit :
            /\ records[s].status = "accepted"
            /\ VisibleOf(s, store.snapshot) # {}
            => \E t \in store.history : records[t].status = "accepted" /\ t >= s

CaughtUp ==
    IF grants[CurrentVersion].allowed
    THEN /\ store.valid
         /\ store.identity.commit = Len(records)
         /\ store.identity.permission = CurrentVersion
    ELSE ~store.valid

\* Again and again the replica is up to date with the cloud: commits, grants,
\* queries that invalidate it and a host that clears it cannot keep it behind
\* for ever (commits and grants stop at their bounds).
KeepsCatchingUp == []<>CaughtUp
=============================================================================
