----------------------------- MODULE GatewayWrite -----------------------------
(***************************************************************************)
(* The write path of the gateway (adapters/runtime/gateway.ts): writeMemory *)
(* plans a commit by name on the active view, awaits embeddings, reads the   *)
(* head, awaits the permission router and sends the commit; the migration    *)
(* of legacy host captures writes their facts anew this way and then         *)
(* tombstones them.  The projection worker runs beside it.                   *)
(*                                                                         *)
(* An entity or a branch has its name, or title, in its value (NameOf).      *)
(* Ids are random: a call draws those Drawn gives its caller.  Plans are     *)
(* made of structured operations, see Requests below.                        *)
(***************************************************************************)
EXTENDS ProjectionWorker

CONSTANTS
    Callers,    \* the calls under way at a time
    Requests,   \* what clients ask for: sequences of structured operations
    NameOf,     \* the visible name of an entity's value, the title of a branch's
    Alike,      \* pairs of branch values similar enough to be one fact
    Has,        \* the value of the relation from an entity to its branch
    EntityFor,  \* the value of an entity created for a branch, by name
    Drawn,      \* the ids a caller draws, by kind
    Legacy,     \* the ids of legacy host captures
    Migrated,   \* the structured operations that write a legacy branch anew
    MaxCommits  \* bound: calls start while the log is shorter

ASSUME GatewayAssumption ==
    /\ Has \in Values
    /\ Legacy \subseteq OfKind({"memory_entity"})
    /\ Alike \subseteq Values \X Values

VARIABLES
    call,       \* the calls of the gateway
    unwritten   \* auxiliary: captures a migration removed though its write was refused

gatewayVars == <<workerVars, call, unwritten>>

IdleCall == [step |-> "idle", ops |-> <<>>, base |-> 0, seen |-> 0,
             request |-> <<>>, legacy |-> {}, refused |-> FALSE]

GatewayInit ==
    /\ WorkerInit
    /\ call = [c \in Callers |-> IdleCall]
    /\ unwritten = {}

Set(c, record) == call' = [call EXCEPT ![c] = record]

-----------------------------------------------------------------------------
(* Structured operations.                                                  *)

\* upsert (create) and update (update, refresh) name an entity; branch creates
\* a fact under an entity; relate and replace name the ends of a relation, an
\* entity by its name or a branch by its entity's name and its title.
UpsertEntity(name, value) == [op |-> "upsert", name |-> name, value |-> value]
UpdateEntity(name, value) == [op |-> "update", name |-> name, value |-> value]
CreateBranch(name, value) == [op |-> "branch", name |-> name, value |-> value]
UpdateBranch(name, title, value) ==
    [op |-> "update_branch", end |-> <<name, title>>, value |-> value]
Relate(source, target, value) ==
    [op |-> "relate", source |-> source, target |-> target, value |-> value]
ReplaceRelation(source, target, value) ==
    [op |-> "replace", source |-> source, target |-> target, value |-> value]

\* exactEntitiesByName.
Named(view, name) ==
    {e \in OfKind({"memory_entity"}) \ {Root} :
        Active(view, e) /\ NameOf[view.objects[e].content.value] = name}

BranchesOf(view, e) ==
    {b \in OfKind({"memory_entity_branch"}) :
        Active(view, b) /\ view.objects[b].content.source = e}

Titled(view, e, title) ==
    {b \in BranchesOf(view, e) : NameOf[view.objects[b].content.value] = title}

\* endpointId: the objects an end may mean, ambiguous unless there is one.
EndsNamed(view, end) ==
    IF Len(end) = 1 THEN Named(view, end[1])
    ELSE IF Cardinality(Named(view, end[1])) # 1 THEN {}
         ELSE UNION {Titled(view, e, end[2]) : e \in Named(view, end[1])}

Only(s) == CHOOSE x \in s : TRUE

RelationsBetween(view, source, target, value) ==
    {l \in Links : /\ Active(view, l)
                   /\ view.objects[l].content =
                        [value |-> value, source |-> source, target |-> target]}

-----------------------------------------------------------------------------
(* prepareStructuredMemoryOperations: a plan is the operations so far, the   *)
(* local view they leave, and the ids still to draw.                         *)

StartPlan(c) == [ready |-> TRUE, view |-> View, ops |-> <<>>, ids |-> Drawn[c]]

Ambiguous(plan) == [plan EXCEPT !.ready = FALSE]

Planned(plan, op, o, content) ==
    [plan EXCEPT !.ops = Append(@, op), !.view = Store(@, o, "active", content)]

\* An object with a new id.
Created(plan, kind, content) ==
    LET o == Head(plan.ids[kind])
    IN  [Planned(plan, CreateOp(o, content), o, content) EXCEPT !.ids[kind] = Tail(@)]

Contents(value, source, target) == [value |-> value, source |-> source, target |-> target]

PlanEntity(plan, r) ==
    LET matches == Named(plan.view, r.name)
        content == Contents(r.value, None, None)
    IN  CASE matches = {} /\ r.op = "upsert" -> Created(plan, "memory_entity", content)
          [] Cardinality(matches) = 1 ->
                LET e == Only(matches) IN Planned(plan, UpdateOp(e, content), e, content)
          [] OTHER -> Ambiguous(plan)

\* Defect: a fact gets no relation from its entity.
NoHas(plan, e, b) == plan

\* ensureHasRelation.
EnsureHas(plan, e, b) ==
    IF RelationsBetween(plan.view, e, b, Has) # {} THEN plan
    ELSE Created(plan, "memory_relation", Contents(Has, e, b))

\* A fact of the same title is the same fact or a collision; without one, a
\* fact that is alike is refreshed and any other is new.
PlanFact(plan, e, r) ==
    LET value(b) == plan.view.objects[b].content.value
        same == Titled(plan.view, e, NameOf[r.value])
        alike == {b \in BranchesOf(plan.view, e) : <<value(b), r.value>> \in Alike}
        known == IF same # {} THEN same \cap alike ELSE alike
    IN  CASE same # {} /\ known = {} -> Ambiguous(plan)
          [] known # {} ->
                LET b == Only(known)
                    content == plan.view.objects[b].content
                IN  EnsureHas(Planned(plan, UpdateOp(b, content), b, content), e, b)
          [] OTHER ->
                LET b == Head(plan.ids["memory_entity_branch"])
                IN  EnsureHas(Created(plan, "memory_entity_branch",
                                      Contents(r.value, e, None)), e, b)

PlanBranch(plan, r) ==
    LET matches == Named(plan.view, r.name)
        created == Created(plan, "memory_entity", Contents(EntityFor[r.name], None, None))
    IN  CASE matches = {} -> PlanFact(created, Head(plan.ids["memory_entity"]), r)
          [] Cardinality(matches) = 1 -> PlanFact(plan, Only(matches), r)
          [] OTHER -> Ambiguous(plan)

PlanBranchUpdate(plan, r) ==
    LET matches == EndsNamed(plan.view, r.end)
    IN  IF Cardinality(matches) # 1 THEN Ambiguous(plan)
        ELSE LET b == Only(matches)
                 content == [plan.view.objects[b].content EXCEPT !.value = r.value]
             IN  Planned(plan, UpdateOp(b, content), b, content)

PlanRelation(plan, r) ==
    LET sources == EndsNamed(plan.view, r.source)
        targets == EndsNamed(plan.view, r.target)
        content == Contents(r.value, Only(sources), Only(targets))
        previous == RelationsBetween(plan.view, Only(sources), Only(targets), r.value)
        o == Head(plan.ids["memory_relation"])
    IN  IF Cardinality(sources) # 1 \/ Cardinality(targets) # 1 THEN Ambiguous(plan)
        ELSE IF r.op = "relate" THEN Created(plan, "memory_relation", content)
        ELSE IF previous = {} THEN Ambiguous(plan)
        ELSE [Planned(plan, ReplaceOp(Only(previous), o, content), o, content)
                EXCEPT !.ids["memory_relation"] = Tail(@)]

PlanNext(plan, r) ==
    IF ~plan.ready THEN plan
    ELSE CASE r.op \in {"upsert", "update"} -> PlanEntity(plan, r)
           [] r.op = "branch" -> PlanBranch(plan, r)
           [] r.op = "update_branch" -> PlanBranchUpdate(plan, r)
           [] OTHER -> PlanRelation(plan, r)

Plan(c, request) == FoldLeft(PlanNext, StartPlan(c), request)

-----------------------------------------------------------------------------
(* writeMemory.                                                            *)

\* Bound: a caller has used none of its ids, and the log is short.
MayStart(c) ==
    /\ call[c].step = "idle"
    /\ Len(log) < MaxCommits
    /\ LET view == View
       IN  \A kind \in DOMAIN Drawn[c] : \A o \in Range(Drawn[c][kind]) : ~Present(view, o)

\* The view is read, the embeddings are awaited; an ambiguous request is
\* answered as such and changes nothing.
Write(c) ==
    /\ MayStart(c)
    /\ \E request \in Requests : \E plan \in {Plan(c, request)} :
        /\ plan.ready
        /\ Set(c, [IdleCall EXCEPT !.step = "planned", !.ops = plan.ops,
                                  !.seen = Len(log)])
    /\ UNCHANGED <<workerVars, unwritten>>

\* headCommitId, before the awaits of the decision and of the transaction.
ReadHead(c) ==
    /\ call[c].step = "planned"
    /\ Set(c, [call[c] EXCEPT !.step = "send", !.base = Len(log)])
    /\ UNCHANGED <<workerVars, unwritten>>

Sweeps(k) == k.ops[1].kind = "tombstone"

\* The tombstones of a migration.
SweepOf(k) ==
    [k EXCEPT !.step = "planned", !.base = 0, !.request = <<>>,
              !.ops = SetToSeq({TombstoneOp(e) : e \in k.legacy})]

\* What follows an answered write: the rest of a migration, or nothing.
Continue(c) ==
    LET k == call[c]
    IN  /\ Set(c, IF Sweeps(k) \/ k.legacy = {} THEN IdleCall ELSE SweepOf(k))
        /\ unwritten' = IF Sweeps(k) /\ k.refused THEN unwritten \cup k.legacy
                        ELSE unwritten

Send(c) ==
    LET k == call[c]
    IN  /\ k.step = "send"
        /\ \/ /\ Accepts(k.base, k.ops)
              /\ Accept(k.ops)
           \/ /\ ConflictsSince(k.base, k.ops) /\ Equivalent(k.base, k.ops)
              /\ UNCHANGED log
        /\ Continue(c)
        /\ UNCHANGED <<stores, worker>>

\* Defect: a refused write of a migration is not noticed.
SweepAnyway(c) ==
    /\ call[c].step \in {"planned", "send"}
    /\ Continue(c)
    /\ UNCHANGED workerVars

\* A call throws: the history refuses the write or keeps it as a conflict, the
\* decision is no, an embedding fails.
EndCall(c) ==
    /\ call[c].step # "idle"
    /\ Set(c, IdleCall)
    /\ UNCHANGED <<workerVars, unwritten>>

-----------------------------------------------------------------------------
(* migrateLegacyHostCaptures.                                              *)

ListLegacy(c) ==
    /\ MayStart(c)
    /\ \E legacy \in {{e \in Legacy : Active(View, e)}} :
        /\ legacy # {}
        /\ Set(c, [IdleCall EXCEPT !.step = "listed", !.legacy = legacy, !.request =
                FlattenSeq(SetToSeq({Migrated[b] : b \in UNION {BranchesOf(View, e) : e \in legacy}}))])
    /\ UNCHANGED <<workerVars, unwritten>>

\* The captures' facts are written like any request, on a view read after the
\* list; that they are ambiguous, and not written, is not looked at.
PlanMigration(c) ==
    LET k == call[c]
    IN  /\ k.step = "listed"
        /\ \E plan \in {Plan(c, k.request)} :
            Set(c, IF plan.ready
                   THEN [k EXCEPT !.step = "planned", !.ops = plan.ops,
                                  !.seen = Len(log), !.request = <<>>]
                   ELSE [SweepOf(k) EXCEPT !.refused = TRUE])
        /\ UNCHANGED <<workerVars, unwritten>>

RestartGateway ==
    /\ RestartWorker
    /\ call' = [c \in Callers |-> IdleCall]
    /\ UNCHANGED unwritten

-----------------------------------------------------------------------------
GatewayNext ==
    \/ WorkerNext /\ UNCHANGED <<call, unwritten>>
    \/ \E c \in Callers :
        \/ Write(c) \/ ReadHead(c) \/ Send(c) \/ EndCall(c)
        \/ ListLegacy(c) \/ PlanMigration(c)
    \/ RestartGateway

GatewaySpec == GatewayInit /\ [][GatewayNext]_gatewayVars

-----------------------------------------------------------------------------
(* Correctness.                                                            *)

StoredContent == Content \cup {None}

GatewayTypeOK ==
    /\ \A i \in DOMAIN log : log[i].id = i
    /\ points \in [Vectors -> StoredContent]
    /\ relations \in [Links -> StoredContent]
    /\ watermark \in 0..Len(log)
    /\ \A c \in Callers : /\ call[c].base \in 0..Len(log)
                          /\ call[c].seen \in 0..Len(log)
                          /\ call[c].legacy \subseteq Legacy
    /\ unwritten \subseteq Legacy

\* No fact is left without its relation: an active branch of an active entity
\* has the "has" relation from it, whichever of two planned writes created the
\* entity, the branch or the relation first.
BranchesReachable ==
    LET view == View
        EntityOf(b) == view.objects[b].content.source
    IN  \A b \in OfKind({"memory_entity_branch"}) :
            Active(view, b) /\ Active(view, EntityOf(b)) =>
                RelationsBetween(view, EntityOf(b), b, Has) # {}

FactsOf(b) == {r \in Range(Migrated[b]) : r.op = "branch"}

\* A fact under an active entity of that name.
Holds(view, r) ==
    \E b \in OfKind({"memory_entity_branch"}) :
        /\ Active(view, b)
        /\ view.objects[b].content.source \in Named(view, r.name)
        /\ <<view.objects[b].content.value, r.value>> \in Alike

\* A migration removes a legacy capture only when every fact of it is written
\* anew, whatever else is written, refused or restarted meanwhile: all but the
\* captures whose write was answered as ambiguous.
MigratedUnlessRefused ==
    LET view == View
        EntityOf(b) == view.objects[b].content.source
    IN  \A b \in OfKind({"memory_entity_branch"}) :
            /\ Present(view, b) /\ EntityOf(b) \in Legacy \ unwritten
            /\ ~Active(view, EntityOf(b))
            => \A r \in FactsOf(b) : Holds(view, r)

\* An accepted write has seen every commit that touches what it touches, unless
\* one of those it has not seen has the same effect.
NoUnseenOverwrite ==
    [][\A c \in Callers :
        /\ call[c].step = "send" /\ Len(log') > Len(log) /\ call'[c] # call[c]
        /\ ConflictsSince(call[c].seen, call[c].ops)
        => Equivalent(call[c].seen, call[c].ops)]_gatewayVars
=============================================================================
