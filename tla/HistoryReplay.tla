---------------------------- MODULE HistoryReplay ----------------------------
(***************************************************************************)
(* What replaying a journal of client commands through a fresh cloud       *)
(* authority yields.  The durable authority (adapters/libsql/history-       *)
(* authority.ts) calls InMemoryCloudMemoryAuthority as a function of that   *)
(* journal.  CloudHistory models the function in full; here a write is one  *)
(* operation at one Conflict Key, on objects that exist, and a resolution   *)
(* keeps the target or merges one operation by hand.                       *)
(***************************************************************************)
EXTENDS Naturals, SequencesExt

CONSTANTS
    MutationIds,    \* clientMutationIds
    Positions,      \* Conflict Keys
    Effects,        \* what two writes at one position differ in
    Commands,       \* the commands clients send
    None

Merge == [key: Positions, effect: Effects]

Command ==
    [kind: {"write"}, mutation: MutationIds, base: Nat,
     key: Positions, effect: Effects]
    \cup [kind: {"resolve"}, mutation: MutationIds,
          conflicts: Seq(Nat), merged: Seq(Merge)]

ASSUME HistoryReplayAssumption ==
    /\ None \notin Positions \cup Effects
    /\ Commands \subseteq Command

\* Writes and resolutions have idempotency keys of their own.
Identity(command) == <<command.kind, command.mutation>>

\* Part 0 is the commit of the command itself, part i > 0 the i-th commit a
\* resolution makes on the way.
Record ==
    [mutation: MutationIds, part: Nat, key: Positions \cup {None},
     effect: Effects \cup {None}, resolves: SUBSET Nat,
     status: {"accepted", "conflicted"}]

ConflictEntry == [sequence: Nat, status: {"unresolved", "resolved"}, resolvedBy: Nat]

History == [records: Seq(Record), conflicts: Seq(ConflictEntry)]

EmptyHistory == [records |-> <<>>, conflicts |-> <<>>]

Accepted(h) == {i \in DOMAIN h.records : h.records[i].status = "accepted"}

Open(h) ==
    {h.conflicts[i].sequence : i \in
        {n \in DOMAIN h.conflicts : h.conflicts[n].status = "unresolved"}}

Servable(h, command) ==
    IF command.kind = "write"
    THEN command.base = 0 \/ command.base \in Accepted(h)
    ELSE command.conflicts # <<>> /\ ToSet(command.conflicts) \subseteq Open(h)

\* Accepted work at the position of a write that its author had not seen.
Touching(h, command) ==
    {i \in Accepted(h) : i > command.base /\ h.records[i].key = command.key}

Repeats(h, command) ==
    {i \in Touching(h, command) : h.records[i].effect = command.effect}

WriteRecord(command, status) ==
    [mutation |-> command.mutation, part |-> 0, key |-> command.key,
     effect |-> command.effect, resolves |-> {}, status |-> status]

Merged(command) ==
    [i \in DOMAIN command.merged |->
        [mutation |-> command.mutation, part |-> i,
         key |-> command.merged[i].key, effect |-> command.merged[i].effect,
         resolves |-> {}, status |-> "accepted"]]

Marker(command) ==
    [mutation |-> command.mutation, part |-> 0, key |-> None, effect |-> None,
     resolves |-> ToSet(command.conflicts), status |-> "accepted"]

ServeWrite(h, command) ==
    CASE Touching(h, command) = {} ->
            [h EXCEPT !.records = Append(@, WriteRecord(command, "accepted"))]
      [] Repeats(h, command) # {} -> h
      [] OTHER ->
            [records |-> Append(h.records, WriteRecord(command, "conflicted")),
             conflicts |-> Append(h.conflicts,
                [sequence |-> Len(h.records) + 1, status |-> "unresolved",
                 resolvedBy |-> 0])]

ServeResolve(h, command) ==
    LET records == h.records \o Merged(command) \o <<Marker(command)>>
    IN  [records |-> records,
         conflicts |->
            [n \in DOMAIN h.conflicts |->
                IF h.conflicts[n].sequence \in ToSet(command.conflicts)
                THEN [h.conflicts[n] EXCEPT !.status = "resolved",
                                            !.resolvedBy = Len(records)]
                ELSE h.conflicts[n]]]

Serve(h, command) ==
    IF command.kind = "write" THEN ServeWrite(h, command)
                              ELSE ServeResolve(h, command)

\* Defect: the status of the record is returned for that of the call.
OutcomeOfRecord(h, command) ==
    [status |-> IF command.kind = "write" /\ Touching(h, command) # {}
                THEN "conflicted" ELSE "accepted",
     sequence |-> Len(Serve(h, command).records)]

\* What the caller is told; a write that repeats accepted work is told of that.
Outcome(h, command) ==
    IF command.kind = "resolve"
    THEN [status |-> "resolved", sequence |-> Len(Serve(h, command).records)]
    ELSE CASE Touching(h, command) = {} ->
                [status |-> "accepted", sequence |-> Len(h.records) + 1]
           [] Repeats(h, command) # {} ->
                [status |-> "accepted", sequence |-> Min(Repeats(h, command))]
           [] OTHER -> [status |-> "conflict", sequence |-> Len(h.records) + 1]

Outcomes == [status: {"accepted", "conflict", "resolved"}, sequence: Nat]

Rehydrate(commands) == FoldLeft(Serve, EmptyHistory, commands)
=============================================================================
