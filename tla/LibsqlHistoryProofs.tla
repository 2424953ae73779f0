------------------------ MODULE LibsqlHistoryProofs ------------------------
(***************************************************************************)
(* Proofs about the durable cloud history: its types, what its processes   *)
(* read, its reporting tables, and that callers of all the processes       *)
(* together see the one logical authority.                                 *)
(***************************************************************************)
EXTENDS LibsqlHistory, SequenceLemmas

-----------------------------------------------------------------------------
(* Serving a command.                                                      *)

\* The types of the parts of a command.
LEMMA CommandTypes ==
    ASSUME NEW command \in Commands
    PROVE  /\ command.kind \in {"write", "resolve"}
           /\ command.mutation \in MutationIds
           /\ command.kind = "write" =>
                /\ command.base \in Nat
                /\ command.key \in Positions
                /\ command.effect \in Effects
           /\ command.kind = "resolve" =>
                /\ command.conflicts \in Seq(Nat)
                /\ command.merged \in Seq(Merge)
  BY HistoryReplayAssumption DEF Command

\* The record of a write.
LEMMA WriteRecordType ==
    ASSUME NEW command \in Commands, command.kind = "write",
           NEW status \in {"accepted", "conflicted"}
    PROVE  WriteRecord(command, status) \in Record
  BY CommandTypes DEF WriteRecord, Record

\* The records of a resolution.
LEMMA ResolutionRecords ==
    ASSUME NEW command \in Commands, command.kind = "resolve"
    PROVE  /\ Merged(command) \in Seq(Record)
           /\ \A i \in DOMAIN Merged(command) :
                /\ Merged(command)[i].resolves = {}
                /\ Merged(command)[i].status = "accepted"
           /\ Marker(command) \in Record
           /\ ToSet(command.conflicts) \subseteq Nat
           /\ Marker(command).resolves = ToSet(command.conflicts)
           /\ Marker(command).status = "accepted"
<1> DEFINE n == Len(command.merged)
<1>1. n \in Nat /\ DOMAIN command.merged = 1..n
      /\ \A i \in 1..n : command.merged[i] \in Merge
  BY CommandTypes, LenProperties, ElementOfSeq
<1>2. ToSet(command.conflicts) \subseteq Nat
  BY CommandTypes, LenProperties, ElementOfSeq DEF ToSet
<1>3. Merged(command) \in [1..n -> Record]
  BY <1>1, CommandTypes DEF Merged, Merge, Record
<1>4. Merged(command) \in Seq(Record) /\ DOMAIN Merged(command) = 1..n
  BY <1>1, <1>3, FunctionIsSeq
<1>5. Marker(command) \in Record
  BY <1>2, CommandTypes DEF Marker, Record
<1>6. /\ Marker(command).resolves = ToSet(command.conflicts)
      /\ Marker(command).status = "accepted"
  BY DEF Marker
<1>7. ASSUME NEW i \in DOMAIN Merged(command)
      PROVE  /\ Merged(command)[i].resolves = {}
             /\ Merged(command)[i].status = "accepted"
  BY <1>1, <1>4 DEF Merged
<1> QED
  BY <1>2, <1>4, <1>5, <1>6, <1>7

\* What one command adds to a history: nothing, records only, or a captured
\* conflict.
LEMMA ServeWriteCases ==
    ASSUME NEW h \in History, NEW command \in Commands, command.kind = "write"
    PROVE  \/ Serve(h, command) = h
           \/ /\ Serve(h, command).records
                    = Append(h.records, WriteRecord(command, "accepted"))
              /\ Serve(h, command).conflicts = h.conflicts
              /\ Serve(h, command) \in History
           \/ /\ Serve(h, command).records
                    = Append(h.records, WriteRecord(command, "conflicted"))
              /\ Serve(h, command).conflicts
                    = Append(h.conflicts,
                        [sequence |-> Len(h.records) + 1, status |-> "unresolved",
                         resolvedBy |-> 0])
              /\ Serve(h, command) \in History
<1> DEFINE record(status) == WriteRecord(command, status)
           entry == [sequence |-> Len(h.records) + 1, status |-> "unresolved",
                     resolvedBy |-> 0]
           logged == Append(h.records, record("accepted"))
           captured == Append(h.records, record("conflicted"))
           contended == Append(h.conflicts, entry)
<1>1. h = [records |-> h.records, conflicts |-> h.conflicts]
      /\ h.records \in Seq(Record) /\ h.conflicts \in Seq(ConflictEntry)
  BY DEF History
<1>2. Serve(h, command) = ServeWrite(h, command)
  BY DEF Serve
<1>3. logged \in Seq(Record) /\ captured \in Seq(Record)
  BY <1>1, WriteRecordType, AppendProperties
<1>4. entry \in ConflictEntry
  BY <1>1, LenProperties DEF ConflictEntry
<1>5. contended \in Seq(ConflictEntry)
  BY <1>1, <1>4, AppendProperties
<1>6. [h EXCEPT !.records = logged] = [records |-> logged, conflicts |-> h.conflicts]
  <2> HIDE DEF logged
  <2> QED
    BY DEF History
<1>7. CASE Touching(h, command) = {}
  <2>1. Repeats(h, command) = {}
    BY <1>7 DEF Repeats
  <2>2. ServeWrite(h, command) = [h EXCEPT !.records = logged]
    BY <1>7, <2>1 DEF ServeWrite
  <2>3. Serve(h, command) = [records |-> logged, conflicts |-> h.conflicts]
    BY <1>2, <1>6, <2>2
  <2> HIDE DEF logged
  <2>4. [records |-> logged, conflicts |-> h.conflicts] \in History
    BY <1>1, <1>3 DEF History
  <2> QED
    BY <2>3, <2>4 DEF logged
<1>8. CASE Touching(h, command) # {} /\ Repeats(h, command) # {}
  BY <1>2, <1>8 DEF ServeWrite
<1>9. CASE Touching(h, command) # {} /\ Repeats(h, command) = {}
  <2>1. ServeWrite(h, command) = [records |-> captured, conflicts |-> contended]
    BY <1>9 DEF ServeWrite
  <2>2. Serve(h, command) = [records |-> captured, conflicts |-> contended]
    BY <1>2, <2>1
  <2> HIDE DEF captured, contended
  <2>3. [records |-> captured, conflicts |-> contended] \in History
    BY <1>3, <1>5 DEF History
  <2> QED
    BY <2>2, <2>3 DEF captured, contended
<1> QED
  BY <1>7, <1>8, <1>9

Settling(conflicts, chosen, by) ==
    [n \in DOMAIN conflicts |->
        IF conflicts[n].sequence \in chosen
        THEN [conflicts[n] EXCEPT !.status = "resolved", !.resolvedBy = by]
        ELSE conflicts[n]]

\* A resolution logs its merges and its marker, and settles its conflicts.
LEMMA ServeResolveShape ==
    ASSUME NEW h \in History, NEW command \in Commands, command.kind = "resolve"
    PROVE  /\ Serve(h, command).records
                    = (h.records \o Merged(command)) \o <<Marker(command)>>
           /\ Serve(h, command).conflicts
                    = Settling(h.conflicts, ToSet(command.conflicts),
                               Len(Serve(h, command).records))
           /\ Serve(h, command) \in History
<1> DEFINE records == (h.records \o Merged(command)) \o <<Marker(command)>>
           conflicts == Settling(h.conflicts, ToSet(command.conflicts), Len(records))
           n == Len(h.conflicts)
<1>1. h.records \in Seq(Record) /\ h.conflicts \in Seq(ConflictEntry)
  BY DEF History
<1>2. records \in Seq(Record)
  <2>1. h.records \o Merged(command) \in Seq(Record)
    BY <1>1, ResolutionRecords, ConcatProperties
  <2>2. <<Marker(command)>> \in Seq(Record)
    BY ResolutionRecords
  <2> QED
    BY <2>1, <2>2, ConcatProperties
<1>3. Serve(h, command) = [records |-> records, conflicts |-> conflicts]
  BY DEF Serve, ServeResolve, Settling
<1>4. Len(records) \in Nat
  BY <1>2, LenProperties
<1> HIDE DEF records
<1>5. n \in Nat /\ DOMAIN h.conflicts = 1..n /\ \A i \in 1..n : h.conflicts[i] \in ConflictEntry
  BY <1>1, LenProperties, ElementOfSeq
<1>6. conflicts \in [1..n -> ConflictEntry]
  BY <1>4, <1>5 DEF Settling, ConflictEntry
<1>7. conflicts \in Seq(ConflictEntry)
  BY <1>5, <1>6, FunctionIsSeq
<1> HIDE DEF conflicts
<1>8. Serve(h, command) \in History
  BY <1>2, <1>3, <1>7 DEF History
<1> QED
  BY <1>3, <1>8 DEF records, conflicts

\* Serving a command leads from histories to histories.
Serves == \A h \in History, command \in Commands : Serve(h, command) \in History

\* Serving a command keeps the types.
LEMMA ServeIsClosed == Serves
<1> SUFFICES ASSUME NEW h \in History, NEW command \in Commands
             PROVE  Serve(h, command) \in History
  BY DEF Serves
<1>1. CASE command.kind = "write"
  BY <1>1, ServeWriteCases
<1>2. CASE command.kind = "resolve"
  BY <1>2, ServeResolveShape
<1> QED
  BY <1>1, <1>2, CommandTypes

\* The empty history is one.
LEMMA EmptyIsHistory == EmptyHistory \in History
  BY EmptySeq DEF EmptyHistory, History

\* The histories a replay passes through.
LEMMA RehydratePath ==
    ASSUME NEW commands \in Seq(Commands),
           NEW F, F = [p \in History \X (1..Len(commands)) |-> Serve(p[1], commands[p[2]])]
    PROVE  Leads(Len(commands), History, EmptyHistory, F, Rehydrate(commands))
<1> DEFINE n == Len(commands)
           It == CHOOSE iter : iter =
                    [s \in SUBSET DOMAIN commands |->
                        IF s = {} THEN EmptyHistory
                        ELSE Serve(iter[s \ {Max(s)}], commands[Max(s)])]
<1>1. n \in Nat /\ DOMAIN commands = 1..n /\ \A k \in 1..n : commands[k] \in Commands
  BY LenProperties, ElementOfSeq
<1>2. Rehydrate(commands) = It[DOMAIN commands]
  BY DEF Rehydrate, FoldLeft, MapThenFoldSet
<1> HIDE DEF n
<1>3. /\ EmptyHistory \in History
      /\ F \in [History \X (1..n) -> History]
      /\ \A t \in History, k \in 1..n : F[<<t, k>>] = Serve(t, commands[k])
  BY <1>1, ServeIsClosed, EmptyIsHistory DEF n, Serves
<1>4. PICK iter \in [SUBSET (1..n) -> History] : IsRecursion(iter, n, EmptyHistory, F)
  BY <1>1, <1>3, RecursionExists
<1>5. ASSUME NEW s \in SUBSET (1..n), s # {}
      PROVE  iter[s] = Serve(iter[s \ {Max(s)}], commands[Max(s)])
  <2> DEFINE m == Max(s)
             r == s \ {m}
  <2>1. m \in 1..n /\ r \in SUBSET (1..n)
    BY <1>1, <1>5, LargestElement
  <2> HIDE DEF m, r
  <2>2. F[<<iter[r], m>>] = Serve(iter[r], commands[m])
    BY <1>3, <1>4, <2>1
  <2> QED
    BY <1>4, <1>5, <2>2 DEF r, m, IsRecursion
<1>6. iter = [s \in SUBSET DOMAIN commands |->
                IF s = {} THEN EmptyHistory
                ELSE Serve(iter[s \ {Max(s)}], commands[Max(s)])]
  BY <1>1, <1>4, <1>5 DEF IsRecursion
<1>7. It = [s \in SUBSET DOMAIN commands |->
                IF s = {} THEN EmptyHistory
                ELSE Serve(It[s \ {Max(s)}], commands[Max(s)])]
  BY <1>6
<1> HIDE DEF It
<1>8. It[{}] = EmptyHistory
  BY <1>7
<1>9. ASSUME NEW s \in SUBSET (1..n), s # {}, It[s \ {Max(s)}] \in History
      PROVE  It[s] = F[<<It[s \ {Max(s)}], Max(s)>>]
  <2> DEFINE m == Max(s)
             r == s \ {m}
  <2>1. m \in 1..n
    BY <1>1, <1>9, LargestElement
  <2>2. It[s] = Serve(It[r], commands[m])
    BY <1>1, <1>7, <1>9
  <2>3. It[r] \in History
    BY <1>9
  <2> HIDE DEF m, r
  <2>4. It[s] = F[<<It[r], m>>]
    BY <1>3, <2>1, <2>2, <2>3
  <2> QED
    BY <2>4 DEF m, r
<1>10. Leads(n, History, EmptyHistory, F, It[1..n])
  <2>1. IsTypedRecursion(It, n, History, EmptyHistory, F)
    BY <1>8, <1>9 DEF IsTypedRecursion
  <2>2. n \in Nat /\ EmptyHistory \in History /\ F \in [History \X (1..n) -> History]
    BY <1>1, <1>3
  <2> QED
    BY <2>1, <2>2, RecursionIsPath
<1> QED
  BY <1>1, <1>2, <1>10 DEF n

\* A replay serves the commands one after the other.
LEMMA RehydrateSteps ==
    ASSUME NEW commands \in Seq(Commands), NEW command \in Commands
    PROVE  /\ Rehydrate(<<>>) = EmptyHistory
           /\ Rehydrate(commands) \in History
           /\ Rehydrate(Append(commands, command)) = Serve(Rehydrate(commands), command)
<1> DEFINE n == Len(commands)
           more == Append(commands, command)
           F(l) == [p \in History \X (1..Len(l)) |-> Serve(p[1], l[p[2]])]
<1>1. /\ n \in Nat
      /\ more \in Seq(Commands) /\ Len(more) = n + 1
      /\ \A k \in 1..n : more[k] = commands[k]
      /\ more[n + 1] = command
  BY LenProperties, AppendProperties
<1>2. Rehydrate(<<>>) = EmptyHistory
  <2>1. <<>> \in Seq(Commands) /\ Len(<<>>) = 0
    BY EmptySeq
  <2>2. PICK h : IsPath(h, Len(<<>>), EmptyHistory, F(<<>>)) /\ h[Len(<<>>)] = Rehydrate(<<>>)
    <3> DEFINE e == <<>>
               G == F(e)
    <3>1. e \in Seq(Commands) /\ G = [p \in History \X (1..Len(e)) |-> Serve(p[1], e[p[2]])]
      BY <2>1
    <3> HIDE DEF e, G
    <3>2. Leads(Len(e), History, EmptyHistory, G, Rehydrate(e))
      BY <3>1, RehydratePath
    <3> QED
      BY <3>2 DEF e, G, Leads
  <2> QED
    BY <2>1, <2>2 DEF IsPath
<1>3. PICK h \in [0..n -> History] : IsPath(h, n, EmptyHistory, F(commands)) /\ h[n] = Rehydrate(commands)
  <2> DEFINE G == F(commands)
  <2>1. G = [p \in History \X (1..Len(commands)) |-> Serve(p[1], commands[p[2]])]
    OBVIOUS
  <2> HIDE DEF G
  <2>2. Leads(Len(commands), History, EmptyHistory, G, Rehydrate(commands))
    BY <2>1, RehydratePath
  <2> QED
    BY <2>2 DEF G, Leads
<1> HIDE DEF more
<1>4. PICK g \in [0..(n + 1) -> History] :
            IsPath(g, n + 1, EmptyHistory, F(more)) /\ g[n + 1] = Rehydrate(more)
  <2> DEFINE G == F(more)
  <2>1. G = [p \in History \X (1..Len(more)) |-> Serve(p[1], more[p[2]])]
    OBVIOUS
  <2> HIDE DEF G
  <2>2. Leads(Len(more), History, EmptyHistory, G, Rehydrate(more))
    BY <1>1, <2>1, RehydratePath
  <2> QED
    BY <1>1, <2>2 DEF G, Leads
<1> HIDE DEF n
<1>5. /\ \A t \in History, k \in 1..n : F(commands)[<<t, k>>] = Serve(t, commands[k])
      /\ \A t \in History, k \in 1..(n + 1) : F(more)[<<t, k>>] = Serve(t, more[k])
  BY <1>1 DEF n
<1> HIDE DEF F
<1>6. \A k \in 0..n : g[k] = h[k]
  <2>1. ASSUME NEW k \in 1..n
        PROVE  F(commands)[<<h[k - 1], k>>] = F(more)[<<h[k - 1], k>>]
    <3>1. more[k] = commands[k] /\ k \in 1..(n + 1) /\ k - 1 \in 0..n
      BY <1>1
    <3>2. h[k - 1] \in History
      BY <3>1
    <3> QED
      BY <1>5, <3>1, <3>2
  <2>2. n + 1 \in Nat /\ n <= n + 1
    BY <1>1
  <2>3. AgreeOn(n, h, F(commands), F(more))
    BY <2>1 DEF AgreeOn
  <2>4. IsPath(h, n, EmptyHistory, F(commands))
    BY <1>3
  <2>5. IsPath(g, n + 1, EmptyHistory, F(more))
    BY <1>4
  <2>6. n \in Nat
    BY <1>1
  <2>7. SameUpTo(n, h, g)
    BY <2>2, <2>3, <2>4, <2>5, <2>6, PathsAgree
  <2> QED
    BY <2>7 DEF SameUpTo
<1>7. g[n] = h[n] /\ h[n] \in History /\ n + 1 \in 1..(n + 1) /\ (n + 1) - 1 = n
  BY <1>1, <1>3, <1>6
<1>8. g[n + 1] = F(more)[<<g[n], n + 1>>]
  BY <1>4, <1>7 DEF IsPath
<1>9. g[n + 1] = Serve(h[n], command)
  BY <1>1, <1>5, <1>7, <1>8
<1> QED
  BY <1>2, <1>3, <1>4, <1>7, <1>9 DEF more

\* What a replay yields is a history; replaying nothing yields the empty one.
LEMMA RehydrateType ==
    ASSUME NEW commands \in Seq(Commands)
    PROVE  Rehydrate(commands) \in History
<1> DEFINE F == [p \in History \X (1..Len(commands)) |-> Serve(p[1], commands[p[2]])]
<1>1. F = [p \in History \X (1..Len(commands)) |-> Serve(p[1], commands[p[2]])]
  OBVIOUS
<1> HIDE DEF F
<1>2. Leads(Len(commands), History, EmptyHistory, F, Rehydrate(commands))
  BY <1>1, RehydratePath
<1> QED
  BY <1>2, LenProperties DEF Leads

\* An empty journal has an empty history.
LEMMA RehydrateNothing == Rehydrate(<<>>) = EmptyHistory
<1> DEFINE e == <<>>
           F == [p \in History \X (1..Len(e)) |-> Serve(p[1], e[p[2]])]
<1>1. e \in Seq(Commands) /\ Len(e) = 0
  BY EmptySeq
<1>2. F = [p \in History \X (1..Len(e)) |-> Serve(p[1], e[p[2]])]
  OBVIOUS
<1> HIDE DEF e, F
<1>3. Leads(Len(e), History, EmptyHistory, F, Rehydrate(e))
  BY <1>1, <1>2, RehydratePath
<1>4. Rehydrate(e) = EmptyHistory
  BY <1>1, <1>3 DEF Leads, IsPath
<1> QED
  BY <1>4 DEF e

\* The least of a set of numbers is one of them.
LEMMA MinOfNumbers ==
    ASSUME NEW S \in SUBSET Nat, S # {}
    PROVE  Min(S) \in S
<1>1. \E n \in S : \A m \in S : n <= m
  BY LeastElement
<1> QED
  BY <1>1 DEF Min

\* What a caller is told is an outcome.
LEMMA OutcomeType ==
    ASSUME NEW h \in History, NEW command \in Commands
    PROVE  Outcome(h, command) \in Outcomes
<1>1. /\ Len(h.records) + 1 \in Nat
      /\ DOMAIN h.records \subseteq Nat
  BY LenProperties DEF History
<1>2. Len(Serve(h, command).records) \in Nat
  BY ServeIsClosed, LenProperties DEF Serves, History
<1>3. CASE command.kind = "resolve"
  BY <1>2, <1>3 DEF Outcome, Outcomes
<1>4. CASE command.kind # "resolve" /\ Touching(h, command) = {}
  <2>1. Repeats(h, command) = {}
    BY <1>4 DEF Repeats
  <2> QED
    BY <1>1, <1>4, <2>1 DEF Outcome, Outcomes
<1>5. CASE command.kind # "resolve" /\ Touching(h, command) # {} /\ Repeats(h, command) # {}
  <2>1. Repeats(h, command) \in SUBSET Nat
    BY <1>1 DEF Repeats, Touching, Accepted
  <2>2. Min(Repeats(h, command)) \in Nat
    BY <1>5, <2>1, MinOfNumbers
  <2> QED
    BY <1>5, <2>2 DEF Outcome, Outcomes
<1>6. CASE command.kind # "resolve" /\ Touching(h, command) # {} /\ Repeats(h, command) = {}
  BY <1>1, <1>6 DEF Outcome, Outcomes
<1> QED
  BY <1>3, <1>4, <1>5, <1>6

\* The head of the branch is the latest accepted commit, 0 when there is none.
IsHead(head, accepted) ==
    /\ head \in accepted \cup {0}
    /\ \A i \in accepted : i <= head

\* The head is the latest accepted record.
LEMMA LatestAccepted ==
    ASSUME NEW h \in History
    PROVE  IsHead(Max(Accepted(h) \cup {0}), Accepted(h))
<1> DEFINE n == Len(h.records)
           accepted == Accepted(h)
<1>1. n \in Nat /\ accepted \in SUBSET (1..n)
  BY LenProperties DEF Accepted, History
<1> HIDE DEF n, accepted
<1>2. \E x \in accepted \cup {0} : \A y \in accepted \cup {0} : x >= y
  <2>1. CASE accepted = {}
    BY <2>1
  <2>2. CASE accepted # {}
    <3>1. Max(accepted) \in accepted /\ \A k \in accepted : k <= Max(accepted)
      BY <1>1, <2>2, LargestElement
    <3> DEFINE x == Max(accepted)
    <3> HIDE DEF x
    <3>2. x \in accepted /\ \A k \in accepted : k <= x
      BY <3>1 DEF x
    <3>3. \A y \in accepted \cup {0} : x >= y
      BY <1>1, <3>2
    <3> QED
      BY <3>2, <3>3
  <2> QED
    BY <2>1, <2>2
<1> DEFINE m == Max(accepted \cup {0})
<1>3. m \in accepted \cup {0} /\ \A y \in accepted \cup {0} : m >= y
  BY <1>2 DEF Max
<1> HIDE DEF m
<1>4. IsHead(m, accepted)
  BY <1>1, <1>3 DEF IsHead
<1> QED
  BY <1>4 DEF m, accepted

\* The rows written for a history have the types of their tables.
ProjectionTyped(rows) ==
    /\ rows.commits \in Seq(Record) /\ rows.conflicts \in Seq(ConflictEntry)
    /\ rows.resolutions \subseteq Nat \X Nat /\ rows.head \in Nat

\* The reporting rows of a history are typed.
LEMMA ProjectionType ==
    ASSUME NEW h \in History
    PROVE  ProjectionTyped(Projection(h))
<1>1. h.records \in Seq(Record) /\ h.conflicts \in Seq(ConflictEntry)
  BY DEF History
<1>2. ASSUME NEW i \in DOMAIN h.records
      PROVE  i \in Nat /\ h.records[i].resolves \subseteq Nat
  <2>1. i \in Nat /\ h.records[i] \in Record
    BY <1>1, LenProperties, ElementOfSeq
  <2> QED
    BY <2>1 DEF Record
<1>3. Projection(h).resolutions \subseteq Nat \X Nat
  BY <1>2 DEF Projection
<1>4. Max(Accepted(h) \cup {0}) \in Nat
  <2>1. Accepted(h) \subseteq Nat
    BY <1>2 DEF Accepted
  <2> QED
    BY <2>1, LatestAccepted DEF IsHead
<1> QED
  BY <1>1, <1>3, <1>4 DEF Projection, ProjectionTyped

-----------------------------------------------------------------------------
(* Conflicts and the resolutions that settle them.                         *)

Resolvers(records, s) == {i \in DOMAIN records : s \in records[i].resolves}

\* More records: only the last of the new ones resolves conflicts, the chosen.
Grows(records, more, chosen) ==
    /\ records \in Seq(Record) /\ more \in Seq(Record)
    /\ Len(records) < Len(more)
    /\ \A i \in 1..Len(records) : more[i] = records[i]
    /\ \A i \in 1..Len(more) :
        i > Len(records) =>
            more[i].resolves = IF i = Len(more) THEN chosen ELSE {}

\* A record more resolves only what it names,
LEMMA AppendGrows ==
    ASSUME NEW records \in Seq(Record), NEW record \in Record
    PROVE  Grows(records, Append(records, record), record.resolves)
  BY LenProperties, AppendProperties DEF Grows

\* and so does a resolution behind the commits it merges.
LEMMA ConcatGrows ==
    ASSUME NEW records \in Seq(Record), NEW merged \in Seq(Record),
           \A i \in DOMAIN merged : merged[i].resolves = {},
           NEW record \in Record
    PROVE  Grows(records, (records \o merged) \o <<record>>, record.resolves)
<1> DEFINE middle == records \o merged
           more == Append(middle, record)
           n == Len(records)
           m == Len(merged)
<1>1. /\ n \in Nat /\ m \in Nat /\ DOMAIN merged = 1..m
      /\ middle \in Seq(Record) /\ Len(middle) = n + m
      /\ \A i \in 1..(n + m) : middle[i] = IF i <= n THEN records[i] ELSE merged[i - n]
  BY LenProperties, ConcatProperties
<1> HIDE DEF middle
<1>2. /\ more \in Seq(Record) /\ Len(more) = (n + m) + 1
      /\ \A i \in 1..(n + m) : more[i] = middle[i]
      /\ more[(n + m) + 1] = record
  <2> DEFINE k == n + m
  <2>1. k \in Nat /\ Len(middle) = k
    BY <1>1
  <2> HIDE DEF k
  <2>2. /\ more \in Seq(Record) /\ Len(more) = k + 1
        /\ \A i \in 1..k : more[i] = middle[i]
        /\ more[k + 1] = record
    BY <1>1, <2>1, AppendProperties
  <2> QED
    BY <2>2 DEF k
<1>3. middle \o <<record>> = more
  BY <1>1, AppendIsConcat
<1> HIDE DEF more
<1>4. ASSUME NEW i \in 1..Len(more), i > n
      PROVE  more[i].resolves = IF i = Len(more) THEN record.resolves ELSE {}
  <2>1. CASE i = Len(more)
    BY <1>2, <2>1
  <2>2. CASE i # Len(more)
    <3> DEFINE j == i - n
    <3> HIDE DEF n, m
    <3>1. i \in 1..(n + m) /\ j \in 1..m /\ ~(i <= n)
      BY <1>1, <1>2, <1>4, <2>2
    <3>2. more[i] = merged[j]
      BY <1>1, <1>2, <3>1
    <3> HIDE DEF j
    <3>3. merged[j].resolves = {}
      BY <1>1, <3>1
    <3> QED
      BY <2>2, <3>2, <3>3
  <2> QED
    BY <2>1, <2>2
<1>5. ASSUME NEW i \in 1..n
      PROVE  more[i] = records[i]
  <2> HIDE DEF n, m
  <2>1. i \in 1..(n + m) /\ i <= n
    BY <1>1, <1>5
  <2>2. more[i] = middle[i]
    BY <1>2, <2>1
  <2>3. middle[i] = records[i]
    BY <1>1, <2>1
  <2> QED
    BY <2>2, <2>3
<1>6. Grows(records, more, record.resolves)
  BY <1>1, <1>2, <1>4, <1>5 DEF Grows
<1> QED
  BY <1>3, <1>6 DEF middle

\* Only the chosen conflicts get one more resolver, the last record.
LEMMA ResolversGrow ==
    ASSUME NEW records, NEW more, NEW chosen, Grows(records, more, chosen), NEW s
    PROVE  Resolvers(more, s)
                = Resolvers(records, s) \cup (IF s \in chosen THEN {Len(more)} ELSE {})
<1> DEFINE n == Len(records)
           l == Len(more)
<1>1. n \in Nat /\ l \in Nat /\ n < l /\ DOMAIN records = 1..n /\ DOMAIN more = 1..l
  BY LenProperties DEF Grows
<1>2. /\ \A i \in 1..n : more[i] = records[i]
      /\ \A i \in 1..l : i > n => more[i].resolves = IF i = l THEN chosen ELSE {}
  BY DEF Grows
<1> HIDE DEF n, l
<1>3. ASSUME NEW i
      PROVE  i \in Resolvers(more, s)
                <=> i \in Resolvers(records, s) \/ (s \in chosen /\ i = l)
  <2>1. CASE i \in 1..n
    BY <1>1, <1>2, <2>1 DEF Resolvers
  <2>2. CASE i \in 1..l /\ i \notin 1..n
    <3>1. i > n /\ i \notin Resolvers(records, s)
      BY <1>1, <2>2 DEF Resolvers
    <3>2. i \in Resolvers(more, s) <=> s \in more[i].resolves
      BY <1>1, <2>2 DEF Resolvers
    <3> QED
      BY <1>2, <2>2, <3>1, <3>2
  <2>3. CASE i \notin 1..l
    <3>1. i \notin 1..n /\ i # l
      BY <1>1, <2>3
    <3> QED
      BY <1>1, <2>3, <3>1 DEF Resolvers
  <2> QED
    BY <2>1, <2>2, <2>3
<1> QED
  BY <1>3 DEF l

\* A captured conflict names a conflicted record, records resolve only earlier
\* ones, and a conflict is resolved by the one record its entry names, or open
\* and resolved by none.
ConflictsCaptured(records, conflicts) ==
    \A n \in DOMAIN conflicts :
        /\ conflicts[n].sequence \in DOMAIN records
        /\ records[conflicts[n].sequence].status = "conflicted"

ResolvesThePast(records) ==
    \A i \in DOMAIN records : records[i].resolves \subseteq DOMAIN records

SettledByOne(records, entry) ==
    Resolvers(records, entry.sequence)
        = IF entry.status = "resolved" THEN {entry.resolvedBy} ELSE {}

AllSettledByOne(records, conflicts) ==
    \A n \in DOMAIN conflicts : SettledByOne(records, conflicts[n])

Sound(h) ==
    /\ ConflictsCaptured(h.records, h.conflicts)
    /\ ResolvesThePast(h.records)
    /\ AllSettledByOne(h.records, h.conflicts)

\* The empty history is sound.
LEMMA EmptyIsSound == Sound(EmptyHistory)
<1> DEFINE e == <<>>
<1>1. e \in Seq(Record) /\ e \in Seq(ConflictEntry) /\ Len(e) = 0
  BY EmptySeq
<1>2. DOMAIN e = {}
  BY <1>1, LenProperties
<1>3. EmptyHistory.records = e /\ EmptyHistory.conflicts = e
  BY DEF EmptyHistory
<1> HIDE DEF e
<1> QED
  BY <1>2, <1>3 DEF Sound, ConflictsCaptured, ResolvesThePast, AllSettledByOne

\* What is said of the past stays true when records are added.
LEMMA PastGrows ==
    ASSUME NEW records, NEW more, NEW chosen, Grows(records, more, chosen),
           chosen \subseteq DOMAIN records, ResolvesThePast(records)
    PROVE  ResolvesThePast(more)
<1> DEFINE n == Len(records)
           l == Len(more)
<1>1. n \in Nat /\ l \in Nat /\ n < l /\ DOMAIN records = 1..n /\ DOMAIN more = 1..l
  BY LenProperties DEF Grows
<1>2. /\ \A i \in 1..n : more[i] = records[i]
      /\ \A i \in 1..l : i > n => more[i].resolves = IF i = l THEN chosen ELSE {}
  BY DEF Grows
<1> HIDE DEF n, l
<1>3. ASSUME NEW i \in 1..l
      PROVE  more[i].resolves \subseteq 1..l
  <2>0. 1..n \subseteq 1..l
    BY <1>1
  <2>1. CASE i \in 1..n
    BY <1>1, <1>2, <2>0, <2>1 DEF ResolvesThePast
  <2>2. CASE i \notin 1..n
    <3>1. i > n
      BY <1>1, <2>2
    <3> QED
      BY <1>1, <1>2, <2>0, <3>1
  <2> QED
    BY <2>1, <2>2
<1> QED
  BY <1>1, <1>3 DEF ResolvesThePast

\* A conflict stays captured when records are added.
LEMMA CapturedGrows ==
    ASSUME NEW records, NEW more, NEW chosen, Grows(records, more, chosen),
           NEW conflicts, ConflictsCaptured(records, conflicts)
    PROVE  ConflictsCaptured(more, conflicts)
<1>1. /\ Len(records) \in Nat /\ Len(more) \in Nat /\ Len(records) < Len(more)
      /\ DOMAIN records = 1..Len(records) /\ DOMAIN more = 1..Len(more)
      /\ \A i \in 1..Len(records) : more[i] = records[i]
  BY LenProperties DEF Grows
<1> QED
  BY <1>1 DEF ConflictsCaptured

\* Adding a record that resolves nothing leaves settled what was.
LEMMA SettledGrows ==
    ASSUME NEW records, NEW more, Grows(records, more, {}),
           NEW conflicts, AllSettledByOne(records, conflicts)
    PROVE  AllSettledByOne(more, conflicts)
<1> DEFINE none == {}
<1>1. Grows(records, more, none)
  OBVIOUS
<1>2. \A x : x \notin none
  OBVIOUS
<1> HIDE DEF none
<1>3. ASSUME NEW n \in DOMAIN conflicts
      PROVE  SettledByOne(more, conflicts[n])
  <2> DEFINE s == conflicts[n].sequence
  <2>1. Resolvers(more, s) = Resolvers(records, s) \cup (IF s \in none THEN {Len(more)} ELSE {})
    BY <1>1, ResolversGrow
  <2>2. Resolvers(more, s) = Resolvers(records, s)
    BY <1>2, <2>1
  <2>3. SettledByOne(records, conflicts[n])
    BY DEF AllSettledByOne
  <2> QED
    BY <2>2, <2>3 DEF SettledByOne
<1> QED
  BY <1>3 DEF AllSettledByOne

\* A write keeps a history sound.
LEMMA WriteIsSound ==
    ASSUME NEW h \in History, Sound(h), NEW command \in Commands,
           command.kind = "write"
    PROVE  Sound(Serve(h, command))
<1> DEFINE record(status) == WriteRecord(command, status)
           entry == [sequence |-> Len(h.records) + 1, status |-> "unresolved",
                     resolvedBy |-> 0]
           next == Serve(h, command)
           n == Len(h.records)
<1>1. /\ h.records \in Seq(Record) /\ h.conflicts \in Seq(ConflictEntry)
      /\ n \in Nat /\ DOMAIN h.records = 1..n
  BY LenProperties DEF History
<1>2. /\ ConflictsCaptured(h.records, h.conflicts)
      /\ ResolvesThePast(h.records)
      /\ AllSettledByOne(h.records, h.conflicts)
  BY DEF Sound
<1>3. ASSUME NEW status \in {"accepted", "conflicted"}
      PROVE  /\ record(status) \in Record
             /\ record(status).resolves = {}
             /\ record(status).status = status
             /\ Grows(h.records, Append(h.records, record(status)), {})
  <2>1. record(status) \in Record
    BY WriteRecordType
  <2>2. /\ record(status).resolves = {}
        /\ record(status).status = status
    BY DEF WriteRecord
  <2>3. Grows(h.records, Append(h.records, record(status)), record(status).resolves)
    BY <1>1, <2>1, AppendGrows
  <2> QED
    BY <2>1, <2>2, <2>3
<1>4. ASSUME NEW more, Grows(h.records, more, {})
      PROVE  /\ ConflictsCaptured(more, h.conflicts)
             /\ ResolvesThePast(more)
             /\ AllSettledByOne(more, h.conflicts)
  <2> DEFINE none == {}
  <2>1. none \subseteq DOMAIN h.records /\ Grows(h.records, more, none)
    BY <1>4
  <2> HIDE DEF none
  <2>2. ConflictsCaptured(more, h.conflicts) /\ ResolvesThePast(more)
    BY <1>2, <2>1, CapturedGrows, PastGrows
  <2>3. AllSettledByOne(more, h.conflicts)
    BY <1>2, <1>4, SettledGrows
  <2> QED
    BY <2>2, <2>3
<1>5. CASE next = h
  BY <1>5
<1>6. CASE /\ next.records = Append(h.records, record("accepted"))
           /\ next.conflicts = h.conflicts
  BY <1>3, <1>4, <1>6 DEF Sound
<1>7. CASE /\ next.records = Append(h.records, record("conflicted"))
           /\ next.conflicts = Append(h.conflicts, entry)
  <2> DEFINE more == Append(h.records, record("conflicted"))
             contended == Append(h.conflicts, entry)
             m == Len(h.conflicts)
  <2>1. /\ Grows(h.records, more, {})
        /\ ConflictsCaptured(more, h.conflicts)
        /\ ResolvesThePast(more)
        /\ AllSettledByOne(more, h.conflicts)
    BY <1>3, <1>4
  <2>2. entry \in ConflictEntry
    BY <1>1 DEF ConflictEntry
  <2>3. /\ m \in Nat /\ DOMAIN h.conflicts = 1..m
        /\ DOMAIN contended = 1..(m + 1)
        /\ \A i \in 1..m : contended[i] = h.conflicts[i]
        /\ contended[m + 1] = entry
    BY <1>1, <2>2, LenProperties, AppendProperties
  <2>4. n + 1 \in DOMAIN more /\ more[n + 1] = record("conflicted")
    BY <1>1, <1>3, LenProperties, AppendProperties
  <2>5. entry.sequence = n + 1 /\ entry.status = "unresolved"
    OBVIOUS
  <2>6. more[n + 1].status = "conflicted"
    BY <1>3, <2>4
  <2>7. Resolvers(more, n + 1) = {}
    <3> DEFINE none == {}
               s == n + 1
    <3>1. Grows(h.records, more, none) /\ s \notin none
      BY <2>1
    <3>2. Resolvers(h.records, s) = {}
      BY <1>1, <1>2 DEF Resolvers, ResolvesThePast
    <3> HIDE DEF none, s, more
    <3>3. Resolvers(more, s) = Resolvers(h.records, s) \cup (IF s \in none THEN {Len(more)} ELSE {})
      BY <3>1, ResolversGrow
    <3>4. Resolvers(more, s) = {}
      BY <3>1, <3>2, <3>3
    <3> QED
      BY <3>4 DEF s
  <2> HIDE DEF more, contended, entry, m, n
  <2>8. \A i \in 1..(m + 1) : i \in 1..m \/ i = m + 1
    BY <2>3
  <2>9. ConflictsCaptured(more, contended)
    BY <2>1, <2>3, <2>4, <2>5, <2>6, <2>8 DEF ConflictsCaptured
  <2>10. SettledByOne(more, entry)
    BY <2>5, <2>7 DEF SettledByOne
  <2>11. AllSettledByOne(more, contended)
    BY <2>1, <2>3, <2>8, <2>10 DEF AllSettledByOne
  <2> QED
    BY <1>7, <2>1, <2>9, <2>11 DEF Sound, more, contended, entry, n
<1> QED
  BY <1>5, <1>6, <1>7, ServeWriteCases

\* A resolution of open conflicts keeps a history sound.
LEMMA ResolveIsSound ==
    ASSUME NEW h \in History, Sound(h), NEW command \in Commands,
           command.kind = "resolve", Servable(h, command)
    PROVE  Sound(Serve(h, command))
<1> DEFINE more == Serve(h, command).records
           chosen == ToSet(command.conflicts)
           next == Serve(h, command).conflicts
<1>1. /\ h.records \in Seq(Record) /\ h.conflicts \in Seq(ConflictEntry)
      /\ Len(h.records) \in Nat /\ DOMAIN h.records = 1..Len(h.records)
  BY LenProperties DEF History
<1>2. /\ ConflictsCaptured(h.records, h.conflicts)
      /\ ResolvesThePast(h.records)
      /\ AllSettledByOne(h.records, h.conflicts)
  BY DEF Sound
<1>3. Grows(h.records, more, chosen)
  <2> DEFINE merged == Merged(command)
             marker == Marker(command)
  <2>1. /\ merged \in Seq(Record) /\ \A i \in DOMAIN merged : merged[i].resolves = {}
        /\ marker \in Record /\ marker.resolves = chosen
    BY ResolutionRecords
  <2>2. more = (h.records \o merged) \o <<marker>>
    BY ServeResolveShape
  <2> HIDE DEF merged, marker, more, chosen
  <2>3. Grows(h.records, (h.records \o merged) \o <<marker>>, marker.resolves)
    BY <1>1, <2>1, ConcatGrows
  <2> QED
    BY <2>1, <2>2, <2>3
<1>4. next = Settling(h.conflicts, chosen, Len(more))
  BY ServeResolveShape
<1>5. ASSUME NEW s \in chosen
      PROVE  \E n \in DOMAIN h.conflicts :
                h.conflicts[n].sequence = s /\ h.conflicts[n].status = "unresolved"
  BY DEF Servable, Open
<1> HIDE DEF more, chosen, next
<1>6. ASSUME NEW s \in chosen
      PROVE  s \in DOMAIN h.records /\ Resolvers(h.records, s) = {}
  BY <1>2, <1>5, ZenonT(60) DEF ConflictsCaptured, AllSettledByOne, SettledByOne
<1>7. ConflictsCaptured(more, h.conflicts) /\ ResolvesThePast(more)
  <2>1. chosen \subseteq DOMAIN h.records
    BY <1>6
  <2> QED
    BY <1>2, <1>3, <2>1, CapturedGrows, PastGrows
<1>8. DOMAIN next = DOMAIN h.conflicts
  BY <1>4 DEF Settling
<1>9. ASSUME NEW n \in DOMAIN h.conflicts
      PROVE  /\ next[n].sequence = h.conflicts[n].sequence
             /\ SettledByOne(more, next[n])
  <2> DEFINE old == h.conflicts[n]
             s == old.sequence
  <2>0. old \in ConflictEntry
    BY <1>1, LenProperties, ElementOfSeq
  <2>1. next[n] = IF s \in chosen
                  THEN [old EXCEPT !.status = "resolved", !.resolvedBy = Len(more)]
                  ELSE old
    BY <1>4 DEF Settling
  <2>2. SettledByOne(h.records, old)
    BY <1>2 DEF AllSettledByOne
  <2> HIDE DEF old
  <2>3. Resolvers(more, s) = Resolvers(h.records, s) \cup (IF s \in chosen THEN {Len(more)} ELSE {})
    BY <1>3, ResolversGrow
  <2>4. CASE s \in chosen
    <3>1. /\ next[n].sequence = s /\ next[n].status = "resolved"
          /\ next[n].resolvedBy = Len(more)
      BY <2>0, <2>1, <2>4 DEF ConflictEntry
    <3>2. Resolvers(more, s) = {Len(more)}
      BY <1>6, <2>3, <2>4
    <3> QED
      BY <3>1, <3>2 DEF SettledByOne, old
  <2>5. CASE s \notin chosen
    <3>1. next[n] = old /\ Resolvers(more, s) = Resolvers(h.records, s)
      BY <2>1, <2>3, <2>5
    <3> QED
      BY <2>2, <3>1 DEF SettledByOne, old
  <2> QED
    BY <2>4, <2>5
<1>10. ConflictsCaptured(more, next)
  BY <1>7, <1>8, <1>9 DEF ConflictsCaptured
<1>11. AllSettledByOne(more, next)
  BY <1>8, <1>9 DEF AllSettledByOne
<1> QED
  BY <1>7, <1>10, <1>11 DEF Sound, more, next

\* Serving keeps a history sound: write and resolution together.
LEMMA ServeIsSound ==
    ASSUME NEW h \in History, Sound(h), NEW command \in Commands, Servable(h, command)
    PROVE  Sound(Serve(h, command))
  BY CommandTypes, WriteIsSound, ResolveIsSound

-----------------------------------------------------------------------------
(* The journal.                                                            *)

\* The history of the first n requests.
After(requests, n) == Rehydrate(JournalCommands(SubSeq(requests, 1, n)))

\* The commands of a journal, entry by entry.
LEMMA CommandsOfJournal ==
    ASSUME NEW requests \in Seq(Requests)
    PROVE  /\ JournalCommands(requests) \in Seq(Commands)
           /\ Len(JournalCommands(requests)) = Len(requests)
           /\ DOMAIN JournalCommands(requests) = DOMAIN requests
           /\ DOMAIN requests = 1..Len(requests)
           /\ Len(requests) \in Nat
           /\ \A i \in DOMAIN requests :
                /\ requests[i] \in Requests
                /\ requests[i].command \in Commands
                /\ JournalCommands(requests)[i] = requests[i].command
<1> DEFINE n == Len(requests)
<1>1. n \in Nat /\ DOMAIN requests = 1..n
  BY LenProperties
<1>2. ASSUME NEW i \in 1..n
      PROVE  requests[i] \in Requests /\ requests[i].command \in Commands
  <2>1. requests[i] \in Requests
    BY <1>1, ElementOfSeq
  <2> QED
    BY <2>1 DEF Requests
<1> HIDE DEF n
<1>3. JournalCommands(requests) \in [1..n -> Commands]
  BY <1>1, <1>2 DEF JournalCommands
<1>4. /\ JournalCommands(requests) \in Seq(Commands)
      /\ Len(JournalCommands(requests)) = n
      /\ DOMAIN JournalCommands(requests) = 1..n
  BY <1>1, <1>3, FunctionIsSeq
<1>5. \A i \in 1..n : JournalCommands(requests)[i] = requests[i].command
  BY <1>1 DEF JournalCommands
<1> QED
  BY <1>1, <1>2, <1>4, <1>5 DEF n

\* The commands of a longer journal,
LEMMA CommandsOfAppend ==
    ASSUME NEW requests \in Seq(Requests), NEW request \in Requests
    PROVE  JournalCommands(Append(requests, request))
                = Append(JournalCommands(requests), request.command)
<1> DEFINE more == Append(requests, request)
           n == Len(requests)
           left == JournalCommands(more)
           right == Append(JournalCommands(requests), request.command)
<1>1. request.command \in Commands
  BY DEF Requests
<1>2. /\ more \in Seq(Requests) /\ Len(more) = n + 1
      /\ \A i \in 1..n : more[i] = requests[i]
      /\ more[n + 1] = request
      /\ n \in Nat
  BY LenProperties, AppendProperties
<1> HIDE DEF more
<1>3. /\ left \in Seq(Commands) /\ Len(left) = n + 1
      /\ \A i \in 1..(n + 1) : left[i] = more[i].command
  BY <1>2, CommandsOfJournal
<1>4. /\ JournalCommands(requests) \in Seq(Commands)
      /\ Len(JournalCommands(requests)) = n
      /\ \A i \in 1..n : JournalCommands(requests)[i] = requests[i].command
  BY CommandsOfJournal
<1>5. /\ right \in Seq(Commands) /\ Len(right) = n + 1
      /\ \A i \in 1..n : right[i] = JournalCommands(requests)[i]
      /\ right[n + 1] = request.command
  BY <1>1, <1>4, AppendProperties
<1> HIDE DEF left, right, n
<1>6. \A i \in 1..(n + 1) : left[i] = right[i]
  <2>1. \A i \in 1..(n + 1) : i \in 1..n \/ i = n + 1
    BY <1>2
  <2> QED
    BY <1>2, <1>3, <1>4, <1>5, <2>1
<1>7. left = right
  BY <1>3, <1>5, <1>6, SeqEqual
<1> QED
  BY <1>7 DEF left, right, more

\* and of a prefix.
LEMMA CommandsOfPrefix ==
    ASSUME NEW requests \in Seq(Requests), NEW k \in 0..Len(requests)
    PROVE  /\ JournalCommands(SubSeq(requests, 1, k))
                    = SubSeq(JournalCommands(requests), 1, k)
           /\ SubSeq(requests, 1, k) \in Seq(Requests)
<1> DEFINE n == Len(requests)
           prefix == SubSeq(requests, 1, k)
           commands == JournalCommands(requests)
           left == JournalCommands(prefix)
           right == SubSeq(commands, 1, k)
<1>1. /\ prefix \in Seq(Requests) /\ Len(prefix) = k
      /\ \A i \in 1..k : prefix[i] = requests[i]
  BY PrefixSteps
<1>2. /\ commands \in Seq(Commands) /\ Len(commands) = n /\ n \in Nat
      /\ DOMAIN requests = 1..n
      /\ \A i \in 1..n : commands[i] = requests[i].command
  BY CommandsOfJournal
<1>3. k \in Nat /\ k <= n
  BY <1>2
<1> HIDE DEF n, prefix, commands
<1>4. /\ left \in Seq(Commands) /\ Len(left) = k /\ DOMAIN prefix = 1..k
      /\ \A i \in 1..k : left[i] = prefix[i].command
  BY <1>1, CommandsOfJournal
<1>5. /\ right \in Seq(Commands) /\ Len(right) = k
      /\ \A i \in 1..k : right[i] = commands[i]
  <2>1. k \in 0..Len(commands)
    BY <1>2, <1>3
  <2> QED
    BY <1>2, <2>1, PrefixSteps
<1> HIDE DEF left, right
<1>6. \A i \in 1..k : left[i] = right[i]
  BY <1>1, <1>2, <1>3, <1>4, <1>5
<1>7. left = right
  BY <1>4, <1>5, <1>6, SeqEqual
<1> QED
  BY <1>1, <1>7 DEF left, right, prefix, commands

\* The histories of the prefixes of a journal.
LEMMA AfterType ==
    ASSUME NEW requests \in Seq(Requests), NEW k \in 0..Len(requests)
    PROVE  /\ After(requests, k) \in History
           /\ After(requests, k) = Rehydrate(SubSeq(JournalCommands(requests), 1, k))
<1> DEFINE commands == JournalCommands(SubSeq(requests, 1, k))
<1>1. commands \in Seq(Commands) /\ commands = SubSeq(JournalCommands(requests), 1, k)
  BY CommandsOfPrefix, CommandsOfJournal
<1> HIDE DEF commands
<1>2. Rehydrate(commands) \in History
  BY <1>1, RehydrateType
<1> QED
  BY <1>1, <1>2 DEF After, commands

\* The empty prefix leaves the empty history, the whole journal the rebuilt one,
\* and one more request changes none of the prefixes there were.
LEMMA AfterSteps ==
    ASSUME NEW requests \in Seq(Requests), NEW request \in Requests
    PROVE  /\ After(requests, 0) = EmptyHistory
           /\ After(requests, Len(requests)) = Rehydrate(JournalCommands(requests))
           /\ \A k \in 0..Len(requests) :
                /\ After(requests, k) \in History
                /\ After(Append(requests, request), k) = After(requests, k)
           /\ After(Append(requests, request), Len(requests) + 1)
                = Serve(Rehydrate(JournalCommands(requests)), request.command)
           /\ Rehydrate(JournalCommands(Append(requests, request)))
                = Serve(Rehydrate(JournalCommands(requests)), request.command)
<1> DEFINE commands == JournalCommands(requests)
           more == Append(requests, request)
           n == Len(requests)
<1>1. /\ commands \in Seq(Commands) /\ Len(commands) = n /\ n \in Nat
      /\ request.command \in Commands
  BY CommandsOfJournal DEF Requests
<1>2. /\ more \in Seq(Requests) /\ Len(more) = n + 1
      /\ more = requests \o <<request>>
      /\ JournalCommands(more) = Append(commands, request.command)
  BY AppendProperties, AppendIsConcat, CommandsOfAppend
<1>3. After(requests, 0) = EmptyHistory
  <2> DEFINE none == SubSeq(requests, 1, 0)
  <2>1. none = <<>>
    BY PrefixSteps
  <2>2. none \in Seq(Requests) /\ Len(none) = 0
    BY <2>1, EmptySeq
  <2> HIDE DEF none
  <2>3. JournalCommands(none) \in Seq(Commands) /\ Len(JournalCommands(none)) = 0
    BY <2>2, CommandsOfJournal
  <2>4. JournalCommands(none) = <<>>
    BY <2>3, EmptySeq
  <2> QED
    BY <2>4, RehydrateNothing DEF After, none
<1>4. /\ SubSeq(requests, 1, n) = requests
      /\ SubSeq(more, 1, n + 1) = more
  <2>1. SubSeq(more, 1, Len(more)) = more /\ SubSeq(requests, 1, Len(requests)) = requests
    <3> HIDE DEF more
    <3> QED
      BY <1>2, PrefixSteps
  <2> HIDE DEF more
  <2> QED
    BY <1>2, <2>1
<1>5. Rehydrate(JournalCommands(more)) = Serve(Rehydrate(commands), request.command)
  <2> HIDE DEF commands
  <2>1. Rehydrate(Append(commands, request.command)) = Serve(Rehydrate(commands), request.command)
    BY <1>1, RehydrateSteps
  <2> QED
    BY <1>2, <2>1
<1>6. ASSUME NEW k \in 0..n
      PROVE  After(more, k) = After(requests, k)
  <2>1. <<request>> \in Seq(Requests)
    OBVIOUS
  <2> DEFINE one == <<request>>
  <2> HIDE DEF one, more
  <2>2. \A i \in 0..Len(requests) : SubSeq(requests \o one, 1, i) = SubSeq(requests, 1, i)
    BY <2>1, PrefixOfConcat DEF one
  <2>3. SubSeq(more, 1, k) = SubSeq(requests, 1, k)
    BY <1>2, <2>2 DEF one
  <2> QED
    BY <2>3 DEF After
<1>7. \A k \in 0..n : After(requests, k) \in History
  BY AfterType
<1>8. After(requests, n) = Rehydrate(commands)
  BY <1>4 DEF After
<1>9. After(more, n + 1) = Serve(Rehydrate(commands), request.command)
  <2> HIDE DEF more, commands
  <2> QED
    BY <1>4, <1>5 DEF After
<1> QED
  BY <1>3, <1>5, <1>6, <1>7, <1>8, <1>9

-----------------------------------------------------------------------------
(* The inductive invariant.  A call whose transaction is open holds the     *)
(* write lock and its client mutation has no answer; one that ran holds     *)
(* what the journal's next entry will yield; one that committed is an       *)
(* entry of the journal.  An answer is stored for exactly the client        *)
(* mutations of the journal, with the outcome they had when they were       *)
(* served.                                                                  *)

AnsweredAt(requests, n, request, outcome) ==
    /\ n \in DOMAIN requests
    /\ requests[n] = request
    /\ outcome = Outcome(After(requests, n - 1), request.command)

HoldsLock(call, c, lock, stored) ==
    call.step \in {"begun", "ran"} =>
        /\ lock = c
        /\ call.request \in Requests /\ call.process \in Processes
        /\ stored[Identity(call.request.command)] = NoAnswer

RanNext(call, requests) ==
    call.step = "ran" =>
        LET base == Rehydrate(JournalCommands(requests))
        IN  /\ Servable(base, call.request.command)
            /\ call.fresh = Serve(base, call.request.command)
            /\ call.outcome = Outcome(base, call.request.command)

IsEntry(call, requests) ==
    call.step = "committed" =>
        /\ call.request \in Requests /\ call.process \in Processes
        /\ \E n \in DOMAIN requests :
            /\ AnsweredAt(requests, n, call.request, call.outcome)
            /\ call.fresh = After(requests, n)

CallIsSound(call, c, lock, stored, requests) ==
    /\ call \in CallState
    /\ HoldsLock(call, c, lock, stored)
    /\ RanNext(call, requests)
    /\ IsEntry(call, requests)

CallsAreSound ==
    \A c \in Calls : CallIsSound(calls[c], c, writer, idempotency, journal)

IsStored(answer, id, requests) ==
    answer # NoAnswer =>
        /\ Identity(answer.request.command) = id
        /\ \E n \in DOMAIN requests :
            AnsweredAt(requests, n, answer.request, answer.outcome)

AnswersAreStored ==
    /\ \A id \in Identities : IsStored(idempotency[id], id, journal)
    /\ \A n \in DOMAIN journal : idempotency[Identity(journal[n].command)] # NoAnswer

TablesAreProjection == tables = Projection(Rebuilt) /\ Sound(Rebuilt)

ReadsPrefix(h, requests) == \E n \in 0..Len(requests) : h = After(requests, n)

ReadsHistory == \A p \in Processes : authority[p] # Down => ReadsPrefix(authority[p], journal)

IInv ==
    /\ TypeOK
    /\ CallsAreSound
    /\ AnswersAreStored
    /\ TablesAreProjection
    /\ ReadsHistory

\* The empty database and its processes satisfy the invariant.
LEMMA InitInv == Init => IInv
<1> SUFFICES ASSUME Init PROVE IInv
  OBVIOUS
<1> USE DEF Init
<1>1. journal \in Seq(Requests) /\ Len(journal) = 0 /\ DOMAIN journal = {} /\ 0 \in 0..Len(journal)
  <2>1. journal \in Seq(Requests) /\ Len(journal) = 0
    BY EmptySeq
  <2> QED
    BY <2>1, LenProperties
<1>2. Rebuilt = EmptyHistory /\ After(journal, 0) = EmptyHistory
  <2>1. JournalCommands(journal) = <<>>
    <3>1. JournalCommands(journal) \in Seq(Commands) /\ Len(JournalCommands(journal)) = 0
      BY <1>1, CommandsOfJournal
    <3> QED
      BY <3>1, EmptySeq
  <2>2. SubSeq(journal, 1, 0) = journal
    BY <1>1, PrefixSteps
  <2> QED
    BY <2>1, <2>2, RehydrateNothing DEF Rebuilt, After
<1>3. IdleCall \in CallState
  BY EmptyIsHistory DEF IdleCall, CallState
<1>4. TypeOK
  <2>1. ProjectionTyped(tables)
    BY EmptyIsHistory, ProjectionType
  <2>2. calls \in [Calls -> CallState]
    BY <1>3
  <2>3. authority \in [Processes -> History \cup {Down}]
    BY EmptyIsHistory
  <2>4. idempotency \in [Identities -> StoredAnswer \cup {NoAnswer}]
    BY DEF Init
  <2> QED
    BY <1>1, <2>1, <2>2, <2>3, <2>4 DEF TypeOK, ProjectionTyped
<1>5. CallsAreSound
  <2>1. IdleCall.step = "idle"
    BY DEF IdleCall
  <2> QED
    BY <1>3, <2>1 DEF CallsAreSound, CallIsSound, HoldsLock, RanNext, IsEntry
<1>6. AnswersAreStored
  BY <1>1 DEF AnswersAreStored, IsStored
<1>7. TablesAreProjection
  BY <1>2, EmptyIsSound DEF TablesAreProjection
<1>8. ReadsHistory
  BY <1>1, <1>2 DEF ReadsHistory, ReadsPrefix
<1> QED
  BY <1>4, <1>5, <1>6, <1>7, <1>8 DEF IInv

\* What the invariant says of the journal and of one call.
LEMMA InvFacts ==
    ASSUME IInv, NEW c \in Calls
    PROVE  /\ journal \in Seq(Requests)
           /\ Rebuilt \in History
           /\ Rebuilt = Rehydrate(JournalCommands(journal))
           /\ calls[c] \in CallState
           /\ calls[c].step \in {"begun", "ran", "committed"} =>
                /\ calls[c].request \in Requests
                /\ calls[c].request.command \in Commands
                /\ Identity(calls[c].request.command) \in Identities
                /\ calls[c].process \in Processes
           /\ calls[c].step \in {"begun", "ran"} => writer = c
<1>1. journal \in Seq(Requests)
  BY DEF IInv, TypeOK
<1>2. Rebuilt \in History
  BY <1>1, CommandsOfJournal, RehydrateType DEF Rebuilt
<1>3. CallIsSound(calls[c], c, writer, idempotency, journal)
  BY DEF IInv, CallsAreSound
<1>4. calls[c].step \in {"begun", "ran", "committed"} =>
        calls[c].request \in Requests /\ calls[c].process \in Processes
  BY <1>3 DEF CallIsSound, HoldsLock, IsEntry
<1>5. ASSUME NEW request \in Requests
      PROVE  request.command \in Commands /\ Identity(request.command) \in Identities
  BY DEF Requests, Identities
<1> QED
  BY <1>1, <1>2, <1>3, <1>4, <1>5 DEF CallIsSound, HoldsLock, Rebuilt

\* A call that is not under way asks nothing of the rest of the state.
LEMMA RestingCall ==
    ASSUME NEW call \in CallState, call.step \in {"idle", "mismatch", "constraint"},
           NEW c, NEW lock, NEW stored, NEW requests
    PROVE  CallIsSound(call, c, lock, stored, requests)
  BY DEF CallIsSound, HoldsLock, RanNext, IsEntry

\* A call that is idle or refused is typed.
LEMMA RestingCalls ==
    /\ IdleCall \in CallState /\ IdleCall.step = "idle"
    /\ \A step \in {"mismatch", "constraint"}, request \in Requests :
        LET call == [IdleCall EXCEPT !.step = step, !.request = request]
        IN  call \in CallState /\ call.step = step
  BY EmptyIsHistory DEF IdleCall, CallState

\* Calls other than the one whose transaction is open do not notice its end.
LEMMA LockIsFree ==
    ASSUME NEW call, NEW d, NEW lock, NEW stored, NEW requests, NEW other,
           CallIsSound(call, d, lock, stored, requests), lock # d
    PROVE  CallIsSound(call, d, other, stored, requests)
  BY DEF CallIsSound, HoldsLock, RanNext, IsEntry

\* A step that leaves the tables of the database alone.
LEMMA QuietStep ==
    ASSUME IInv, UNCHANGED <<journal, idempotency, tables>>,
           writer' \in Calls \cup {None},
           authority' \in [Processes -> History \cup {Down}],
           calls' \in [Calls -> CallState],
           answers' \subseteq [command: Commands, outcome: Outcomes],
           \A c \in Calls : CallIsSound(calls'[c], c, writer', idempotency, journal),
           \A p \in Processes : authority'[p] # Down => ReadsPrefix(authority'[p], journal)
    PROVE  IInv'
<1>1. TypeOK'
  BY DEF IInv, TypeOK
<1>2. CallsAreSound'
  BY DEF CallsAreSound
<1>3. AnswersAreStored'
  BY DEF IInv, AnswersAreStored
<1>4. TablesAreProjection'
  BY DEF IInv, TablesAreProjection, Rebuilt
<1>5. ReadsHistory'
  BY DEF ReadsHistory
<1> QED
  BY <1>1, <1>2, <1>3, <1>4, <1>5 DEF IInv

-----------------------------------------------------------------------------
(* The steps of the calls and of the processes keep the invariant.          *)

\* An answer that is stored, or installed, has the type of an answer.
LEMMA AnswersTyped ==
    ASSUME IInv, NEW request \in Requests, NEW outcome \in Outcomes,
           Answers(request, outcome)
    PROVE  answers' \subseteq [command: Commands, outcome: Outcomes]
  BY DEF Answers, Requests, IInv, TypeOK

\* A call whose mutation has an answer already.
LEMMA RepeatPreserves ==
    ASSUME IInv, NEW c \in Calls, NEW p \in Processes, NEW request \in Requests,
           Repeat(c, p, request)
    PROVE  IInv'
<1> DEFINE prior == idempotency[Identity(request.command)]
<1>1. /\ calls \in [Calls -> CallState] /\ writer \in Calls \cup {None}
      /\ authority \in [Processes -> History \cup {Down}]
      /\ answers \subseteq [command: Commands, outcome: Outcomes]
      /\ \A d \in Calls : CallIsSound(calls[d], d, writer, idempotency, journal)
      /\ \A q \in Processes : authority[q] # Down => ReadsPrefix(authority[q], journal)
  BY DEF IInv, TypeOK, CallsAreSound, ReadsHistory
<1>2. UNCHANGED <<journal, idempotency, tables, writer, authority>>
  BY DEF Repeat
<1>3. PICK call \in CallState : /\ call.step \in {"idle", "mismatch", "constraint"}
                                /\ calls' = [calls EXCEPT ![c] = call]
  BY RestingCalls DEF Repeat, Ends, Refuse
<1>4. calls' \in [Calls -> CallState]
  BY <1>1, <1>3
<1>5. ASSUME NEW d \in Calls
      PROVE  CallIsSound(calls'[d], d, writer', idempotency, journal)
  <2>1. CASE d = c
    <3>1. calls'[d] = call
      BY <1>1, <1>3, <2>1
    <3> QED
      BY <1>3, <3>1, RestingCall
  <2>2. CASE d # c
    <3>1. calls'[d] = calls[d]
      BY <1>1, <1>3, <2>2
    <3> QED
      BY <1>1, <1>2, <3>1
  <2> QED
    BY <2>1, <2>2
<1>6. answers' \subseteq [command: Commands, outcome: Outcomes]
  <2>1. CASE answers' = answers
    BY <1>1, <2>1
  <2>2. CASE prior.request = request /\ Answers(request, prior.outcome)
    <3>1. Identity(request.command) \in Identities
      BY DEF Requests, Identities
    <3>2. prior \in StoredAnswer
      BY <3>1 DEF IInv, TypeOK, Repeat
    <3>3. prior.outcome \in Outcomes
      BY <3>2 DEF StoredAnswer
    <3> QED
      BY <2>2, <3>3, AnswersTyped
  <2> QED
    BY <2>1, <2>2 DEF Repeat
<1> QED
  BY <1>1, <1>2, <1>4, <1>5, <1>6, QuietStep

\* A call opens the write transaction.
LEMMA BeginPreserves ==
    ASSUME IInv, NEW c \in Calls, NEW p \in Processes, NEW request \in Requests,
           Begin(c, p, request)
    PROVE  IInv'
<1> DEFINE call == [IdleCall EXCEPT !.step = "begun", !.process = p, !.request = request]
<1>1. /\ calls \in [Calls -> CallState] /\ writer = None /\ None \notin Calls
      /\ authority \in [Processes -> History \cup {Down}]
      /\ answers \subseteq [command: Commands, outcome: Outcomes]
      /\ \A d \in Calls : CallIsSound(calls[d], d, writer, idempotency, journal)
      /\ \A q \in Processes : authority[q] # Down => ReadsPrefix(authority[q], journal)
  BY LibsqlHistoryAssumption DEF IInv, TypeOK, CallsAreSound, ReadsHistory, Begin, Issued
<1>2. /\ UNCHANGED <<journal, idempotency, tables, authority, answers>>
      /\ writer' = c
      /\ calls' = [calls EXCEPT ![c] = call]
      /\ idempotency[Identity(request.command)] = NoAnswer
  BY DEF Begin
<1>3. /\ call \in CallState /\ call.step = "begun" /\ call.request = request
      /\ call.process = p
  BY EmptyIsHistory DEF IdleCall, CallState, Pending
<1> HIDE DEF call
<1>4. calls' \in [Calls -> CallState]
  BY <1>1, <1>2, <1>3
<1>5. ASSUME NEW d \in Calls
      PROVE  CallIsSound(calls'[d], d, writer', idempotency, journal)
  <2>1. CASE d = c
    <3>1. calls'[d] = call
      BY <1>1, <1>2, <2>1
    <3> QED
      BY <1>2, <1>3, <2>1, <3>1 DEF CallIsSound, HoldsLock, RanNext, IsEntry
  <2>2. CASE d # c
    <3>1. calls'[d] = calls[d]
      BY <1>1, <1>2, <2>2
    <3>2. CallIsSound(calls[d], d, writer, idempotency, journal) /\ writer # d
      BY <1>1
    <3>3. CallIsSound(calls[d], d, writer', idempotency, journal)
      BY <3>2, LockIsFree
    <3> QED
      BY <3>1, <3>3
  <2> QED
    BY <2>1, <2>2
<1>6. /\ writer' \in Calls \cup {None} /\ authority' = authority
      /\ answers' \subseteq [command: Commands, outcome: Outcomes]
  BY <1>1, <1>2
<1> QED
  BY <1>1, <1>2, <1>4, <1>5, <1>6, QuietStep

\* A call rebuilds the authority from the journal and serves its command.
LEMMA RunPreserves ==
    ASSUME IInv, NEW c \in Calls, Run(c)
    PROVE  IInv'
<1> DEFINE request == calls[c].request
           outcome == Outcome(Rebuilt, request.command)
           fresh == Serve(Rebuilt, request.command)
           ready == [calls[c] EXCEPT !.step = "ran", !.fresh = fresh, !.outcome = outcome]
<1>1. /\ calls \in [Calls -> CallState] /\ writer = c /\ None \notin Calls
      /\ authority \in [Processes -> History \cup {Down}]
      /\ answers \subseteq [command: Commands, outcome: Outcomes]
      /\ \A d \in Calls : CallIsSound(calls[d], d, writer, idempotency, journal)
      /\ \A q \in Processes : authority[q] # Down => ReadsPrefix(authority[q], journal)
      /\ calls[c].step = "begun"
  BY LibsqlHistoryAssumption, InvFacts DEF IInv, TypeOK, CallsAreSound, ReadsHistory, Run
<1>2. /\ request \in Requests /\ request.command \in Commands /\ calls[c] \in CallState
      /\ Rebuilt \in History
      /\ Rebuilt = Rehydrate(JournalCommands(journal))
  BY <1>1, InvFacts
<1>3. UNCHANGED <<journal, idempotency, tables, authority, answers>>
  BY DEF Run, Rollback, Ready
<1>4. ASSUME NEW call \in CallState, call.step \in {"idle", "mismatch", "constraint"},
             calls' = [calls EXCEPT ![c] = call], writer' = None
      PROVE  IInv'
  <2>1. calls' \in [Calls -> CallState]
    BY <1>1, <1>4
  <2>2. ASSUME NEW d \in Calls
        PROVE  CallIsSound(calls'[d], d, writer', idempotency, journal)
    <3>1. CASE d = c
      <4>1. calls'[d] = call
        BY <1>1, <1>4, <3>1
      <4> QED
        BY <1>4, <4>1, RestingCall
    <3>2. CASE d # c
      <4>1. calls'[d] = calls[d]
        BY <1>1, <1>4, <3>2
      <4>2. CallIsSound(calls[d], d, writer, idempotency, journal) /\ writer # d
        BY <1>1, <3>2
      <4>3. CallIsSound(calls[d], d, writer', idempotency, journal)
        BY <4>2, LockIsFree
      <4> QED
        BY <4>1, <4>3
    <3> QED
      BY <3>1, <3>2
  <2>3. /\ writer' \in Calls \cup {None} /\ authority' = authority
        /\ answers' \subseteq [command: Commands, outcome: Outcomes]
    BY <1>1, <1>3, <1>4
  <2> QED
    BY <1>1, <1>3, <2>1, <2>2, <2>3, QuietStep
<1>5. CASE ~Servable(Rebuilt, request.command)
  <2>1. Ends(c) /\ Rollback(c)
    BY <1>5 DEF Run
  <2> QED
    BY <1>4, <2>1, RestingCalls DEF Ends, Rollback
<1>6. CASE Servable(Rebuilt, request.command) /\ ~Storable(Projection(fresh))
  <2>1. Refuse(c, "constraint", request) /\ Rollback(c)
    BY <1>6 DEF Run
  <2>2. \E call \in CallState : /\ call.step \in {"idle", "mismatch", "constraint"}
                                /\ calls' = [calls EXCEPT ![c] = call]
    BY <1>2, <2>1, RestingCalls DEF Refuse
  <2> QED
    BY <1>4, <2>1, <2>2 DEF Rollback
<1>7. CASE Servable(Rebuilt, request.command) /\ Storable(Projection(fresh))
  <2>1. Ready(c, fresh, outcome)
    BY <1>7 DEF Run
  <2>2. calls' = [calls EXCEPT ![c] = ready] /\ writer' = writer
    BY <1>1, <2>1 DEF Ready
  <2>3. fresh \in History /\ outcome \in Outcomes
    BY <1>2, ServeIsClosed, OutcomeType DEF Serves
  <2>4. /\ ready \in CallState /\ ready.step = "ran" /\ ready.fresh = fresh
        /\ ready.outcome = outcome /\ ready.request = request
        /\ ready.process = calls[c].process
    <3> HIDE DEF fresh, outcome
    <3> QED
      BY <1>2, <2>3 DEF CallState, Pending
  <2> HIDE DEF ready
  <2>5. calls' \in [Calls -> CallState]
    BY <1>1, <2>2, <2>4
  <2>6. ASSUME NEW d \in Calls
        PROVE  CallIsSound(calls'[d], d, writer', idempotency, journal)
    <3>1. CASE d = c
      <4>1. calls'[d] = ready
        BY <1>1, <2>2, <3>1
      <4>2. HoldsLock(calls[c], c, writer, idempotency)
        BY <1>1 DEF CallIsSound
      <4>3. HoldsLock(ready, c, writer, idempotency)
        BY <1>1, <2>4, <4>2 DEF HoldsLock
      <4>4. RanNext(ready, journal)
        BY <1>2, <1>7, <2>4 DEF RanNext
      <4>5. IsEntry(ready, journal)
        BY <2>4 DEF IsEntry
      <4> QED
        BY <2>2, <2>4, <3>1, <4>1, <4>3, <4>4, <4>5 DEF CallIsSound
    <3>2. CASE d # c
      <4>1. calls'[d] = calls[d]
        BY <1>1, <2>2, <3>2
      <4> QED
        BY <1>1, <2>2, <4>1
    <3> QED
      BY <3>1, <3>2
  <2>7. /\ writer' \in Calls \cup {None} /\ authority' = authority
        /\ answers' \subseteq [command: Commands, outcome: Outcomes]
    BY <1>1, <1>3, <2>2
  <2> QED
    BY <1>1, <1>3, <2>5, <2>6, <2>7, QuietStep
<1> QED
  BY <1>5, <1>6, <1>7

\* An entry of the journal keeps its number and its answer.
LEMMA EntriesStay ==
    ASSUME NEW requests \in Seq(Requests), NEW last \in Requests,
           NEW n \in DOMAIN requests, NEW request, NEW outcome,
           AnsweredAt(requests, n, request, outcome)
    PROVE  /\ n \in DOMAIN Append(requests, last)
           /\ AnsweredAt(Append(requests, last), n, request, outcome)
           /\ After(Append(requests, last), n) = After(requests, n)
<1> DEFINE more == Append(requests, last)
           j == n - 1
<1>1. /\ more \in Seq(Requests) /\ Len(more) = Len(requests) + 1
      /\ \A i \in 1..Len(requests) : more[i] = requests[i]
      /\ Len(requests) \in Nat /\ n \in 1..Len(requests)
  BY LenProperties, AppendProperties
<1> HIDE DEF more
<1>2. DOMAIN more = 1..(Len(requests) + 1)
  BY <1>1, LenProperties
<1>3. j \in 0..Len(requests) /\ n \in 0..Len(requests)
  BY <1>1
<1> HIDE DEF j
<1>4. /\ After(more, j) = After(requests, j)
      /\ After(more, n) = After(requests, n)
  BY <1>3, AfterSteps DEF more
<1>5. n \in DOMAIN more /\ more[n] = requests[n]
  BY <1>1, <1>2
<1> QED
  BY <1>4, <1>5 DEF AnsweredAt, j, more

\* The last entry is answered with what it yields.
LEMMA LastEntry ==
    ASSUME NEW requests \in Seq(Requests), NEW request \in Requests
    PROVE  LET base == Rehydrate(JournalCommands(requests))
               more == Append(requests, request)
               n == Len(requests) + 1
           IN  /\ n \in DOMAIN more
               /\ AnsweredAt(more, n, request, Outcome(base, request.command))
               /\ After(more, n) = Serve(base, request.command)
               /\ Rehydrate(JournalCommands(more)) = Serve(base, request.command)
<1> DEFINE more == Append(requests, request)
           base == Rehydrate(JournalCommands(requests))
           l == Len(requests)
           n == l + 1
<1>1. /\ more \in Seq(Requests) /\ Len(more) = l + 1 /\ more[l + 1] = request /\ l \in Nat
  BY LenProperties, AppendProperties
<1>2. /\ After(requests, l) = base
      /\ \A k \in 0..l : After(more, k) = After(requests, k)
      /\ After(more, l + 1) = Serve(base, request.command)
      /\ Rehydrate(JournalCommands(more)) = Serve(base, request.command)
  BY AfterSteps
<1> HIDE DEF more, base, l
<1>3. n - 1 = l /\ l \in 0..l /\ n \in DOMAIN more
  BY <1>1, LenProperties
<1>4. After(more, n - 1) = base
  BY <1>2, <1>3
<1>5. /\ After(more, n) = Serve(base, request.command) /\ more[n] = request
  BY <1>1, <1>2
<1>6. AnsweredAt(more, n, request, Outcome(base, request.command))
  BY <1>3, <1>4, <1>5 DEF AnsweredAt
<1> QED
  BY <1>2, <1>3, <1>5, <1>6 DEF more, base, l

\* Histories processes read from are still there when the journal has grown.
LEMMA PrefixesStay ==
    ASSUME NEW requests \in Seq(Requests), NEW last \in Requests, NEW h,
           ReadsPrefix(h, requests)
    PROVE  ReadsPrefix(h, Append(requests, last))
<1> DEFINE more == Append(requests, last)
<1>1. /\ Len(requests) \in Nat /\ Len(more) = Len(requests) + 1
  BY LenProperties, AppendProperties
<1>2. \A k \in 0..Len(requests) : After(more, k) = After(requests, k)
  BY AfterSteps
<1> HIDE DEF more
<1>3. PICK n \in 0..Len(requests) : h = After(requests, n)
  BY DEF ReadsPrefix
<1>4. n \in 0..Len(more) /\ h = After(more, n)
  BY <1>1, <1>2, <1>3
<1> QED
  BY <1>4 DEF ReadsPrefix, more

\* A call commits its journal entry, its answer and the tables.
LEMMA CommitPreserves ==
    ASSUME IInv, NEW c \in Calls, Commit(c)
    PROVE  IInv'
<1> DEFINE request == calls[c].request
           id == Identity(request.command)
           base == Rehydrate(JournalCommands(journal))
           fresh == calls[c].fresh
           outcome == calls[c].outcome
           done == [calls[c] EXCEPT !.step = "committed"]
           more == Append(journal, request)
           last == Len(journal) + 1
           stored == [stored |-> TRUE, request |-> request, outcome |-> outcome]
<1>1. /\ calls \in [Calls -> CallState] /\ writer = c /\ None \notin Calls
      /\ authority \in [Processes -> History \cup {Down}]
      /\ answers \subseteq [command: Commands, outcome: Outcomes]
      /\ idempotency \in [Identities -> StoredAnswer \cup {NoAnswer}]
      /\ \A d \in Calls : CallIsSound(calls[d], d, writer, idempotency, journal)
      /\ calls[c].step = "ran"
  BY LibsqlHistoryAssumption, InvFacts DEF IInv, TypeOK, CallsAreSound, Commit
<1>2. /\ request \in Requests /\ request.command \in Commands /\ calls[c] \in CallState
      /\ journal \in Seq(Requests) /\ Rebuilt \in History /\ Rebuilt = base
      /\ id \in Identities
      /\ calls[c].process \in Processes
  BY <1>1, InvFacts
<1>3. /\ Servable(base, request.command)
      /\ fresh = Serve(base, request.command)
      /\ outcome = Outcome(base, request.command)
  BY <1>1 DEF CallIsSound, RanNext
<1>4. /\ journal' = more
      /\ idempotency' = [idempotency EXCEPT ![id] = stored]
      /\ tables' = Projection(fresh)
      /\ writer' = None
      /\ calls' = [calls EXCEPT ![c] = done]
      /\ authority' = authority /\ answers' = answers
  BY <1>1 DEF Commit
<1>5. fresh \in History /\ outcome \in Outcomes
  BY <1>2, <1>3, ServeIsClosed, OutcomeType DEF Serves
<1>6. /\ done \in CallState /\ done.step = "committed" /\ done.request = request
      /\ done.process = calls[c].process /\ done.fresh = fresh /\ done.outcome = outcome
  BY <1>2 DEF CallState, Pending
<1>7. stored \in StoredAnswer /\ stored # NoAnswer
      /\ stored.request = request /\ stored.outcome = outcome
  BY <1>2, <1>5 DEF StoredAnswer, NoAnswer
<1>8. /\ last \in DOMAIN more
      /\ AnsweredAt(more, last, request, outcome)
      /\ After(more, last) = fresh
      /\ Rehydrate(JournalCommands(more)) = fresh
  BY <1>2, <1>3, LastEntry
<1>9. /\ more \in Seq(Requests) /\ more[last] = request
      /\ DOMAIN more = 1..last /\ DOMAIN journal = 1..Len(journal) /\ Len(journal) \in Nat
      /\ \A i \in 1..Len(journal) : more[i] = journal[i]
  BY <1>2, LenProperties, AppendProperties
<1>10. ASSUME NEW n \in DOMAIN journal, NEW r, NEW o, AnsweredAt(journal, n, r, o)
       PROVE  /\ n \in DOMAIN more /\ AnsweredAt(more, n, r, o)
              /\ After(more, n) = After(journal, n)
  BY <1>2, <1>10, EntriesStay
<1>11. \A h : ReadsPrefix(h, journal) => ReadsPrefix(h, more)
  BY <1>2, PrefixesStay
<1> HIDE DEF request, id, base, fresh, outcome, done, more, last, stored
<1>12. TypeOK'
  <2>1. ProjectionTyped(tables')
    BY <1>4, <1>5, ProjectionType
  <2>2. calls' \in [Calls -> CallState]
    BY <1>1, <1>4, <1>6
  <2>3. idempotency' \in [Identities -> StoredAnswer \cup {NoAnswer}]
    BY <1>1, <1>4, <1>7
  <2>4. writer' \in Calls \cup {None} /\ journal' \in Seq(Requests)
    BY <1>4, <1>9
  <2> QED
    BY <1>1, <1>4, <2>1, <2>2, <2>3, <2>4 DEF TypeOK, ProjectionTyped
<1>13. CallsAreSound'
  <2>1. ASSUME NEW d \in Calls
        PROVE  CallIsSound(calls'[d], d, writer', idempotency', journal')
    <3>1. CASE d = c
      <4>1. calls'[d] = done
        BY <1>1, <1>4, <3>1
      <4>2. IsEntry(done, more)
        BY <1>2, <1>6, <1>8 DEF IsEntry
      <4>3. CallIsSound(done, d, writer', idempotency', more)
        BY <1>6, <4>2 DEF CallIsSound, HoldsLock, RanNext
      <4> QED
        BY <1>4, <4>1, <4>3
    <3>2. CASE d # c
      <4>1. calls'[d] = calls[d]
        BY <1>1, <1>4, <3>2
      <4>2. CallIsSound(calls[d], d, writer, idempotency, journal) /\ writer # d
        BY <1>1, <3>2
      <4>3. calls[d].step \notin {"begun", "ran"}
        BY <4>2 DEF CallIsSound, HoldsLock
      <4>4. IsEntry(calls[d], more)
        BY <1>10, <4>2 DEF CallIsSound, IsEntry
      <4>5. CallIsSound(calls[d], d, writer', idempotency', more)
        BY <4>2, <4>3, <4>4 DEF CallIsSound, HoldsLock, RanNext
      <4> QED
        BY <1>4, <4>1, <4>5
    <3> QED
      BY <3>1, <3>2
  <2> QED
    BY <2>1 DEF CallsAreSound
<1>14. AnswersAreStored'
  <2>1. ASSUME NEW i \in Identities
        PROVE  IsStored(idempotency'[i], i, journal')
    <3>1. CASE i = id
      <4>1. idempotency'[i] = stored
        BY <1>1, <1>4, <3>1
      <4>2. Identity(stored.request.command) = i
        BY <1>7, <3>1 DEF id
      <4> QED
        BY <1>4, <1>7, <1>8, <4>1, <4>2 DEF IsStored
    <3>2. CASE i # id
      <4>1. idempotency'[i] = idempotency[i]
        BY <1>1, <1>2, <1>4, <3>2
      <4>2. IsStored(idempotency[i], i, journal)
        BY DEF IInv, AnswersAreStored
      <4> QED
        BY <1>4, <1>10, <4>1, <4>2 DEF IsStored
    <3> QED
      BY <3>1, <3>2
  <2>2. ASSUME NEW n \in DOMAIN more
        PROVE  idempotency'[Identity(more[n].command)] # NoAnswer
    <3>1. n \in 1..Len(journal) \/ n = last
      BY <1>9 DEF last
    <3>2. CASE n = last
      <4>1. Identity(more[n].command) = id
        BY <1>9, <3>2 DEF id
      <4> QED
        BY <1>1, <1>2, <1>4, <1>7, <4>1
    <3>3. CASE n \in 1..Len(journal)
      <4> DEFINE i == Identity(journal[n].command)
      <4>1. more[n] = journal[n] /\ idempotency[i] # NoAnswer
        BY <1>9, <3>3 DEF IInv, AnswersAreStored
      <4>2. i \in Identities
        <5>1. journal[n].command \in Commands
          BY <1>2, <1>9, <3>3, CommandsOfJournal
        <5> QED
          BY <5>1 DEF Identities
      <4> HIDE DEF i
      <4>3. idempotency'[i] # NoAnswer
        BY <1>1, <1>4, <1>7, <4>1, <4>2
      <4> QED
        BY <4>1, <4>3 DEF i
    <3> QED
      BY <3>1, <3>2, <3>3
  <2> QED
    BY <1>4, <2>1, <2>2 DEF AnswersAreStored
<1>15. TablesAreProjection'
  <2>1. Rebuilt' = fresh
    BY <1>4, <1>8 DEF Rebuilt
  <2>2. Sound(base)
    BY <1>2 DEF IInv, TablesAreProjection
  <2>3. Sound(fresh)
    BY <1>2, <1>3, <2>2, ServeIsSound
  <2> QED
    BY <1>4, <2>1, <2>3 DEF TablesAreProjection
<1>16. ReadsHistory'
  BY <1>4, <1>11 DEF IInv, ReadsHistory
<1> QED
  BY <1>12, <1>13, <1>14, <1>15, <1>16 DEF IInv

\* A process installs what its call has rebuilt, and answers.
LEMMA InstallPreserves ==
    ASSUME IInv, NEW c \in Calls, Install(c)
    PROVE  IInv'
<1> DEFINE call == calls[c]
<1>1. /\ calls \in [Calls -> CallState] /\ writer \in Calls \cup {None}
      /\ authority \in [Processes -> History \cup {Down}]
      /\ answers \subseteq [command: Commands, outcome: Outcomes]
      /\ \A d \in Calls : CallIsSound(calls[d], d, writer, idempotency, journal)
      /\ \A q \in Processes : authority[q] # Down => ReadsPrefix(authority[q], journal)
      /\ call.step = "committed"
  BY DEF IInv, TypeOK, CallsAreSound, ReadsHistory, Install
<1>2. /\ UNCHANGED <<journal, idempotency, tables, writer>>
      /\ authority' = [authority EXCEPT ![call.process] = call.fresh]
      /\ calls' = [calls EXCEPT ![c] = IdleCall]
      /\ Answers(call.request, call.outcome)
  BY DEF Install, Ends
<1>3. PICK n \in DOMAIN journal : /\ AnsweredAt(journal, n, call.request, call.outcome)
                                  /\ call.fresh = After(journal, n)
  BY <1>1 DEF CallIsSound, IsEntry
<1>4. /\ call.request \in Requests /\ call.process \in Processes /\ call \in CallState
      /\ journal \in Seq(Requests)
  BY <1>1, InvFacts
<1>5. n \in 0..Len(journal) /\ n - 1 \in 0..Len(journal)
  BY <1>4, LenProperties
<1>6. call.fresh \in History /\ call.outcome \in Outcomes
  <2> DEFINE j == n - 1
  <2>1. After(journal, n) \in History /\ After(journal, j) \in History
    BY <1>4, <1>5, AfterType
  <2>2. call.request.command \in Commands
    BY <1>4 DEF Requests
  <2> HIDE DEF j
  <2>3. Outcome(After(journal, j), call.request.command) \in Outcomes
    BY <2>1, <2>2, OutcomeType
  <2> QED
    BY <1>3, <2>1, <2>3 DEF AnsweredAt, j
<1>7. authority' \in [Processes -> History \cup {Down}]
  BY <1>1, <1>2, <1>6
<1>8. ASSUME NEW p \in Processes, authority'[p] # Down
      PROVE  ReadsPrefix(authority'[p], journal)
  <2>1. CASE p = call.process
    <3>1. authority'[p] = After(journal, n)
      BY <1>1, <1>2, <1>3, <2>1
    <3> QED
      BY <1>5, <3>1 DEF ReadsPrefix
  <2>2. CASE p # call.process
    <3>1. authority'[p] = authority[p]
      BY <1>1, <1>2, <2>2
    <3> QED
      BY <1>1, <1>8, <3>1
  <2> QED
    BY <2>1, <2>2
<1>9. calls' \in [Calls -> CallState]
  BY <1>1, <1>2, RestingCalls
<1>10. ASSUME NEW d \in Calls
       PROVE  CallIsSound(calls'[d], d, writer', idempotency, journal)
  <2>1. CASE d = c
    <3>1. calls'[d] = IdleCall
      BY <1>1, <1>2, <2>1
    <3> QED
      BY <3>1, RestingCall, RestingCalls
  <2>2. CASE d # c
    <3>1. calls'[d] = calls[d]
      BY <1>1, <1>2, <2>2
    <3> QED
      BY <1>1, <1>2, <3>1
  <2> QED
    BY <2>1, <2>2
<1>11. answers' \subseteq [command: Commands, outcome: Outcomes]
  BY <1>2, <1>4, <1>6, AnswersTyped
<1> QED
  BY <1>1, <1>2, <1>7, <1>8, <1>9, <1>10, <1>11, QuietStep

\* A process dies: an open transaction is rolled back.
LEMMA CrashPreserves ==
    ASSUME IInv, NEW p \in Processes, Crash(p)
    PROVE  IInv'
<1>1. /\ calls \in [Calls -> CallState] /\ writer \in Calls \cup {None}
      /\ authority \in [Processes -> History \cup {Down}]
      /\ answers \subseteq [command: Commands, outcome: Outcomes]
      /\ \A d \in Calls : CallIsSound(calls[d], d, writer, idempotency, journal)
      /\ \A q \in Processes : authority[q] # Down => ReadsPrefix(authority[q], journal)
  BY DEF IInv, TypeOK, CallsAreSound, ReadsHistory
<1>2. /\ UNCHANGED <<journal, idempotency, tables, answers>>
      /\ authority' = [authority EXCEPT ![p] = Down]
      /\ calls' = [c \in Calls |-> IF calls[c].process = p THEN IdleCall ELSE calls[c]]
      /\ writer' = IF writer \in Calls /\ calls[writer].process = p THEN None ELSE writer
  BY DEF Crash
<1>3. /\ authority' \in [Processes -> History \cup {Down}]
      /\ writer' \in Calls \cup {None}
      /\ calls' \in [Calls -> CallState]
      /\ answers' \subseteq [command: Commands, outcome: Outcomes]
  BY <1>1, <1>2, RestingCalls
<1>4. ASSUME NEW q \in Processes, authority'[q] # Down
      PROVE  ReadsPrefix(authority'[q], journal)
  BY <1>1, <1>2, <1>4
<1>5. ASSUME NEW d \in Calls
      PROVE  CallIsSound(calls'[d], d, writer', idempotency, journal)
  <2>1. CASE calls[d].process = p
    <3>1. calls'[d] = IdleCall
      BY <1>2, <2>1
    <3> QED
      BY <3>1, RestingCall, RestingCalls
  <2>2. CASE calls[d].process # p /\ writer = d
    <3>1. calls'[d] = calls[d] /\ writer' = writer
      BY <1>2, <2>2
    <3> QED
      BY <1>1, <3>1
  <2>3. CASE calls[d].process # p /\ writer # d
    <3>1. calls'[d] = calls[d]
      BY <1>2, <2>3
    <3>2. CallIsSound(calls[d], d, writer', idempotency, journal)
      BY <1>1, <2>3, LockIsFree
    <3> QED
      BY <3>1, <3>2
  <2> QED
    BY <2>1, <2>2, <2>3
<1> QED
  BY <1>2, <1>3, <1>4, <1>5, QuietStep

\* A process starts and reads the journal.
LEMMA RestartPreserves ==
    ASSUME IInv, NEW p \in Processes, Restart(p)
    PROVE  IInv'
<1>1. /\ calls \in [Calls -> CallState] /\ writer \in Calls \cup {None}
      /\ authority \in [Processes -> History \cup {Down}]
      /\ answers \subseteq [command: Commands, outcome: Outcomes]
      /\ \A d \in Calls : CallIsSound(calls[d], d, writer, idempotency, journal)
      /\ \A q \in Processes : authority[q] # Down => ReadsPrefix(authority[q], journal)
      /\ journal \in Seq(Requests)
  BY DEF IInv, TypeOK, CallsAreSound, ReadsHistory
<1>2. /\ UNCHANGED <<journal, idempotency, tables, writer, calls, answers>>
      /\ authority' = [authority EXCEPT ![p] = Rebuilt]
  BY DEF Restart
<1>3. SubSeq(journal, 1, Len(journal)) = journal /\ Len(journal) \in 0..Len(journal)
  BY <1>1, PrefixSteps, LenProperties
<1>4. Rebuilt = After(journal, Len(journal)) /\ Rebuilt \in History
  BY <1>1, <1>3, CommandsOfJournal, RehydrateType DEF Rebuilt, After
<1>5. authority' \in [Processes -> History \cup {Down}]
  BY <1>1, <1>2, <1>4
<1>6. ASSUME NEW q \in Processes, authority'[q] # Down
      PROVE  ReadsPrefix(authority'[q], journal)
  <2>1. CASE q = p
    BY <1>1, <1>2, <1>3, <1>4, <2>1 DEF ReadsPrefix
  <2>2. CASE q # p
    BY <1>1, <1>2, <1>6, <2>2
  <2> QED
    BY <2>1, <2>2
<1>7. \A d \in Calls : CallIsSound(calls'[d], d, writer', idempotency, journal)
  BY <1>1, <1>2
<1> QED
  BY <1>1, <1>2, <1>5, <1>6, <1>7, QuietStep

\* The invariant is inductive: one case for each action.
LEMMA NextPreserves == IInv /\ [Next]_vars => IInv'
<1> SUFFICES ASSUME IInv, [Next]_vars PROVE IInv'
  OBVIOUS
<1>1. CASE UNCHANGED vars
  <2>1. /\ writer \in Calls \cup {None} /\ calls \in [Calls -> CallState]
        /\ authority \in [Processes -> History \cup {Down}]
        /\ answers \subseteq [command: Commands, outcome: Outcomes]
        /\ \A d \in Calls : CallIsSound(calls[d], d, writer, idempotency, journal)
        /\ \A q \in Processes : authority[q] # Down => ReadsPrefix(authority[q], journal)
    BY DEF IInv, TypeOK, CallsAreSound, ReadsHistory
  <2>2. UNCHANGED <<journal, idempotency, tables, writer, authority, calls, answers>>
    BY <1>1 DEF vars
  <2> QED
    BY <2>1, <2>2, QuietStep
<1>2. CASE \E c \in Calls, p \in Processes, request \in Requests :
                Repeat(c, p, request) \/ Begin(c, p, request)
  BY <1>2, RepeatPreserves, BeginPreserves
<1>3. CASE \E c \in Calls : Proceed(c)
  BY <1>3, RunPreserves, CommitPreserves, InstallPreserves DEF Proceed
<1>4. CASE \E p \in Processes : Crash(p) \/ Restart(p)
  BY <1>4, CrashPreserves, RestartPreserves
<1> QED
  BY <1>1, <1>2, <1>3, <1>4 DEF Next

-----------------------------------------------------------------------------
(* What holds in every reachable state.                                    *)

\* It holds of every behaviour,
LEMMA InvHolds == Init /\ [][Next]_vars => []IInv
  BY InitInv, NextPreserves, PTL

\* in particular of the fair ones.
LEMMA SpecSteps == Spec => Init /\ [][Next]_vars
  BY DEF Spec

\* The variables keep their types: what the journal, the idempotency table, the
\* reporting tables and the processes hold (history-authority.ts).
THEOREM TypeCorrect == Spec => []TypeOK
<1>1. IInv => TypeOK
  BY DEF IInv
<1> QED
  BY <1>1, InvHolds, SpecSteps, PTL

\* Every process that runs reads from the replay of a prefix of the journal,
\* never from work that was not committed, however the calls of the processes
\* interleave and whichever of them die.
THEOREM ServesOnlyHistory == Spec => []ServesHistory
<1>1. IInv => ServesHistory
  BY DEF IInv, ReadsHistory, ReadsPrefix, ServesHistory, After
<1> QED
  BY <1>1, InvHolds, SpecSteps, PTL

\* What is written for a sound history is consistent.
RowsConsistent(rows, h) ==
    /\ rows.commits = h.records
    /\ rows.head = 0 <=> \A i \in DOMAIN rows.commits : i \notin Accepted(h)
    /\ rows.head # 0 =>
        /\ rows.head \in Accepted(h)
        /\ \A i \in Accepted(h) : i <= rows.head
    /\ \A n \in DOMAIN rows.conflicts :
        LET conflict == rows.conflicts[n]
            resolving == {r \in rows.resolutions : r[2] = conflict.sequence}
        IN  /\ rows.commits[conflict.sequence].status = "conflicted"
            /\ IF conflict.status = "resolved"
               THEN resolving = {<<conflict.resolvedBy, conflict.sequence>>}
               ELSE resolving = {}

\* The rows of a sound history agree with it.
LEMMA ProjectionConsistent ==
    ASSUME NEW h \in History, Sound(h)
    PROVE  RowsConsistent(Projection(h), h)
<1> DEFINE rows == Projection(h)
           head == Max(Accepted(h) \cup {0})
           accepted == Accepted(h)
<1>1. /\ rows.commits = h.records /\ rows.conflicts = h.conflicts /\ rows.head = head
      /\ rows.resolutions = UNION {{<<i, s>> : s \in h.records[i].resolves} :
                                    i \in DOMAIN h.records}
  BY DEF Projection
<1>2. IsHead(head, accepted)
  BY LatestAccepted
<1>3. accepted \subseteq DOMAIN h.records /\ 0 \notin accepted
  BY LenProperties DEF Accepted, History
<1>4. ASSUME NEW n \in DOMAIN h.conflicts,
             NEW resolving,
             resolving = {r \in rows.resolutions : r[2] = h.conflicts[n].sequence}
      PROVE  /\ h.records[h.conflicts[n].sequence].status = "conflicted"
             /\ IF h.conflicts[n].status = "resolved"
                THEN resolving = {<<h.conflicts[n].resolvedBy, h.conflicts[n].sequence>>}
                ELSE resolving = {}
  <2> DEFINE entry == h.conflicts[n]
             s == entry.sequence
  <2>1. h.records[s].status = "conflicted"
    BY DEF Sound, ConflictsCaptured
  <2>2. resolving = {<<i, s>> : i \in Resolvers(h.records, s)}
    <3>1. ASSUME NEW r \in resolving
          PROVE  r \in {<<i, s>> : i \in Resolvers(h.records, s)}
      <4>1. r \in rows.resolutions /\ r[2] = s
        BY <1>4
      <4>2. PICK i \in DOMAIN h.records : r \in {<<i, x>> : x \in h.records[i].resolves}
        BY <1>1, <4>1
      <4>3. PICK x \in h.records[i].resolves : r = <<i, x>>
        BY <4>2
      <4>4. x = s
        BY <4>1, <4>3
      <4> QED
        BY <4>3, <4>4 DEF Resolvers
    <3>2. ASSUME NEW i \in Resolvers(h.records, s)
          PROVE  <<i, s>> \in resolving
      <4>1. i \in DOMAIN h.records /\ s \in h.records[i].resolves
        BY DEF Resolvers
      <4>2. <<i, s>> \in rows.resolutions
        BY <1>1, <4>1
      <4> QED
        BY <1>4, <4>2
    <3> QED
      BY <3>1, <3>2
  <2>3. SettledByOne(h.records, entry)
    BY DEF Sound, AllSettledByOne
  <2> HIDE DEF entry
  <2>4. CASE entry.status = "resolved"
    <3>1. Resolvers(h.records, s) = {entry.resolvedBy}
      BY <2>3, <2>4 DEF SettledByOne
    <3>2. resolving = {<<entry.resolvedBy, s>>}
      BY <2>2, <3>1
    <3> QED
      BY <2>1, <2>4, <3>2 DEF entry
  <2>5. CASE entry.status # "resolved"
    <3>1. Resolvers(h.records, s) = {}
      BY <2>3, <2>5 DEF SettledByOne
    <3>2. resolving = {}
      BY <2>2, <3>1
    <3> QED
      BY <2>1, <2>5, <3>2 DEF entry
  <2> QED
    BY <2>4, <2>5
<1> HIDE DEF rows, head, accepted
<1>5. head = 0 <=> \A i \in DOMAIN h.records : i \notin accepted
  <2>1. CASE accepted = {}
    BY <1>2, <2>1 DEF IsHead
  <2>2. CASE accepted # {}
    <3>1. PICK i \in accepted : TRUE
      BY <2>2
    <3>2. i \in DOMAIN h.records /\ i \in Nat /\ i # 0 /\ i <= head
      BY <1>2, <1>3, <3>1, LenProperties DEF IsHead, History
    <3>3. head # 0
      BY <3>2
    <3> QED
      BY <3>1, <3>2, <3>3
  <2> QED
    BY <2>1, <2>2
<1>6. head # 0 => head \in accepted /\ \A i \in accepted : i <= head
  BY <1>2 DEF IsHead
<1>7. \A n \in DOMAIN rows.conflicts :
        LET conflict == rows.conflicts[n]
            resolving == {r \in rows.resolutions : r[2] = conflict.sequence}
        IN  /\ rows.commits[conflict.sequence].status = "conflicted"
            /\ IF conflict.status = "resolved"
               THEN resolving = {<<conflict.resolvedBy, conflict.sequence>>}
               ELSE resolving = {}
  <2> SUFFICES ASSUME NEW n \in DOMAIN rows.conflicts
               PROVE  LET conflict == rows.conflicts[n]
                          resolving == {r \in rows.resolutions : r[2] = conflict.sequence}
                      IN  /\ rows.commits[conflict.sequence].status = "conflicted"
                          /\ IF conflict.status = "resolved"
                             THEN resolving = {<<conflict.resolvedBy, conflict.sequence>>}
                             ELSE resolving = {}
    OBVIOUS
  <2> DEFINE resolving == {r \in rows.resolutions : r[2] = rows.conflicts[n].sequence}
  <2>1. resolving = {r \in rows.resolutions : r[2] = h.conflicts[n].sequence}
        /\ n \in DOMAIN h.conflicts
    BY <1>1
  <2> HIDE DEF resolving
  <2>2. /\ h.records[h.conflicts[n].sequence].status = "conflicted"
        /\ IF h.conflicts[n].status = "resolved"
           THEN resolving = {<<h.conflicts[n].resolvedBy, h.conflicts[n].sequence>>}
           ELSE resolving = {}
    BY <1>4, <2>1
  <2> QED
    BY <1>1, <2>2 DEF resolving
<1> QED
  BY <1>1, <1>5, <1>6, <1>7 DEF RowsConsistent, rows, head, accepted

\* The reporting tables agree with the journal and with one another in every
\* state: the head is the latest accepted commit, and a conflict is resolved
\* exactly when one row names it (persistProjection).
THEOREM TablesAreConsistent == Spec => []TablesConsistent
<1>1. IInv => TablesConsistent
  <2> SUFFICES ASSUME IInv PROVE TablesConsistent
    OBVIOUS
  <2>1. tables = Projection(Rebuilt) /\ Sound(Rebuilt)
    BY DEF IInv, TablesAreProjection
  <2>2. Rebuilt \in History
    BY CommandsOfJournal, RehydrateType DEF IInv, TypeOK, Rebuilt
  <2>3. RowsConsistent(tables, Rebuilt)
    BY <2>1, <2>2, ProjectionConsistent
  <2> QED
    BY <2>3 DEF RowsConsistent, TablesConsistent
<1> QED
  BY <1>1, InvHolds, SpecSteps, PTL

-----------------------------------------------------------------------------
(* The refinement.  A commit is the moment a command is served; telling a   *)
(* caller, at once or on a retry, is an answer; all else is invisible.      *)

\* The operators of the abstract specification are those of the concrete one.
LEMMA LogicalOperators ==
    ASSUME NEW h, NEW command, NEW commands
    PROVE  /\ Logical!Identity(command) = Identity(command)
           /\ Logical!Servable(h, command) = Servable(h, command)
           /\ Logical!Outcome(h, command) = Outcome(h, command)
           /\ Logical!Rehydrate(commands) = Rehydrate(commands)
<1>1. Logical!Identity(command) = Identity(command)
  BY DEF Logical!Identity, Identity
<1>2. Logical!Servable(h, command) = Servable(h, command)
  BY DEF Logical!Servable, Servable, Logical!Accepted, Accepted, Logical!Open, Open,
         Logical!ToSet, ToSet
<1>3. Logical!Outcome(h, command) = Outcome(h, command)
  BY DEF Logical!Outcome, Outcome,
         Logical!Serve, Serve, Logical!ServeWrite, ServeWrite, Logical!ServeResolve,
         ServeResolve, Logical!Touching, Touching, Logical!Repeats, Repeats,
         Logical!WriteRecord, WriteRecord, Logical!Merged, Merged, Logical!Marker, Marker,
         Logical!Accepted, Accepted, Logical!ToSet, ToSet, Logical!Min, Min
<1>4. Logical!Rehydrate(commands) = Rehydrate(commands)
  <2>1. Logical!Rehydrate(commands) = Logical!FoldLeft(Logical!Serve, EmptyHistory, commands)
    BY DEF Logical!Rehydrate, Logical!EmptyHistory, EmptyHistory
  <2>2. Logical!FoldLeft(Logical!Serve, EmptyHistory, commands)
            = Logical!FoldLeft(Serve, EmptyHistory, commands)
    BY Zenon
       DEF Logical!FoldLeft, Logical!MapThenFoldSet,
           Logical!Serve, Serve, Logical!ServeWrite, ServeWrite, Logical!ServeResolve,
           ServeResolve, Logical!Touching, Touching, Logical!Repeats, Repeats,
           Logical!WriteRecord, WriteRecord, Logical!Merged, Merged, Logical!Marker,
           Marker, Logical!Accepted, Accepted, Logical!ToSet, ToSet
  <2>3. Logical!FoldLeft(Serve, EmptyHistory, commands)
            = FoldLeft(Serve, EmptyHistory, commands)
    BY DEF Logical!FoldLeft, Logical!MapThenFoldSet, Logical!Max, Max,
           FoldLeft, MapThenFoldSet
  <2> QED
    BY <2>1, <2>2, <2>3 DEF Rehydrate
<1> QED
  BY <1>1, <1>2, <1>3, <1>4

\* An entry of the journal with the outcome it had is an answer of the logical
\* authority.
LEMMA EntryIsAnswer ==
    ASSUME IInv, NEW n \in DOMAIN journal, NEW request, NEW outcome,
           AnsweredAt(journal, n, request, outcome)
    PROVE  /\ n \in DOMAIN JournalCommands(journal)
           /\ Logical!AnswerTo(n) = [command |-> request.command, outcome |-> outcome]
<1> DEFINE j == n - 1
           commands == JournalCommands(journal)
<1>1. /\ journal \in Seq(Requests) /\ Len(journal) \in Nat /\ n \in 1..Len(journal)
      /\ DOMAIN commands = DOMAIN journal
      /\ commands[n] = request.command
  <2>1. journal \in Seq(Requests) /\ journal[n] = request
    BY DEF IInv, TypeOK, AnsweredAt
  <2> QED
    BY <2>1, CommandsOfJournal
<1>2. j \in 0..Len(journal)
  BY <1>1
<1>3. outcome = Outcome(After(journal, j), request.command)
  BY DEF AnsweredAt
<1> HIDE DEF j, commands
<1>4. After(journal, j) = Rehydrate(SubSeq(commands, 1, j))
  BY <1>1, <1>2, AfterType DEF commands
<1>5. Logical!Outcome(Logical!Rehydrate(SubSeq(commands, 1, j)), request.command) = outcome
  BY <1>3, <1>4, LogicalOperators
<1>6. Logical!AnswerTo(n) = [command |-> request.command, outcome |-> outcome]
  BY <1>1, <1>5 DEF Logical!AnswerTo, j, commands
<1> QED
  BY <1>1, <1>6 DEF commands

\* Telling a caller of an entry of the journal.
LEMMA AnswerIsLogical ==
    ASSUME IInv, NEW n \in DOMAIN journal, NEW request, NEW outcome,
           AnsweredAt(journal, n, request, outcome),
           Answers(request, outcome), UNCHANGED journal
    PROVE  Logical!Answer
<1>1. /\ n \in DOMAIN JournalCommands(journal)
      /\ Logical!AnswerTo(n) = [command |-> request.command, outcome |-> outcome]
  BY EntryIsAnswer
<1>2. answers' = answers \cup {Logical!AnswerTo(n)}
  BY <1>1 DEF Answers
<1>3. JournalCommands(journal)' = JournalCommands(journal)
  BY DEF JournalCommands
<1> QED
  BY <1>1, <1>2, <1>3 DEF Logical!Answer

\* A repeated answer is an answer of the logical authority.
LEMMA RepeatIsLogical ==
    ASSUME IInv, NEW c \in Calls, NEW p \in Processes, NEW request \in Requests,
           Repeat(c, p, request)
    PROVE  Logical!Answer \/ UNCHANGED <<journal, answers>>
<1> DEFINE id == Identity(request.command)
           prior == idempotency[id]
<1>1. CASE UNCHANGED answers
  BY <1>1 DEF Repeat
<1>2. CASE prior.request = request /\ Answers(request, prior.outcome)
  <2>1. id \in Identities
    BY DEF Requests, Identities
  <2>2. IsStored(prior, id, journal) /\ prior # NoAnswer
    BY <2>1 DEF IInv, AnswersAreStored, Repeat
  <2> HIDE DEF id, prior
  <2>3. PICK n \in DOMAIN journal : AnsweredAt(journal, n, request, prior.outcome)
    BY <1>2, <2>2 DEF IsStored
  <2>4. UNCHANGED journal
    BY DEF Repeat
  <2> QED
    BY <1>2, <2>3, <2>4, AnswerIsLogical
<1> QED
  BY <1>1, <1>2 DEF Repeat

\* So is the answer of a call that has committed.
LEMMA InstallIsLogical ==
    ASSUME IInv, NEW c \in Calls, Install(c)
    PROVE  Logical!Answer
<1> DEFINE call == calls[c]
<1>1. CallIsSound(call, c, writer, idempotency, journal) /\ call.step = "committed"
  BY DEF IInv, CallsAreSound, Install
<1>2. Answers(call.request, call.outcome) /\ UNCHANGED journal
  BY DEF Install
<1> HIDE DEF call
<1>3. PICK n \in DOMAIN journal : AnsweredAt(journal, n, call.request, call.outcome)
  BY <1>1 DEF CallIsSound, IsEntry
<1> QED
  BY <1>2, <1>3, AnswerIsLogical

\* A commit serves its command in the logical authority.
LEMMA CommitIsLogical ==
    ASSUME IInv, NEW c \in Calls, Commit(c)
    PROVE  \E command \in Commands : Logical!ServeNext(command)
<1> DEFINE request == calls[c].request
           command == request.command
           commands == JournalCommands(journal)
<1>1. calls[c].step = "ran" /\ journal' = Append(journal, request) /\ UNCHANGED answers
  BY DEF Commit
<1>2. /\ request \in Requests /\ command \in Commands
      /\ journal \in Seq(Requests)
  BY <1>1, InvFacts
<1>3. CallIsSound(calls[c], c, writer, idempotency, journal)
  BY DEF IInv, CallsAreSound
<1>4. Servable(Rehydrate(commands), command)
  BY <1>1, <1>3 DEF CallIsSound, RanNext
<1>5. idempotency[Identity(command)] = NoAnswer
  BY <1>1, <1>3 DEF CallIsSound, HoldsLock
<1>6. DOMAIN commands = DOMAIN journal
      /\ \A i \in DOMAIN journal : commands[i] = journal[i].command
  BY <1>2, CommandsOfJournal
<1>7. JournalCommands(journal') = Append(commands, command)
  BY <1>1, <1>2, CommandsOfAppend
<1> HIDE DEF request, command, commands
<1>8. ASSUME NEW i \in DOMAIN commands
      PROVE  Logical!Identity(commands[i]) # Logical!Identity(command)
  <2>1. idempotency[Identity(journal[i].command)] # NoAnswer
    BY <1>6 DEF IInv, AnswersAreStored
  <2>2. Identity(commands[i]) # Identity(command)
    BY <1>5, <1>6, <2>1
  <2> QED
    BY <2>2, LogicalOperators
<1>9. Logical!Servable(Logical!Rehydrate(commands), command)
  BY <1>4, LogicalOperators
<1>10. Logical!ServeNext(command)
  BY <1>1, <1>7, <1>8, <1>9 DEF Logical!ServeNext, commands
<1> QED
  BY <1>2, <1>10

\* Every step is one of the logical authority or none.
LEMMA StepIsLogical ==
    IInv /\ [Next]_vars => [Logical!Next]_<<JournalCommands(journal), answers>>
<1> SUFFICES ASSUME IInv, [Next]_vars
             PROVE  Logical!Next \/ UNCHANGED <<JournalCommands(journal), answers>>
  BY DEF Logical!Next
<1>0. UNCHANGED <<journal, answers>> => UNCHANGED <<JournalCommands(journal), answers>>
  BY DEF JournalCommands
<1>1. CASE UNCHANGED vars
  BY <1>0, <1>1 DEF vars
<1>2. CASE \E c \in Calls, p \in Processes, request \in Requests :
                Repeat(c, p, request) \/ Begin(c, p, request)
  <2>1. ASSUME NEW c \in Calls, NEW p \in Processes, NEW request \in Requests,
               Begin(c, p, request)
        PROVE  UNCHANGED <<journal, answers>>
    BY <2>1 DEF Begin
  <2> QED
    BY <1>0, <1>2, <2>1, RepeatIsLogical DEF Logical!Next
<1>3. CASE \E c \in Calls : Proceed(c)
  <2>1. ASSUME NEW c \in Calls, Run(c)
        PROVE  UNCHANGED <<journal, answers>>
    BY <2>1 DEF Run, Rollback, Ready
  <2> QED
    BY <1>0, <1>3, <2>1, CommitIsLogical, InstallIsLogical DEF Logical!Next, Proceed
<1>4. CASE \E p \in Processes : Crash(p) \/ Restart(p)
  <2>1. ASSUME NEW p \in Processes, Crash(p) \/ Restart(p)
        PROVE  UNCHANGED <<journal, answers>>
    BY <2>1 DEF Crash, Restart
  <2> QED
    BY <1>0, <1>4, <2>1
<1> QED
  BY <1>1, <1>2, <1>3, <1>4 DEF Next

\* An empty journal is an authority that has served nothing.
LEMMA InitIsLogical == Init => Logical!Init
<1> SUFFICES ASSUME Init PROVE Logical!Init
  OBVIOUS
<1>1. journal \in Seq(Requests) /\ Len(journal) = 0 /\ answers = {}
  BY EmptySeq DEF Init
<1>2. JournalCommands(journal) \in Seq(Commands) /\ Len(JournalCommands(journal)) = 0
  BY <1>1, CommandsOfJournal
<1>3. JournalCommands(journal) = <<>>
  BY <1>2, EmptySeq
<1> QED
  BY <1>1, <1>3 DEF Logical!Init

\* The durable history implements the logical authority: whatever the number of
\* processes, calls, retries and crashes, callers see one authority that serves
\* each client mutation at most once and answers it the same way each time
\* (LibsqlHistoryAuthority behind its write transaction).
THEOREM ImplementsLogicalAuthority == Spec => LogicalSpec
<1>1. Init => Logical!Init
  BY InitIsLogical
<1>2. IInv /\ [Next]_vars => [Logical!Next]_<<JournalCommands(journal), answers>>
  BY StepIsLogical
<1> QED
  BY <1>1, <1>2, InvHolds, SpecSteps, PTL DEF LogicalSpec, Logical!Spec

=============================================================================
