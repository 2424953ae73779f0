---------------------------- MODULE LibsqlHistory ----------------------------
(***************************************************************************)
(* The durable cloud history (LibsqlHistoryAuthority, adapters/libsql/      *)
(* history-authority.ts).  Server processes share one database.  A call     *)
(* opens a write transaction, looks its client mutation up, rebuilds the    *)
(* authority from the journal, runs the command on it, stores request,      *)
(* answer and the reporting tables, commits, and only then makes the        *)
(* rebuilt authority the one its process reads from.                        *)
(*                                                                         *)
(* The statements of a transaction are one step up to its commit: nobody    *)
(* sees them before, and a crash undoes them all.  The row timestamps are   *)
(* left out.                                                               *)
(***************************************************************************)
EXTENDS HistoryReplay

CONSTANTS
    Processes,      \* server processes over the same database
    Authorizations, \* the permission decisions a request may carry
    Calls,          \* bound: the calls that can be under way at once
    Down            \* the authority of a process that is not running

ASSUME LibsqlHistoryAssumption == Down \notin History /\ None \notin Calls

Requests == [command: Commands, authorization: Authorizations]
Identities == {Identity(command) : command \in Commands}

VARIABLES
    journal,        \* history_request_journal
    idempotency,    \* history_idempotency
    tables,         \* history_commits, _conflicts, _resolutions, _branch_heads
    writer,         \* the call whose write transaction is open
    authority,      \* the authority each process reads from
    calls,
    answers         \* the answers callers have received

vars == <<journal, idempotency, tables, writer, authority, calls, answers>>

NoAnswer == [stored |-> FALSE]
StoredAnswer == [stored: {TRUE}, request: Requests, outcome: Outcomes]

\* A call that is under way, or the last of its slot that ended with one of the
\* two refusals of this layer.  One that finds another transaction open, or is
\* refused by the authority, leaves nothing behind.
Pending == {"begun", "ran", "committed"}
CallState ==
    [step: {"idle", "mismatch", "constraint"} \cup Pending,
     process: Processes \cup {None}, request: Requests \cup {None},
     fresh: History, outcome: Outcomes \cup {None}]

IdleCall == [step |-> "idle", process |-> None, request |-> None,
             fresh |-> EmptyHistory, outcome |-> None]

\* persistProjection: the rows the reporting tables hold for an authority.
\* Defect: the head is the last record, accepted or not.
ProjectionOfLast(h) ==
    [commits |-> h.records,
     conflicts |-> h.conflicts,
     resolutions |-> UNION {{<<i, s>> : s \in h.records[i].resolves} :
                            i \in DOMAIN h.records},
     head |-> Len(h.records)]

Projection(h) ==
    [commits |-> h.records,
     conflicts |-> h.conflicts,
     resolutions |-> UNION {{<<i, s>> : s \in h.records[i].resolves} :
                            i \in DOMAIN h.records},
     head |-> Max(Accepted(h) \cup {0})]

\* The keys of the tables: a client mutation names one commit of the branch, a
\* resolution commit one row of history_resolutions.
Storable(rows) ==
    /\ \A i, j \in DOMAIN rows.commits :
        /\ rows.commits[i].mutation = rows.commits[j].mutation
        /\ rows.commits[i].part = rows.commits[j].part
        => i = j
    /\ \A r, s \in rows.resolutions : r[1] = s[1] => r = s

JournalCommands(j) == [i \in DOMAIN j |-> j[i].command]

Rebuilt == Rehydrate(JournalCommands(journal))

TypeOK ==
    /\ journal \in Seq(Requests)
    /\ idempotency \in [Identities -> StoredAnswer \cup {NoAnswer}]
    /\ tables.commits \in Seq(Record) /\ tables.conflicts \in Seq(ConflictEntry)
    /\ tables.resolutions \subseteq Nat \X Nat /\ tables.head \in Nat
    /\ writer \in Calls \cup {None}
    /\ authority \in [Processes -> History \cup {Down}]
    /\ calls \in [Calls -> CallState]
    /\ answers \subseteq [command: Commands, outcome: Outcomes]

Init ==
    /\ journal = <<>>
    /\ idempotency = [id \in Identities |-> NoAnswer]
    /\ tables = Projection(EmptyHistory)
    /\ writer = None
    /\ authority = [p \in Processes |-> EmptyHistory]
    /\ calls = [c \in Calls |-> IdleCall]
    /\ answers = {}

-----------------------------------------------------------------------------
(* Calls.                                                                  *)


Ends(c) == calls' = [calls EXCEPT ![c] = IdleCall]

Refuse(c, step, request) ==
    calls' = [calls EXCEPT ![c] = [IdleCall EXCEPT !.step = step,
                                                   !.request = request]]

Answers(request, outcome) ==
    answers' = answers \cup {[command |-> request.command, outcome |-> outcome]}

Issued(c, p) ==
    /\ calls[c].step \notin Pending
    /\ authority[p] # Down
    /\ writer = None

\* The client mutation has an answer: the same request gets it again, another
\* is refused, and the transaction is rolled back.
Repeat(c, p, request) ==
    LET prior == idempotency[Identity(request.command)]
    IN  /\ Issued(c, p)
        /\ prior # NoAnswer
        /\ \/ /\ prior.request = request
              /\ Ends(c)
              /\ Answers(request, prior.outcome)
           \/ /\ prior.request # request
              /\ Refuse(c, "mismatch", request)
              /\ UNCHANGED answers
        /\ UNCHANGED <<journal, idempotency, tables, writer, authority>>

Begin(c, p, request) ==
    /\ Issued(c, p)
    /\ idempotency[Identity(request.command)] = NoAnswer
    /\ writer' = c
    /\ calls' = [calls EXCEPT ![c] =
        [IdleCall EXCEPT !.step = "begun", !.process = p, !.request = request]]
    /\ UNCHANGED <<journal, idempotency, tables, authority, answers>>

\* Defect: a statement that fails leaves the transaction open.
RollbackForgotten(c) ==
    UNCHANGED <<journal, idempotency, tables, writer, authority, answers>>

Rollback(c) ==
    /\ writer' = None
    /\ UNCHANGED <<journal, idempotency, tables, authority, answers>>

\* Defect: the process reads from the rebuilt authority before the commit.
ReadyInstalled(c, fresh, outcome) ==
    /\ calls' = [calls EXCEPT ![c] =
        [@ EXCEPT !.step = "ran", !.fresh = fresh, !.outcome = outcome]]
    /\ authority' = [authority EXCEPT ![calls[c].process] = fresh]
    /\ UNCHANGED <<journal, idempotency, tables, writer, answers>>

Ready(c, fresh, outcome) ==
    /\ calls' = [calls EXCEPT ![c] =
        [@ EXCEPT !.step = "ran", !.fresh = fresh, !.outcome = outcome]]
    /\ UNCHANGED <<journal, idempotency, tables, writer, authority, answers>>

\* The rebuilt authority throws, the tables refuse its rows, or all goes well
\* and the transaction is ready to commit.
Run(c) ==
    LET request == calls[c].request
    IN  /\ calls[c].step = "begun"
        /\ \E base \in {Rebuilt} :
            \/ /\ ~Servable(base, request.command)
               /\ Ends(c)
               /\ Rollback(c)
            \/ /\ Servable(base, request.command)
               /\ \E fresh \in {Serve(base, request.command)} :
                    \/ /\ ~Storable(Projection(fresh))
                       /\ Refuse(c, "constraint", request)
                       /\ Rollback(c)
                    \/ /\ Storable(Projection(fresh))
                       /\ Ready(c, fresh, Outcome(base, request.command))

\* Defect: the answer is not stored with the request.
CommitWithoutAnswer(c) ==
    /\ calls[c].step = "ran"
    /\ journal' = Append(journal, calls[c].request)
    /\ tables' = Projection(calls[c].fresh)
    /\ writer' = None
    /\ calls' = [calls EXCEPT ![c].step = "committed"]
    /\ UNCHANGED <<idempotency, authority, answers>>

Commit(c) ==
    LET request == calls[c].request
    IN  /\ calls[c].step = "ran"
        /\ journal' = Append(journal, request)
        /\ idempotency' = [idempotency EXCEPT ![Identity(request.command)] =
                [stored |-> TRUE, request |-> request,
                 outcome |-> calls[c].outcome]]
        /\ tables' = Projection(calls[c].fresh)
        /\ writer' = None
        /\ calls' = [calls EXCEPT ![c].step = "committed"]
        /\ UNCHANGED <<authority, answers>>

\* After the commit: the process reads from the rebuilt authority, and the
\* caller is told.
Install(c) ==
    LET request == calls[c].request
    IN  /\ calls[c].step = "committed"
        /\ authority' = [authority EXCEPT ![calls[c].process] = calls[c].fresh]
        /\ Answers(request, calls[c].outcome)
        /\ Ends(c)
        /\ UNCHANGED <<journal, idempotency, tables, writer>>

-----------------------------------------------------------------------------
(* Processes.                                                              *)

\* A process dies: its calls go unanswered, its open transaction is undone.
Crash(p) ==
    /\ authority[p] # Down
    /\ authority' = [authority EXCEPT ![p] = Down]
    /\ calls' = [c \in Calls |->
            IF calls[c].process = p THEN IdleCall ELSE calls[c]]
    /\ writer' = IF writer \in Calls /\ calls[writer].process = p THEN None ELSE writer
    /\ UNCHANGED <<journal, idempotency, tables, answers>>

\* initialize: a new process rebuilds the authority from the journal.
Restart(p) ==
    /\ authority[p] = Down
    /\ authority' = [authority EXCEPT ![p] = Rebuilt]
    /\ UNCHANGED <<journal, idempotency, tables, writer, calls, answers>>

-----------------------------------------------------------------------------
Proceed(c) == Run(c) \/ Commit(c) \/ Install(c)

Next ==
    \/ \E c \in Calls, p \in Processes, request \in Requests :
        \/ Repeat(c, p, request)
        \/ Begin(c, p, request)
    \/ \E c \in Calls : Proceed(c)
    \/ \E p \in Processes : Crash(p) \/ Restart(p)

\* A call whose process lives gets on: its statements return.
Fairness == \A c \in Calls : WF_vars(Proceed(c))

Spec == Init /\ [][Next]_vars /\ Fairness

-----------------------------------------------------------------------------
(* Correctness.                                                            *)

\* Every process reads from the replay of a prefix of the journal: possibly
\* stale, but never work that was not committed (this.authority = fresh).
ServesHistory ==
    \A p \in Processes : authority[p] # Down =>
        \E n \in 0..Len(journal) :
            authority[p] = Rehydrate(JournalCommands(SubSeq(journal, 1, n)))

\* The reporting tables agree with the journal and with one another: their
\* commits are its replay, the head is the latest accepted commit, and a
\* conflict is resolved exactly when one resolution row names it, whose
\* commit is accepted (persistProjection).
TablesConsistent ==
    /\ tables.commits = Rebuilt.records
    /\ tables.head = 0 <=> \A i \in DOMAIN tables.commits : i \notin Accepted(Rebuilt)
    /\ tables.head # 0 =>
        /\ tables.head \in Accepted(Rebuilt)
        /\ \A i \in Accepted(Rebuilt) : i <= tables.head
    /\ \A n \in DOMAIN tables.conflicts :
        LET conflict == tables.conflicts[n]
            rows == {r \in tables.resolutions : r[2] = conflict.sequence}
        IN  /\ tables.commits[conflict.sequence].status = "conflicted"
            /\ IF conflict.status = "resolved"
               THEN rows = {<<conflict.resolvedBy, conflict.sequence>>}
               ELSE rows = {}

\* The promise: callers, crashes, retries and several processes included, see
\* one authority that serves each client mutation at most once and answers it
\* the same way each time.
Logical == INSTANCE LogicalAuthority WITH served <- JournalCommands(journal)
LogicalSpec == Logical!Spec

\* No call keeps the database to itself: its transaction ends, by commit,
\* rollback or the death of its process.
WriterFinishes == \A c \in Calls : writer = c ~> writer # c

\* A resolution the authority can carry out is one the tables can hold.
ResolutionsStorable ==
    \A c \in Calls : calls[c].step = "constraint" =>
        calls[c].request.command.kind # "resolve"
=============================================================================
