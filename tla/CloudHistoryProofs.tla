------------------------- MODULE CloudHistoryProofs -------------------------
(***************************************************************************)
(* Proofs about CloudHistory for any branches, mutations and batches: the  *)
(* types of its state; that no accepted commit passed over an unseen       *)
(* commit with a common Conflict Key (NoSilentOverwrite); that the logs,   *)
(* the records, the requests and the outbox tell one story, that a         *)
(* mutation has one outcome, that a conflict keeps both sides and that it  *)
(* is resolved once.                                                       *)
(***************************************************************************)
EXTENDS CloudHistory, MemoryProofs

-----------------------------------------------------------------------------
(* The inductive invariant.                                                *)

\* Sequence numbers are positions in the list of records.
Numbered ==
    /\ sequence = Len(records)
    /\ \A i \in DOMAIN records : records[i].sequence = i
    /\ \A q \in DOMAIN acceptedRequests : acceptedRequests[q].sequence <= sequence

\* A conflict names records that exist.
ConflictsPointBack ==
    \A n \in DOMAIN conflicts :
        /\ conflicts[n].id \in DOMAIN records
        /\ conflicts[n].remote \subseteq DOMAIN records

\* The head of a branch is its last accepted record.
HeadIsLast ==
    \A b \in Branches :
        IF commits[b] = <<>> THEN AcceptedOn(b) = {}
        ELSE \E j \in AcceptedOn(b) :
                /\ records[j].id = commits[b][Len(commits[b])].id
                /\ \A i \in AcceptedOn(b) : i <= j

IInv == /\ TypeOK
        /\ Numbered
        /\ ConflictsPointBack
        /\ HeadIsLast
        /\ NoSilentOverwrite

\* The empty log satisfies the invariant.
LEMMA InitIInv == Init => IInv
<1> SUFFICES ASSUME Init PROVE IInv
  OBVIOUS
<1>1. TypeOK
  BY DEF Init, TypeOK
<1>2. Numbered
  BY DEF Init, Numbered
<1>3. ConflictsPointBack
  BY DEF Init, ConflictsPointBack
<1>4. HeadIsLast
  BY DEF Init, HeadIsLast, AcceptedOn
<1>5. NoSilentOverwrite
  BY DEF Init, NoSilentOverwrite
<1> QED
  BY <1>1, <1>2, <1>3, <1>4, <1>5 DEF IInv


-----------------------------------------------------------------------------
(* accept.                                                                 *)

\* Records for the commits new stand behind the old ones, numbered onwards
\* from the watermark.
RecordsAppended(b, n, new) ==
    /\ sequence' = sequence + n
    /\ Len(records) \in Nat
    /\ DOMAIN records = 1..Len(records)
    /\ DOMAIN records' = 1..(Len(records) + n)
    /\ Len(records') = Len(records) + n
    /\ \A i \in 1..Len(records) : records'[i] = records[i]
    /\ \A k \in 1..n : records'[Len(records) + k] =
         [sequence |-> sequence + k, branch |-> b, id |-> new[k].id,
          ops |-> new[k].ops, status |-> "accepted"]

\* Requests for them stand behind the old ones.
RequestsAppended(b, n, new, bases) ==
    /\ Len(acceptedRequests) \in Nat
    /\ DOMAIN acceptedRequests = 1..Len(acceptedRequests)
    /\ DOMAIN acceptedRequests' = 1..(Len(acceptedRequests) + n)
    /\ \A q \in 1..Len(acceptedRequests) :
         acceptedRequests'[q] = acceptedRequests[q]
    /\ \A k \in 1..n : acceptedRequests'[Len(acceptedRequests) + k] =
         [sequence |-> sequence + k, branch |-> b, id |-> new[k].id,
          ops |-> new[k].ops, base |-> bases[k]]

\* The state after accept has appended a list of commits.
LEMMA AcceptAppends ==
    ASSUME TypeOK, sequence = Len(records),
           NEW b \in Branches, NEW n \in Nat,
           NEW new \in [1..n -> Commit],
           NEW bases \in [1..n -> CommitId \cup {None}],
           Accept(b, new, bases)
    PROVE  /\ commits' \in [Branches -> Seq(Commit)]
           /\ sequence' \in Nat
           /\ records' \in Seq(CommitRecord)
           /\ acceptedRequests' \in Seq(AcceptedRequest)
           /\ outbox' \in Seq(OutboxEvent)
           /\ RecordsAppended(b, n, new)
           /\ RequestsAppended(b, n, new, bases)
<1>1. DOMAIN new = 1..n /\ Len(new) = n
  BY FunctionIsSeq
<1>2. sequence \in Nat
  BY DEF TypeOK
<1>3. \A k \in 1..n : /\ new[k].id \in CommitId
                      /\ new[k].ops \in Batch
                      /\ bases[k] \in CommitId \cup {None}
                      /\ sequence + k \in Nat
  BY <1>2 DEF Commit
<1> DEFINE newRecords == [i \in DOMAIN new |->
                [sequence |-> sequence + i, branch |-> b, id |-> new[i].id,
                 ops |-> new[i].ops, status |-> "accepted"]]
           newRequests == [i \in DOMAIN new |->
                [sequence |-> sequence + i, branch |-> b, id |-> new[i].id,
                 ops |-> new[i].ops, base |-> bases[i]]]
           newEvents == [i \in DOMAIN new |->
                [sequence |-> sequence + i, branch |-> b, commit |-> new[i].id,
                 kind |-> "commit_accepted"]]
<1>4. newRecords \in [1..n -> CommitRecord]
  BY <1>1, <1>3 DEF CommitRecord
<1>5. newRequests \in [1..n -> AcceptedRequest]
  BY <1>1, <1>3 DEF AcceptedRequest
<1>6. newEvents \in [1..n -> OutboxEvent]
  BY <1>1, <1>3 DEF OutboxEvent
<1>7. /\ records' = records \o newRecords
      /\ acceptedRequests' = acceptedRequests \o newRequests
      /\ outbox' = outbox \o newEvents
      /\ sequence' = sequence + n
      /\ commits' = [commits EXCEPT ![b] = @ \o new]
  BY <1>1 DEF Accept
<1>8. commits[b] \o new \in Seq(Commit)
  <2>1. commits[b] \in Seq(Commit)
    BY DEF TypeOK
  <2> QED
    BY <2>1, ExtendSeq
<1>9. /\ records \in Seq(CommitRecord)
      /\ acceptedRequests \in Seq(AcceptedRequest)
      /\ outbox \in Seq(OutboxEvent)
      /\ commits \in [Branches -> Seq(Commit)]
  BY DEF TypeOK
<1> HIDE DEF newRecords, newRequests, newEvents
<1>10. /\ records' \in Seq(CommitRecord)
       /\ Len(records) \in Nat
       /\ DOMAIN records = 1..Len(records)
       /\ DOMAIN records' = 1..(Len(records) + n)
       /\ Len(records') = Len(records) + n
       /\ \A i \in 1..Len(records) : records'[i] = records[i]
       /\ \A k \in 1..n : records'[Len(records) + k] = newRecords[k]
  BY <1>4, <1>7, <1>9, ExtendSeq
<1>11. /\ acceptedRequests' \in Seq(AcceptedRequest)
       /\ Len(acceptedRequests) \in Nat
       /\ DOMAIN acceptedRequests = 1..Len(acceptedRequests)
       /\ DOMAIN acceptedRequests' = 1..(Len(acceptedRequests) + n)
       /\ \A q \in 1..Len(acceptedRequests) :
            acceptedRequests'[q] = acceptedRequests[q]
       /\ \A k \in 1..n :
            acceptedRequests'[Len(acceptedRequests) + k] = newRequests[k]
  BY <1>5, <1>7, <1>9, ExtendSeq
<1>12. outbox' \in Seq(OutboxEvent)
  BY <1>6, <1>7, <1>9, ExtendSeq
<1>13. commits' \in [Branches -> Seq(Commit)]
  BY <1>7, <1>8, <1>9
<1>14. sequence' \in Nat
  BY <1>2, <1>7
<1>15. \A k \in 1..n : newRecords[k] =
            [sequence |-> sequence + k, branch |-> b, id |-> new[k].id,
             ops |-> new[k].ops, status |-> "accepted"]
  BY <1>1 DEF newRecords
<1>16. \A k \in 1..n : newRequests[k] =
            [sequence |-> sequence + k, branch |-> b, id |-> new[k].id,
             ops |-> new[k].ops, base |-> bases[k]]
  BY <1>1 DEF newRequests
<1>17. RecordsAppended(b, n, new)
  BY <1>7, <1>10, <1>15 DEF RecordsAppended
<1>18. RequestsAppended(b, n, new, bases)
  BY <1>11, <1>16 DEF RequestsAppended
<1> QED
  BY <1>10, <1>11, <1>12, <1>13, <1>14, <1>17, <1>18


\* What the records of a branch become when records are appended.
LEMMA AcceptedAfterExtension ==
    ASSUME NEW n \in Nat, Len(records) \in Nat,
           DOMAIN records = 1..Len(records),
           DOMAIN records' = 1..(Len(records) + n),
           \A i \in 1..Len(records) : records'[i] = records[i],
           NEW b
    PROVE  /\ \A i \in AcceptedOn(b) : i \in AcceptedOn(b)'
           /\ \A i \in AcceptedOn(b)' : i <= Len(records) => i \in AcceptedOn(b)
<1>1. ASSUME NEW i \in AcceptedOn(b)
      PROVE  i \in AcceptedOn(b)'
  <2>1. i \in 1..Len(records) /\ records'[i] = records[i]
    BY <1>1 DEF AcceptedOn
  <2>2. i \in DOMAIN records'
    BY <2>1
  <2> QED
    BY <1>1, <2>1, <2>2 DEF AcceptedOn
<1>2. ASSUME NEW i \in AcceptedOn(b)', i <= Len(records)
      PROVE  i \in AcceptedOn(b)
  <2>1. i \in 1..Len(records)
    BY <1>2 DEF AcceptedOn
  <2>2. records'[i] = records[i]
    BY <2>1
  <2> QED
    BY <1>2, <2>1, <2>2 DEF AcceptedOn
<1> QED
  BY <1>1, <1>2

\* Requests accepted earlier are not disturbed by records appended later.
LEMMA OldRequestsStaySafe ==
    ASSUME IInv, NEW n \in Nat, Len(records) \in Nat,
           DOMAIN records = 1..Len(records),
           DOMAIN records' = 1..(Len(records) + n),
           \A i \in 1..Len(records) : records'[i] = records[i],
           \A k \in 1..n : records'[Len(records) + k].sequence = sequence + k,
           NEW q \in DOMAIN acceptedRequests, NEW CONSTANT a,
           a = acceptedRequests[q]
    PROVE  PassedOverNothing(a)'
<1>1. /\ a.sequence <= sequence
      /\ a.sequence \in Nat
      /\ sequence = Len(records)
  <2>1. a \in AcceptedRequest
    BY LenProperties, ElementOfSeq DEF IInv, TypeOK
  <2> QED
    BY <2>1 DEF IInv, Numbered, AcceptedRequest
<1> SUFFICES ASSUME NEW i \in AcceptedOn(a.branch)',
                    records'[i].sequence < a.sequence,
                    \A j \in AcceptedOn(a.branch)' :
                        records'[j].id = a.base => j < i
             PROVE  KeysOf(records'[i].ops) \cap KeysOf(a.ops) = {}
  BY DEF PassedOverNothing
<1>2. i \in 1..(Len(records) + n)
  BY DEF AcceptedOn
<1>3. i <= Len(records)
  <2> SUFFICES ASSUME ~(i <= Len(records)) PROVE FALSE
    OBVIOUS
  <2>1. PICK k \in 1..n : i = Len(records) + k
    <3>1. i - Len(records) \in 1..n /\ i = Len(records) + (i - Len(records))
      BY <1>2
    <3> QED
      BY <3>1
  <2>2. records'[i].sequence = sequence + k
    BY <2>1
  <2> QED
    BY <1>1, <1>2, <2>1, <2>2
<1>4. i \in 1..Len(records)
  BY <1>2, <1>3
<1>5. i \in AcceptedOn(a.branch)
  BY <1>3, AcceptedAfterExtension
<1>6. \A j \in AcceptedOn(a.branch) : j \in AcceptedOn(a.branch)'
  BY AcceptedAfterExtension
<1>7. records'[i] = records[i]
  BY <1>4
<1>8. \A j \in AcceptedOn(a.branch) : records[j].id = a.base => j < i
  <2> TAKE j \in AcceptedOn(a.branch)
  <2>1. j \in 1..Len(records) /\ records'[j] = records[j]
    BY DEF AcceptedOn
  <2> QED
    BY <1>6, <2>1
<1>9. PassedOverNothing(a)
  BY DEF IInv, NoSilentOverwrite
<1> QED
  BY <1>5, <1>7, <1>8, <1>9 DEF PassedOverNothing

\* Each of the commits new touches no key of what stands, once they are
\* appended, between its base and itself.
ClearOfUnseen(b, n, new, bases) ==
    \A k \in 1..n : \A i \in AcceptedOn(b)' :
        /\ i < Len(records) + k
        /\ \A j \in AcceptedOn(b)' : records'[j].id = bases[k] => j < i
        => KeysOf(records'[i].ops) \cap KeysOf(new[k].ops) = {}

\* Commits appended by accept keep the invariant if they are clear of what
\* their bases had not seen.
LEMMA AcceptPreserves ==
    ASSUME IInv, NEW b \in Branches, NEW n \in Nat \ {0},
           NEW new \in [1..n -> Commit],
           NEW bases \in [1..n -> CommitId \cup {None}],
           Accept(b, new, bases), ClearOfUnseen(b, n, new, bases)
    PROVE  /\ Numbered'
           /\ HeadIsLast'
           /\ NoSilentOverwrite'
<1>1. TypeOK /\ sequence = Len(records) /\ n \in Nat
  BY DEF IInv, Numbered
<1>2. /\ sequence' = sequence + n
      /\ sequence \in Nat
      /\ Len(records) \in Nat
      /\ DOMAIN records = 1..Len(records)
      /\ DOMAIN records' = 1..(Len(records) + n)
      /\ Len(records') = Len(records) + n
      /\ \A i \in 1..Len(records) : records'[i] = records[i]
      /\ \A k \in 1..n : records'[Len(records) + k] =
            [sequence |-> sequence + k, branch |-> b, id |-> new[k].id,
             ops |-> new[k].ops, status |-> "accepted"]
  <2>1. sequence \in Nat /\ RecordsAppended(b, n, new)
    BY <1>1, AcceptAppends DEF TypeOK
  <2> QED
    BY <2>1 DEF RecordsAppended
<1>3. /\ Len(acceptedRequests) \in Nat
      /\ DOMAIN acceptedRequests = 1..Len(acceptedRequests)
      /\ DOMAIN acceptedRequests' = 1..(Len(acceptedRequests) + n)
      /\ \A q \in 1..Len(acceptedRequests) :
            acceptedRequests'[q] = acceptedRequests[q]
      /\ \A k \in 1..n : acceptedRequests'[Len(acceptedRequests) + k] =
            [sequence |-> sequence + k, branch |-> b, id |-> new[k].id,
             ops |-> new[k].ops, base |-> bases[k]]
  <2>1. RequestsAppended(b, n, new, bases)
    BY <1>1, AcceptAppends
  <2> QED
    BY <2>1 DEF RequestsAppended
<1>4. \A i \in DOMAIN records' : records'[i].sequence = i
  <2> TAKE i \in DOMAIN records'
  <2>1. CASE i \in 1..Len(records)
    BY <1>2, <2>1 DEF IInv, Numbered
  <2>2. CASE i \notin 1..Len(records)
    <3>1. PICK k \in 1..n : i = Len(records) + k
      <4>1. /\ i - Len(records) \in 1..n
            /\ i = Len(records) + (i - Len(records))
        BY <1>2, <2>2
      <4> QED
        BY <4>1
    <3>2. records'[i] =
               [sequence |-> sequence + k, branch |-> b, id |-> new[k].id,
                ops |-> new[k].ops, status |-> "accepted"]
      BY <1>2, <3>1
    <3> QED
      BY <1>1, <3>1, <3>2
  <2> QED
    BY <2>1, <2>2
<1>5. \A q \in DOMAIN acceptedRequests' :
            acceptedRequests'[q].sequence <= sequence'
  <2> TAKE q \in DOMAIN acceptedRequests'
  <2>1. CASE q \in 1..Len(acceptedRequests)
    <3>1. acceptedRequests'[q] = acceptedRequests[q] /\ q \in DOMAIN acceptedRequests
      BY <1>3, <2>1
    <3>2. acceptedRequests[q] \in AcceptedRequest
      BY <2>1, ElementOfSeq DEF IInv, TypeOK
    <3>3. acceptedRequests[q].sequence <= sequence
      BY <3>1 DEF IInv, Numbered
    <3> QED
      BY <1>2, <3>1, <3>2, <3>3 DEF AcceptedRequest
  <2>2. CASE q \notin 1..Len(acceptedRequests)
    <3>1. PICK k \in 1..n : q = Len(acceptedRequests) + k
      <4>1. /\ q - Len(acceptedRequests) \in 1..n
            /\ q = Len(acceptedRequests) + (q - Len(acceptedRequests))
        BY <1>3, <2>2
      <4> QED
        BY <4>1
    <3>2. acceptedRequests'[q] =
               [sequence |-> sequence + k, branch |-> b, id |-> new[k].id,
                ops |-> new[k].ops, base |-> bases[k]]
      BY <1>3, <3>1
    <3> QED
      BY <1>2, <3>1, <3>2
  <2> QED
    BY <2>1, <2>2
<1>6. Numbered'
  BY <1>1, <1>2, <1>4, <1>5 DEF Numbered
<1>7. HeadIsLast'
  <2> SUFFICES ASSUME NEW c \in Branches
               PROVE  (IF commits[c] = <<>> THEN AcceptedOn(c) = {}
                       ELSE \E j \in AcceptedOn(c) :
                            /\ records[j].id = commits[c][Len(commits[c])].id
                            /\ \A i \in AcceptedOn(c) : i <= j)'
    BY DEF HeadIsLast
  <2>1. CASE c = b
    <3>1. commits[b] \in Seq(Commit) /\ commits'[b] = commits[b] \o new
      BY <1>1 DEF TypeOK, Accept
    <3>2. /\ commits'[b] \in Seq(Commit)
          /\ Len(commits'[b]) = Len(commits[b]) + n
          /\ Len(commits[b]) \in Nat
          /\ commits'[b][Len(commits[b]) + n] = new[n]
      BY <3>1, ExtendSeq
    <3>3. commits'[b] # <<>>
      BY <3>2
    <3> DEFINE last == Len(records) + n
    <3>4. /\ last \in AcceptedOn(b)'
          /\ records'[last].id = new[n].id
      <4>1. n \in 1..n /\ last \in DOMAIN records'
        BY <1>2
      <4>2. records'[last] =
                [sequence |-> sequence + n, branch |-> b, id |-> new[n].id,
                 ops |-> new[n].ops, status |-> "accepted"]
        BY <1>2, <4>1
      <4> QED
        BY <4>1, <4>2 DEF AcceptedOn
    <3>5. \A i \in AcceptedOn(b)' : i <= last
      BY <1>2 DEF AcceptedOn
    <3> QED
      BY <2>1, <3>2, <3>3, <3>4, <3>5
  <2>2. CASE c # b
    <3>1. commits'[c] = commits[c]
      BY <1>1, <2>2 DEF TypeOK, Accept
    <3>2. \A i \in AcceptedOn(c)' : i <= Len(records)
      <4> SUFFICES ASSUME NEW i \in AcceptedOn(c)', ~(i <= Len(records))
                   PROVE  FALSE
        OBVIOUS
      <4>1. PICK k \in 1..n : i = Len(records) + k
        <5>1. /\ i - Len(records) \in 1..n
              /\ i = Len(records) + (i - Len(records))
          BY <1>2 DEF AcceptedOn
        <5> QED
          BY <5>1
      <4>2. records'[i] =
               [sequence |-> sequence + k, branch |-> b, id |-> new[k].id,
                ops |-> new[k].ops, status |-> "accepted"]
        BY <1>2, <4>1
      <4> QED
        BY <2>2, <4>2 DEF AcceptedOn
    <3>3. AcceptedOn(c)' = AcceptedOn(c)
      <4>1. /\ \A i \in AcceptedOn(c) : i \in AcceptedOn(c)'
            /\ \A i \in AcceptedOn(c)' : i <= Len(records) => i \in AcceptedOn(c)
        BY <1>1, <1>2, AcceptedAfterExtension
      <4> QED
        BY <3>2, <4>1
    <3>4. \A j \in AcceptedOn(c) : records'[j] = records[j]
      BY <1>2 DEF AcceptedOn
    <3> QED
      BY <3>1, <3>3, <3>4 DEF IInv, HeadIsLast
  <2> QED
    BY <2>1, <2>2
<1>8. NoSilentOverwrite'
  <2> SUFFICES ASSUME NEW CONSTANT q \in DOMAIN acceptedRequests',
                      NEW CONSTANT a, a = acceptedRequests'[q]
               PROVE  PassedOverNothing(a)'
    BY DEF NoSilentOverwrite
  <2>1. CASE q \in 1..Len(acceptedRequests)
    <3>1. q \in DOMAIN acceptedRequests /\ a = acceptedRequests[q]
      BY <1>3, <2>1
    <3>2. \A k \in 1..n : records'[Len(records) + k].sequence = sequence + k
      <4> TAKE k \in 1..n
      <4>1. records'[Len(records) + k] =
                [sequence |-> sequence + k, branch |-> b, id |-> new[k].id,
                 ops |-> new[k].ops, status |-> "accepted"]
        BY <1>2
      <4> QED
        BY <4>1
    <3> QED
      BY <1>1, <1>2, <3>1, <3>2, OldRequestsStaySafe
  <2>2. CASE q \notin 1..Len(acceptedRequests)
    <3>1. PICK k \in 1..n : q = Len(acceptedRequests) + k
      <4>1. /\ q - Len(acceptedRequests) \in 1..n
            /\ q = Len(acceptedRequests) + (q - Len(acceptedRequests))
        BY <1>3, <2>2
      <4> QED
        BY <4>1
    <3>2. a = [sequence |-> sequence + k, branch |-> b, id |-> new[k].id,
               ops |-> new[k].ops, base |-> bases[k]]
      BY <1>3, <3>1
    <3> SUFFICES ASSUME NEW CONSTANT i \in AcceptedOn(b)',
                        records'[i].sequence < a.sequence,
                        \A j \in AcceptedOn(b)' :
                            records'[j].id = a.base => j < i
                 PROVE  KeysOf(records'[i].ops) \cap KeysOf(a.ops) = {}
      BY <3>2 DEF PassedOverNothing
    <3>3. i < Len(records) + k
      BY <1>1, <1>4, <3>2 DEF AcceptedOn
    <3>4. \A j \in AcceptedOn(b)' : records'[j].id = bases[k] => j < i
      BY <3>2
    <3>5. KeysOf(records'[i].ops) \cap KeysOf(new[k].ops) = {}
      BY <3>3, <3>4 DEF ClearOfUnseen
    <3>6. a.ops = new[k].ops
      BY <3>2
    <3> QED
      BY <3>5, <3>6
  <2> QED
    BY <2>1, <2>2
<1> QED
  BY <1>6, <1>7, <1>8


-----------------------------------------------------------------------------
(* Writes.                                                                 *)

\* What a client sends is a batch.
LEMMA BatchesAreTyped ==
    ASSUME TypeOK, NEW b \in Branches, NEW ops \in WriteBatches \cup Reverts(b)
    PROVE  ops \in Batch
<1>1. CASE ops \in WriteBatches
  <2>1. ops \in Seq(MutationOperation) /\ PermittedBatch(ops)
    BY <1>1, CloudHistoryAssumption
  <2>2. MutationOperation \subseteq Operation
    BY DEF Operation
  <2>3. ops \in Seq(Operation)
    BY <2>1, <2>2, SeqMonotonic
  <2>4. ops # <<>>
    BY <2>1 DEF PermittedBatch
  <2> QED
    BY <2>3, <2>4 DEF Batch
<1>2. CASE ops \in Reverts(b)
  <2>1. PICK i \in DOMAIN commits[b] : ops = <<RevertOp(commits[b][i].id)>>
    BY <1>2 DEF Reverts
  <2>2. commits[b][i] \in Commit
    <3>1. commits[b] \in Seq(Commit)
      BY DEF TypeOK
    <3> QED
      BY <2>1, <3>1, LenProperties, ElementOfSeq
  <2>3. RevertOp(commits[b][i].id) \in Operation
    BY <2>2 DEF Operation, RevertOp, Commit
  <2> QED
    BY <2>1, <2>3 DEF Batch
<1> QED
  BY <1>1, <1>2

\* The bases a client can know are commit ids.
LEMMA BasesAreTyped ==
    ASSUME TypeOK, NEW b \in Branches, NEW base \in KnownBases(b)
    PROVE  base \in CommitId \cup {None}
<1>1. CASE base = None
  BY <1>1
<1>2. CASE base # None
  <2>1. PICK i \in AcceptedOn(b) : base = records[i].id
    BY <1>2 DEF KnownBases
  <2>2. records[i] \in CommitRecord
    BY <2>1, LenProperties, ElementOfSeq DEF AcceptedOn, TypeOK
  <2> QED
    BY <2>1, <2>2 DEF CommitRecord
<1> QED
  BY <1>1, <1>2

\* Nothing is accepted behind the head of a branch.
LEMMA NothingPassesHead ==
    ASSUME IInv, NEW b \in Branches, NEW i \in AcceptedOn(b),
           \A j \in AcceptedOn(b) : records[j].id = HeadOf(b) => j < i
    PROVE  FALSE
<1>1. commits[b] # <<>>
  BY DEF IInv, HeadIsLast
<1>2. PICK j \in AcceptedOn(b) :
            /\ records[j].id = commits[b][Len(commits[b])].id
            /\ \A k \in AcceptedOn(b) : k <= j
  BY <1>1 DEF IInv, HeadIsLast
<1>3. j < i /\ i <= j
  BY <1>1, <1>2 DEF HeadOf
<1>4. i \in Nat /\ j \in Nat
  BY LenProperties DEF IInv, TypeOK, AcceptedOn
<1> QED
  BY <1>3, <1>4

\* A write without conflicting keys shares none with what was accepted behind
\* its base.
LEMMA UnseenTouchesNothing ==
    ASSUME IInv, NEW b \in Branches, NEW base, NEW ops,
           BaseKnown(b, base), ConflictingKeys(b, base, ops) = {},
           NEW i \in AcceptedOn(b),
           \A j \in AcceptedOn(b) : records[j].id = base => j < i
    PROVE  KeysOf(records[i].ops) \cap KeysOf(ops) = {}
<1>1. base # HeadOf(b)
  BY NothingPassesHead
<1>2. \A j \in AcceptedOn(b) : j \in Nat \ {0} /\ records[j].sequence = j
  BY LenProperties DEF IInv, TypeOK, Numbered, AcceptedOn
<1>3. i \in AcceptedSince(b, base)
  <2>1. CASE base = None
    BY <1>2, <2>1 DEF AcceptedSince, BaseSequence
  <2>2. CASE base # None
    <3> DEFINE j == CHOOSE j \in AcceptedOn(b) : records[j].id = base
    <3>1. j \in AcceptedOn(b) /\ records[j].id = base
      BY <2>2 DEF BaseKnown
    <3>2. BaseSequence(b, base) = records[j].sequence
      BY <2>2 DEF BaseSequence
    <3> HIDE DEF j
    <3>3. j < i
      BY <3>1
    <3> QED
      BY <1>2, <3>1, <3>2, <3>3 DEF AcceptedSince
  <2> QED
    BY <2>1, <2>2
<1> QED
  BY <1>1, <1>3 DEF ConflictingKeys


\* The result stored for a client mutation has its type.
LEMMA RememberIsTyped ==
    ASSUME TypeOK, NEW w \in WriteId, NEW status \in {"accepted", "conflict"},
           NEW s \in Nat, NEW ops \in Batch, NEW base \in CommitId \cup {None},
           Remember(w, status, s, ops, base)
    PROVE  idempotency' \in [WriteId -> Result \cup {NoResult}]
BY DEF TypeOK, Remember, Result

\* A write that is accepted: nothing unseen was at its keys.
LEMMA AcceptWritePreserves ==
    ASSUME IInv, NEW b \in Branches, NEW m \in Mutations,
           NEW base \in KnownBases(b), NEW ops \in Batch,
           AcceptWrite(b, m, base, ops)
    PROVE  IInv'
<1> DEFINE commit == [id |-> <<b, m>>, ops |-> ops]
           new == <<commit>>
           bases == <<base>>
<1>1. /\ BaseKnown(b, base)
      /\ ConflictingKeys(b, base, ops) = {}
      /\ Accept(b, new, bases)
      /\ Remember(<<b, m>>, "accepted", sequence + 1, ops, base)
      /\ UNCHANGED <<conflicts, resolutionIdempotency>>
  BY DEF AcceptWrite, Unanswered
<1>2. /\ <<b, m>> \in WriteId
      /\ ops \in Batch
      /\ base \in CommitId \cup {None}
      /\ sequence + 1 \in Nat
      /\ sequence = Len(records)
  BY BasesAreTyped DEF IInv, TypeOK, WriteId, Numbered
<1>3. new \in [1..1 -> Commit] /\ bases \in [1..1 -> CommitId \cup {None}]
  <2>1. commit \in Commit
    BY <1>2 DEF Commit, CommitId
  <2> HIDE DEF commit
  <2> QED
    BY <1>2, <2>1
<1>4. new[1] = commit /\ bases[1] = base
  OBVIOUS
<1> HIDE DEF new, bases
<1>5. /\ commits' \in [Branches -> Seq(Commit)]
      /\ sequence' \in Nat
      /\ records' \in Seq(CommitRecord)
      /\ acceptedRequests' \in Seq(AcceptedRequest)
      /\ outbox' \in Seq(OutboxEvent)
      /\ RecordsAppended(b, 1, new)
  BY <1>1, <1>2, <1>3, AcceptAppends DEF IInv
<1>6. idempotency' \in [WriteId -> Result \cup {NoResult}]
  BY <1>1, <1>2, RememberIsTyped DEF IInv
<1>7. TypeOK'
  BY <1>1, <1>5, <1>6 DEF IInv, TypeOK
<1>8. ConflictsPointBack'
  BY <1>1, <1>5 DEF IInv, ConflictsPointBack, RecordsAppended
<1>9. ASSUME NEW k \in 1..1, NEW i \in AcceptedOn(b)', i < Len(records) + k,
             \A j \in AcceptedOn(b)' : records'[j].id = bases[k] => j < i
      PROVE  KeysOf(records'[i].ops) \cap KeysOf(new[k].ops) = {}
  <2>1. /\ Len(records) \in Nat
        /\ DOMAIN records = 1..Len(records)
        /\ DOMAIN records' = 1..(Len(records) + 1)
        /\ \A l \in 1..Len(records) : records'[l] = records[l]
    BY <1>5 DEF RecordsAppended
  <2>2. i \in 1..Len(records) /\ records'[i] = records[i]
    BY <1>9, <2>1 DEF AcceptedOn
  <2>3. i \in AcceptedOn(b) /\ \A j \in AcceptedOn(b) : j \in AcceptedOn(b)'
    BY <1>9, <2>1, <2>2, AcceptedAfterExtension
  <2>4. \A j \in AcceptedOn(b) : records[j].id = base => j < i
    <3> TAKE j \in AcceptedOn(b)
    <3>1. records'[j] = records[j] /\ j \in AcceptedOn(b)'
      BY <2>1, <2>3 DEF AcceptedOn
    <3> QED
      BY <1>4, <1>9, <3>1
  <2>5. KeysOf(records[i].ops) \cap KeysOf(ops) = {}
    BY <1>1, <2>3, <2>4, UnseenTouchesNothing
  <2>6. new[k].ops = ops
    BY <1>4
  <2> QED
    BY <2>2, <2>5, <2>6
<1>10. ClearOfUnseen(b, 1, new, bases)
  BY <1>9 DEF ClearOfUnseen
<1>11. Numbered' /\ HeadIsLast' /\ NoSilentOverwrite'
  <2>1. 1 \in Nat \ {0}
    OBVIOUS
  <2>2. Accept(b, new, bases)
    BY <1>1
  <2> QED
    BY <1>3, <1>10, <2>1, <2>2, AcceptPreserves
<1> QED
  BY <1>7, <1>8, <1>11 DEF IInv

\* A write that equals a commit it had not seen is answered with that commit.
LEMMA ReuseEquivalentPreserves ==
    ASSUME IInv, NEW b \in Branches, NEW m \in Mutations,
           NEW base \in KnownBases(b), NEW ops \in Batch,
           ReuseEquivalent(b, m, base, ops)
    PROVE  IInv'
<1>1. PICK i \in EquivalentSince(b, base, ops) :
            Remember(<<b, m>>, "accepted", records[i].sequence, ops, base)
  BY DEF ReuseEquivalent
<1>2. records[i].sequence \in Nat
  <2>1. records[i] \in CommitRecord
    BY LenProperties, ElementOfSeq
       DEF IInv, TypeOK, EquivalentSince, AcceptedSince, AcceptedOn
  <2> QED
    BY <2>1 DEF CommitRecord
<1>3. idempotency' \in [WriteId -> Result \cup {NoResult}]
  <2>1. <<b, m>> \in WriteId /\ ops \in Batch /\ base \in CommitId \cup {None}
    BY BasesAreTyped DEF IInv, WriteId
  <2> QED
    BY <1>1, <1>2, <2>1, RememberIsTyped DEF IInv
<1>4. UNCHANGED <<commits, sequence, records, acceptedRequests, conflicts,
                  outbox, resolutionIdempotency>>
  BY DEF ReuseEquivalent
<1>5. TypeOK'
  BY <1>3, <1>4 DEF IInv, TypeOK
<1>6. \A c : AcceptedOn(c)' = AcceptedOn(c)
  BY <1>4 DEF AcceptedOn
<1>7. Numbered' /\ ConflictsPointBack'
  BY <1>4 DEF IInv, Numbered, ConflictsPointBack
<1>8. HeadIsLast'
  BY <1>4, <1>6 DEF IInv, HeadIsLast
<1>9. NoSilentOverwrite'
  BY <1>4 DEF IInv, NoSilentOverwrite, PassedOverNothing, AcceptedOn
<1> QED
  BY <1>5, <1>7, <1>8, <1>9 DEF IInv


\* The Conflict Keys of a batch are keys.
LEMMA KeysAreTyped ==
    ASSUME NEW ops \in Seq(Operation)
    PROVE  KeysOf(ops) \subseteq Key
<1>1. ASSUME NEW op \in Operation
      PROVE  ConflictKeys(op) \subseteq Key
  <2>1. CASE op.kind = "create"
    <3>1. op.object \in Objects /\ op.content \in Content
      BY <2>1 DEF Operation, MutationOperation
    <3>2. /\ op.content.source \in Objects \cup {None}
          /\ op.content.value \in Values \cup {None}
      BY <3>1 DEF Content
    <3> QED
      BY <2>1, <3>1, <3>2 DEF ConflictKeys, RelationSlot, Key
  <2>2. CASE op.kind = "replace"
    <3>1. op.object \in Objects /\ op.by \in Objects /\ op.content \in Content
      BY <2>2 DEF Operation, MutationOperation, OfKind
    <3>2. /\ op.content.source \in Objects \cup {None}
          /\ op.content.value \in Values \cup {None}
      BY <3>1 DEF Content
    <3> QED
      BY <2>2, <3>1, <3>2 DEF ConflictKeys, RelationSlot, Key
  <2>3. CASE op.kind = "revert_commit"
    BY <2>3 DEF Operation, MutationOperation, ConflictKeys, Key
  <2>4. CASE op.kind = "resolve_conflict"
    <3>1. op.conflicts \subseteq Nat
      BY <2>4 DEF Operation, MutationOperation
    <3> QED
      BY <2>4, <3>1 DEF ConflictKeys, Key
  <2>5. CASE op.kind \in {"update", "tombstone"}
    <3>1. op.object \in Objects
      BY <2>5 DEF Operation, MutationOperation, OfKind
    <3> QED
      BY <2>5, <3>1 DEF ConflictKeys, Key
  <2> QED
    BY <2>1, <2>2, <2>3, <2>4, <2>5 DEF Operation, MutationOperation
<1>2. \A i \in DOMAIN ops : ops[i] \in Operation
  BY LenProperties, ElementOfSeq
<1> QED
  BY <1>1, <1>2 DEF KeysOf

\* A write that met an unseen commit at its keys is kept as a conflict.
LEMMA CaptureConflictPreserves ==
    ASSUME IInv, NEW b \in Branches, NEW m \in Mutations,
           NEW base \in KnownBases(b), NEW ops \in Batch,
           CaptureConflict(b, m, base, ops)
    PROVE  IInv'
<1> DEFINE keys == ConflictingKeys(b, base, ops)
           id == <<b, m>>
           s == sequence + 1
           remote == {records[i].sequence :
                        i \in {j \in AcceptedSince(b, base) :
                                KeysOf(records[j].ops) \cap keys # {}}}
           conflict == [id |-> s, branch |-> b, base |-> base,
                        remoteHead |-> HeadOf(b), remote |-> remote,
                        incoming |-> id, keys |-> keys,
                        status |-> "unresolved", resolvedBy |-> None]
           record == [sequence |-> s, branch |-> b, id |-> id, ops |-> ops,
                      status |-> "conflicted"]
           event == [sequence |-> s, branch |-> b, commit |-> id,
                     kind |-> "conflict_created"]
<1>1. /\ HeadOf(b) # None
      /\ sequence' = s
      /\ conflicts' = Append(conflicts, conflict)
      /\ records' = Append(records, record)
      /\ outbox' = Append(outbox, event)
      /\ Remember(id, "conflict", s, ops, base)
      /\ UNCHANGED <<commits, acceptedRequests, resolutionIdempotency>>
  BY DEF CaptureConflict
<1>2. /\ TypeOK
      /\ id \in WriteId /\ id \in CommitId
      /\ ops \in Batch
      /\ base \in CommitId \cup {None}
      /\ s \in Nat
      /\ sequence = Len(records)
  BY BasesAreTyped
     DEF IInv, TypeOK, WriteId, CommitId, Numbered
<1>3. /\ records \in Seq(CommitRecord) /\ conflicts \in Seq(Conflict)
      /\ outbox \in Seq(OutboxEvent)
      /\ Len(records) \in Nat /\ DOMAIN records = 1..Len(records)
  BY <1>2, LenProperties DEF TypeOK
<1>4. remote \subseteq DOMAIN records
  BY DEF IInv, Numbered, AcceptedSince, AcceptedOn
<1>5. keys \subseteq Key
  <2>1. KeysOf(ops) \subseteq Key
    BY <1>2, KeysAreTyped DEF Batch
  <2> QED
    BY <2>1 DEF ConflictingKeys
<1>6. HeadOf(b) \in CommitId
  <2>1. commits[b] \in Seq(Commit) /\ commits[b] # <<>>
    BY <1>1, <1>2 DEF TypeOK, HeadOf
  <2>2. Len(commits[b]) \in 1..Len(commits[b])
    BY <2>1, EmptySeq
  <2>3. commits[b][Len(commits[b])] \in Commit
    BY <2>1, <2>2, ElementOfSeq
  <2> QED
    BY <2>1, <2>3 DEF HeadOf, Commit
<1>7. conflict \in Conflict
  <2> HIDE DEF keys, remote, s, id
  <2>1. remote \in SUBSET Nat
    BY <1>3, <1>4
  <2> QED
    BY <1>2, <1>5, <1>6, <2>1 DEF Conflict
<1>8. record \in CommitRecord /\ event \in OutboxEvent
  <2> HIDE DEF s, id
  <2> QED
    BY <1>2 DEF CommitRecord, OutboxEvent
<1> HIDE DEF conflict, record, event
<1>9. /\ records' \in Seq(CommitRecord)
      /\ Len(records') = Len(records) + 1
      /\ DOMAIN records' = 1..(Len(records) + 1)
      /\ \A i \in 1..Len(records) : records'[i] = records[i]
      /\ records'[Len(records) + 1] = record
  BY <1>1, <1>3, <1>8, AppendProperties, LenProperties
<1>10. /\ conflicts' \in Seq(Conflict)
       /\ outbox' \in Seq(OutboxEvent)
  BY <1>1, <1>3, <1>7, <1>8, AppendProperties
<1>11. TypeOK'
  <2>1. idempotency' \in [WriteId -> Result \cup {NoResult}]
    BY <1>1, <1>2, RememberIsTyped
  <2> QED
    BY <1>1, <1>2, <1>9, <1>10, <2>1 DEF TypeOK
<1>12. Numbered'
  <2>1. \A i \in DOMAIN records' : records'[i].sequence = i
    BY <1>2, <1>3, <1>9, SMTT(30) DEF IInv, Numbered, record
  <2>2. \A q \in DOMAIN acceptedRequests' :
            acceptedRequests'[q].sequence <= sequence'
    <3> TAKE q \in DOMAIN acceptedRequests'
    <3>1. acceptedRequests[q] \in AcceptedRequest
      BY <1>1, <1>2, LenProperties, ElementOfSeq DEF TypeOK
    <3>2. acceptedRequests[q].sequence <= sequence
      BY <1>1 DEF IInv, Numbered
    <3> QED
      BY <1>1, <1>2, <3>1, <3>2 DEF AcceptedRequest, TypeOK
  <2> QED
    BY <1>1, <1>2, <1>9, <2>1, <2>2 DEF Numbered
<1>13. ConflictsPointBack'
  <2> SUFFICES ASSUME NEW n \in DOMAIN conflicts'
               PROVE  /\ conflicts'[n].id \in DOMAIN records'
                      /\ conflicts'[n].remote \subseteq DOMAIN records'
    BY DEF ConflictsPointBack
  <2>1. DOMAIN records \subseteq DOMAIN records'
    BY <1>3, <1>9
  <2>2. CASE n \in DOMAIN conflicts
    <3>1. conflicts'[n] = conflicts[n]
      BY <1>1, <1>3, <1>7, <2>2, AppendProperties, LenProperties
    <3> QED
      BY <2>1, <2>2, <3>1 DEF IInv, ConflictsPointBack
  <2>3. CASE n \notin DOMAIN conflicts
    <3>1. conflicts'[n] = conflict
      BY <1>1, <1>3, <1>7, <2>3, AppendProperties, LenProperties
    <3>2. s \in DOMAIN records'
      BY <1>2, <1>3, <1>9
    <3> QED
      BY <1>4, <2>1, <3>1, <3>2 DEF conflict
  <2> QED
    BY <2>2, <2>3
<1>14. \A c : AcceptedOn(c)' = AcceptedOn(c)
  <2> TAKE c
  <2>1. Len(records) + 1 \notin AcceptedOn(c)'
    BY <1>9 DEF AcceptedOn, record
  <2>2. \A i \in AcceptedOn(c)' : i <= Len(records)
    BY <1>3, <1>9, <2>1 DEF AcceptedOn
  <2>3. /\ \A i \in AcceptedOn(c) : i \in AcceptedOn(c)'
        /\ \A i \in AcceptedOn(c)' : i <= Len(records) => i \in AcceptedOn(c)
    BY <1>3, <1>9, AcceptedAfterExtension
  <2> QED
    BY <2>2, <2>3
<1>15. HeadIsLast'
  <2>1. \A c : \A i \in AcceptedOn(c) : records'[i] = records[i]
    BY <1>3, <1>9 DEF AcceptedOn
  <2> QED
    BY <1>1, <1>14, <2>1 DEF IInv, HeadIsLast
<1>16. NoSilentOverwrite'
  <2> SUFFICES ASSUME NEW CONSTANT q \in DOMAIN acceptedRequests',
                      NEW CONSTANT a, a = acceptedRequests'[q]
               PROVE  PassedOverNothing(a)'
    BY DEF NoSilentOverwrite
  <2>1. q \in DOMAIN acceptedRequests /\ a = acceptedRequests[q]
    BY <1>1
  <2>2. \A k \in 1..1 : records'[Len(records) + k].sequence = sequence + k
    BY <1>9 DEF record
  <2> QED
    BY <1>3, <1>9, <2>1, <2>2, OldRequestsStaySafe
<1> QED
  BY <1>11, <1>12, <1>13, <1>15, <1>16 DEF IInv


-----------------------------------------------------------------------------
(* Resolutions.                                                            *)

\* A chain of commits, each based on the one before it and the first on the
\* head, passes over nothing.
LEMMA ChainIsClear ==
    ASSUME IInv, NEW b \in Branches, NEW n \in Nat \ {0},
           NEW new \in [1..n -> Commit], RecordsAppended(b, n, new)
    PROVE  ClearOfUnseen(b, n, new, Bases(b, new))
<1>1. /\ Len(records) \in Nat
      /\ DOMAIN records = 1..Len(records)
      /\ DOMAIN records' = 1..(Len(records) + n)
      /\ \A i \in 1..Len(records) : records'[i] = records[i]
      /\ \A k \in 1..n : records'[Len(records) + k] =
            [sequence |-> sequence + k, branch |-> b, id |-> new[k].id,
             ops |-> new[k].ops, status |-> "accepted"]
  BY DEF RecordsAppended
<1> SUFFICES ASSUME NEW k \in 1..n, NEW i \in AcceptedOn(b)',
                    i < Len(records) + k,
                    \A j \in AcceptedOn(b)' :
                        records'[j].id = Bases(b, new)[k] => j < i
             PROVE  FALSE
  BY DEF ClearOfUnseen
<1>2. i \in 1..(Len(records) + n)
  BY <1>1 DEF AcceptedOn
<1>3. CASE k = 1
  <2>1. Bases(b, new)[k] = HeadOf(b)
    BY <1>3 DEF Bases
  <2>2. i <= Len(records)
    BY <1>1, <1>2, <1>3
  <2>3. /\ \A j \in AcceptedOn(b) : j \in AcceptedOn(b)'
        /\ \A j \in AcceptedOn(b)' : j <= Len(records) => j \in AcceptedOn(b)
    BY <1>1, AcceptedAfterExtension
  <2>4. \A j \in AcceptedOn(b) : records[j].id = HeadOf(b) => j < i
    <3> TAKE j \in AcceptedOn(b)
    <3>1. records'[j] = records[j]
      BY <1>1 DEF AcceptedOn
    <3> QED
      BY <2>1, <2>3, <3>1
  <2> QED
    BY <2>2, <2>3, <2>4, NothingPassesHead
<1>4. CASE k # 1
  <2>1. k - 1 \in 1..n
    BY <1>4
  <2>2. Bases(b, new)[k] = new[k - 1].id
    BY <1>4 DEF Bases
  <2> DEFINE j == Len(records) + (k - 1)
  <2>3. records'[j] = [sequence |-> sequence + (k - 1), branch |-> b,
                       id |-> new[k - 1].id, ops |-> new[k - 1].ops,
                       status |-> "accepted"]
    BY <1>1, <2>1
  <2>4. j \in DOMAIN records'
    BY <1>1, <2>1
  <2>5. j \in AcceptedOn(b)' /\ records'[j].id = Bases(b, new)[k]
    BY <2>2, <2>3, <2>4 DEF AcceptedOn
  <2>6. j < i
    BY <2>5
  <2> QED
    BY <1>1, <1>2, <2>6
<1> QED
  BY <1>3, <1>4

\* Accepting a chain keeps the invariant if the conflicts keep what they name.
LEMMA ChainPreserves ==
    ASSUME IInv, NEW b \in Branches, NEW n \in Nat \ {0},
           NEW new \in [1..n -> Commit],
           Accept(b, new, Bases(b, new)),
           conflicts' \in Seq(Conflict),
           DOMAIN conflicts' = DOMAIN conflicts,
           \A i \in DOMAIN conflicts : /\ conflicts'[i].id = conflicts[i].id
                                       /\ conflicts'[i].remote = conflicts[i].remote,
           idempotency' = idempotency,
           resolutionIdempotency' \subseteq ResolutionId
    PROVE  IInv'
<1>1. Bases(b, new) \in [1..n -> CommitId \cup {None}]
  <2>1. HeadOf(b) \in CommitId \cup {None}
    <3>1. CASE commits[b] = <<>>
      BY <3>1 DEF HeadOf
    <3>2. CASE commits[b] # <<>>
      <4>1. commits[b] \in Seq(Commit)
        BY DEF IInv, TypeOK
      <4>2. Len(commits[b]) \in 1..Len(commits[b])
        BY <3>2, <4>1, EmptySeq
      <4>3. commits[b][Len(commits[b])] \in Commit
        BY <4>1, <4>2, ElementOfSeq
      <4> QED
        BY <3>2, <4>3 DEF HeadOf, Commit
    <3> QED
      BY <3>1, <3>2
  <2>2. \A i \in 1..n : i # 1 => new[i - 1].id \in CommitId
    <3> TAKE i \in 1..n
    <3>1. i # 1 => i - 1 \in 1..n
      OBVIOUS
    <3> QED
      BY <3>1 DEF Commit
  <2>3. DOMAIN new = 1..n
    OBVIOUS
  <2> QED
    BY <2>1, <2>2, <2>3 DEF Bases
<1>2. TypeOK /\ sequence = Len(records) /\ n \in Nat
  BY DEF IInv, Numbered
<1>3. /\ commits' \in [Branches -> Seq(Commit)]
      /\ sequence' \in Nat
      /\ records' \in Seq(CommitRecord)
      /\ acceptedRequests' \in Seq(AcceptedRequest)
      /\ outbox' \in Seq(OutboxEvent)
      /\ RecordsAppended(b, n, new)
  BY <1>1, <1>2, AcceptAppends
<1>4. TypeOK'
  BY <1>2, <1>3 DEF TypeOK
<1>5. ConflictsPointBack'
  <2>1. DOMAIN records \subseteq DOMAIN records'
    BY <1>3 DEF RecordsAppended
  <2> QED
    BY <2>1 DEF IInv, ConflictsPointBack
<1>6. ClearOfUnseen(b, n, new, Bases(b, new))
  BY <1>3, ChainIsClear
<1>7. Numbered' /\ HeadIsLast' /\ NoSilentOverwrite'
  BY <1>1, <1>6, AcceptPreserves
<1> QED
  BY <1>4, <1>5, <1>7 DEF IInv


\* A listed conflict is one that exists.
LEMMA ListedConflicts ==
    ASSUME IInv, NEW cs \in ConflictLists
    PROVE  /\ \E n \in Nat : cs \in [1..n -> DOMAIN conflicts]
           /\ \A i \in DOMAIN cs :
                /\ cs[i] \in DOMAIN conflicts
                /\ conflicts[cs[i]].id \in DOMAIN records
                /\ conflicts[cs[i]].remote \subseteq DOMAIN records
<1>1. MaxListed \in Nat
  BY CloudHistoryAssumption
<1>2. PICK n \in 1..MaxListed : cs \in [1..n -> DOMAIN conflicts]
  BY DEF ConflictLists
<1>3. n \in Nat
  BY <1>1, <1>2
<1> QED
  BY <1>2, <1>3 DEF IInv, ConflictsPointBack

\* The remote commits a resolution reverts are records.
LEMMA RemoteIsTyped ==
    ASSUME IInv, NEW cs \in ConflictLists
    PROVE  RemoteInOrder(cs) \in Seq(DOMAIN records)
<1>1. RemoteOf(cs) \subseteq DOMAIN records
  BY ListedConflicts DEF RemoteOf
<1>2. DOMAIN records = 1..Len(records) /\ Len(records) \in Nat
  BY LenProperties DEF IInv, TypeOK
<1>3. Cardinality(RemoteOf(cs)) \in Nat
  <2>1. IsFiniteSet(1..Len(records))
    BY <1>2, FS_Interval
  <2> QED
    BY <1>1, <1>2, <2>1, FS_Subset, FS_CardinalityType
<1>4. \/ RemoteInOrder(cs) = <<>>
      \/ RemoteInOrder(cs) \in [1..Cardinality(RemoteOf(cs)) -> RemoteOf(cs)]
  BY DEF RemoteInOrder
<1>5. CASE RemoteInOrder(cs) = <<>>
  BY <1>5, EmptySeq
<1>6. CASE RemoteInOrder(cs) \in [1..Cardinality(RemoteOf(cs)) -> RemoteOf(cs)]
  <2>1. RemoteInOrder(cs) \in Seq(RemoteOf(cs))
    BY <1>3, <1>6, FunctionIsSeq
  <2> QED
    BY <1>1, <2>1, SeqMonotonic
<1> QED
  BY <1>4, <1>5, <1>6

\* The operations take_incoming applies are operations.
LEMMA IncomingIsTyped ==
    ASSUME IInv, NEW cs \in ConflictLists
    PROVE  IncomingOperations(cs) \in Seq(Operation)
<1>1. PICK n \in Nat : cs \in [1..n -> DOMAIN conflicts]
  BY ListedConflicts
<1>2. ASSUME NEW i \in 1..n
      PROVE  records[conflicts[cs[i]].id].ops[1] \in Operation
  <2>1. conflicts[cs[i]].id \in DOMAIN records
    BY <1>1, <1>2, ListedConflicts
  <2>2. records[conflicts[cs[i]].id] \in CommitRecord
    BY <2>1, LenProperties, ElementOfSeq DEF IInv, TypeOK
  <2>3. records[conflicts[cs[i]].id].ops \in Batch
    BY <2>2 DEF CommitRecord
  <2> DEFINE ops == records[conflicts[cs[i]].id].ops
  <2>4. ops \in Seq(Operation) /\ ops # <<>>
    BY <2>3 DEF Batch
  <2> HIDE DEF ops
  <2>5. 1 \in 1..Len(ops)
    BY <2>4, EmptySeq
  <2>6. ops[1] \in Operation
    BY <2>4, <2>5, ElementOfSeq
  <2> QED
    BY <2>6 DEF ops
<1>3. DOMAIN cs = 1..n
  BY <1>1
<1>4. IncomingOperations(cs) \in [1..n -> Operation]
  BY <1>2, <1>3 DEF IncomingOperations
<1> QED
  BY <1>4, FunctionIsSeq

\* A plan is a non-empty list of commits.
LEMMA PlanIsTyped ==
    ASSUME IInv, NEW b \in Branches, NEW r \in Resolutions,
           NEW cs \in ConflictLists, NEW kind \in ResolutionKinds,
           NEW reverts \in Seq(DOMAIN records), NEW applied \in Seq(Operation)
    PROVE  /\ Plan(b, r, cs, kind, reverts, applied) \in Seq(Commit)
           /\ Len(Plan(b, r, cs, kind, reverts, applied)) \in Nat \ {0}
<1> DEFINE R == [i \in DOMAIN reverts |->
                [id |-> <<b, r, "revert", i>>,
                 ops |-> <<RevertOp(records[reverts[i]].id)>>]]
           A == [i \in DOMAIN applied |->
                [id |-> <<b, r, "apply", i>>, ops |-> <<applied[i]>>]]
           M == <<Marker(b, r, cs, kind)>>
<1>1. /\ DOMAIN reverts = 1..Len(reverts) /\ Len(reverts) \in Nat
      /\ DOMAIN applied = 1..Len(applied) /\ Len(applied) \in Nat
  BY LenProperties
<1>2. R \in [1..Len(reverts) -> Commit]
  <2> SUFFICES ASSUME NEW i \in 1..Len(reverts)
               PROVE  [id |-> <<b, r, "revert", i>>,
                       ops |-> <<RevertOp(records[reverts[i]].id)>>] \in Commit
    BY <1>1
  <2>1. reverts[i] \in DOMAIN records
    BY ElementOfSeq
  <2>2. records[reverts[i]] \in CommitRecord
    BY <2>1, LenProperties, ElementOfSeq DEF IInv, TypeOK
  <2>3. RevertOp(records[reverts[i]].id) \in Operation
    BY <2>2 DEF Operation, RevertOp, CommitRecord
  <2>4. <<RevertOp(records[reverts[i]].id)>> \in Batch
    BY <2>3 DEF Batch
  <2>5. <<b, r, "revert", i>> \in CommitId
    BY <1>1 DEF CommitId, PartId
  <2> QED
    BY <2>4, <2>5 DEF Commit
<1>3. A \in [1..Len(applied) -> Commit]
  <2> SUFFICES ASSUME NEW i \in 1..Len(applied)
               PROVE  [id |-> <<b, r, "apply", i>>, ops |-> <<applied[i]>>]
                        \in Commit
    BY <1>1
  <2>1. applied[i] \in Operation
    BY ElementOfSeq
  <2>2. <<applied[i]>> \in Batch
    BY <2>1 DEF Batch
  <2>3. <<b, r, "apply", i>> \in CommitId
    BY <1>1 DEF CommitId, PartId
  <2> QED
    BY <2>2, <2>3 DEF Commit
<1>4. M \in [1..1 -> Commit]
  <2>1. {conflicts[cs[i]].id : i \in DOMAIN cs} \in SUBSET Nat
    <3>1. DOMAIN records \subseteq Nat
      BY LenProperties DEF IInv, TypeOK
    <3> QED
      BY <3>1, ListedConflicts
  <2>2. ResolveOp({conflicts[cs[i]].id : i \in DOMAIN cs}, kind) \in Operation
    BY <2>1 DEF Operation, ResolveOp
  <2> DEFINE op == ResolveOp({conflicts[cs[i]].id : i \in DOMAIN cs}, kind)
  <2> HIDE DEF op
  <2>3. op \in Operation
    BY <2>2 DEF op
  <2>4. <<op>> \in Batch
    BY <2>3 DEF Batch
  <2>5. <<b, r>> \in CommitId
    BY DEF CommitId, ResolutionId
  <2>6. Marker(b, r, cs, kind) = [id |-> <<b, r>>, ops |-> <<op>>]
    BY DEF Marker, op
  <2>7. Marker(b, r, cs, kind) \in Commit
    BY <2>4, <2>5, <2>6 DEF Commit
  <2> QED
    BY <2>7
<1>5. Plan(b, r, cs, kind, reverts, applied) = (R \o A) \o M
  BY DEF Plan
<1> HIDE DEF R, A, M
<1>6. R \in Seq(Commit)
  BY <1>1, <1>2, FunctionIsSeq
<1>7. R \o A \in Seq(Commit)
  BY <1>1, <1>3, <1>6, ExtendSeq
<1>8. /\ (R \o A) \o M \in Seq(Commit)
      /\ Len(R \o A) \in Nat
      /\ Len((R \o A) \o M) = Len(R \o A) + 1
  <2> DEFINE RA == R \o A
  <2>1. RA \in Seq(Commit)
    BY <1>7
  <2> HIDE DEF RA
  <2>2. M \in Seq(Commit) /\ Len(M) = 1
    BY <1>4, FunctionIsSeq
  <2>3. RA \o M \in Seq(Commit) /\ Len(RA \o M) = Len(RA) + Len(M)
    BY <2>1, <2>2, ConcatProperties
  <2>4. Len(RA) \in Nat
    BY <2>1, LenProperties
  <2> QED
    BY <2>2, <2>3, <2>4 DEF RA
<1> QED
  BY <1>5, <1>8

\* A resolution whose plan runs to its end.
LEMMA ResolvePreserves ==
    ASSUME IInv, NEW b \in Branches, NEW r \in Resolutions,
           NEW cs \in ConflictLists, NEW plan \in Seq(Commit),
           Len(plan) \in Nat \ {0}, Resolve(b, r, cs, plan)
    PROVE  IInv'
<1>1. plan \in [1..Len(plan) -> Commit]
  BY LenProperties
<1>2. /\ Accept(b, plan, Bases(b, plan))
      /\ conflicts' = [i \in DOMAIN conflicts |->
            IF \E j \in DOMAIN cs : cs[j] = i
            THEN [conflicts[i] EXCEPT !.status = "resolved", !.resolvedBy = <<b, r>>]
            ELSE conflicts[i]]
      /\ resolutionIdempotency' = resolutionIdempotency \cup {<<b, r>>}
      /\ idempotency' = idempotency
  BY DEF Resolve
<1>3. /\ conflicts \in Seq(Conflict)
      /\ Len(conflicts) \in Nat
      /\ DOMAIN conflicts = 1..Len(conflicts)
      /\ \A i \in DOMAIN conflicts : conflicts[i] \in Conflict
  BY LenProperties, ElementOfSeq DEF IInv, TypeOK
<1>4. <<b, r>> \in CommitId /\ <<b, r>> \in ResolutionId
  BY DEF CommitId, ResolutionId
<1>5. \A i \in DOMAIN conflicts : /\ conflicts'[i] \in Conflict
                                  /\ conflicts'[i].id = conflicts[i].id
                                  /\ conflicts'[i].remote = conflicts[i].remote
  <2> TAKE i \in DOMAIN conflicts
  <2>1. \/ conflicts'[i] = conflicts[i]
        \/ conflicts'[i] = [conflicts[i] EXCEPT !.status = "resolved",
                                                !.resolvedBy = <<b, r>>]
    BY <1>2
  <2> QED
    BY <1>3, <1>4, <2>1 DEF Conflict
<1>6. DOMAIN conflicts' = DOMAIN conflicts
  BY <1>2
<1>7. conflicts' \in [1..Len(conflicts) -> Conflict]
  BY <1>2, <1>3, <1>5
<1>8. conflicts' \in Seq(Conflict)
  BY <1>3, <1>7, FunctionIsSeq
<1>9. resolutionIdempotency' \subseteq ResolutionId
  BY <1>2, <1>4 DEF IInv, TypeOK
<1> QED
  BY <1>1, <1>2, <1>5, <1>6, <1>8, <1>9, ChainPreserves

\* A resolution whose plan stops at a commit that throws.
LEMMA InterruptPreserves ==
    ASSUME IInv, NEW b \in Branches, NEW r \in Resolutions,
           NEW cs \in ConflictLists, NEW plan \in Seq(Commit),
           Len(plan) \in Nat \ {0}, Interrupt(b, r, cs, plan)
    PROVE  IInv'
<1>1. PICK n \in 1..(Len(plan) - 1) :
            Accept(b, SubSeq(plan, 1, n), Bases(b, SubSeq(plan, 1, n)))
  BY DEF Interrupt
<1> DEFINE done == SubSeq(plan, 1, n)
<1>2. n \in Nat \ {0}
  BY <1>1
<1>3. \A i \in 1..n : plan[i] \in Commit
  BY <1>1, ElementOfSeq
<1>4. done \in Seq(Commit) /\ Len(done) = n
  <2>1. 1 \in Int /\ n \in Int /\ 1 <= n
    BY <1>2
  <2> QED
    BY <1>2, <1>3, <2>1, SubSeqProperties
<1>5. done \in [1..n -> Commit]
  BY <1>4, LenProperties
<1> HIDE DEF done
<1>6. Accept(b, done, Bases(b, done))
  BY <1>1 DEF done
<1>7. /\ conflicts' = conflicts
      /\ idempotency' = idempotency
      /\ resolutionIdempotency' = resolutionIdempotency
  BY DEF Interrupt
<1>8. conflicts \in Seq(Conflict) /\ resolutionIdempotency \subseteq ResolutionId
  BY DEF IInv, TypeOK
<1> QED
  BY <1>2, <1>5, <1>6, <1>7, <1>8, ChainPreserves


-----------------------------------------------------------------------------
(* The theorems.                                                           *)

\* execute: one of its three outcomes.
LEMMA WritePreserves ==
    ASSUME IInv, NEW b \in Branches, NEW m \in Mutations, Write(b, m)
    PROVE  IInv'
<1>1. PICK base \in KnownBases(b), ops \in WriteBatches \cup Reverts(b) :
            \/ AcceptWrite(b, m, base, ops)
            \/ ReuseEquivalent(b, m, base, ops)
            \/ CaptureConflict(b, m, base, ops)
  BY DEF Write
<1>2. ops \in Batch
  BY BatchesAreTyped DEF IInv
<1>3. CASE AcceptWrite(b, m, base, ops)
  BY <1>2, <1>3, AcceptWritePreserves
<1>4. CASE ReuseEquivalent(b, m, base, ops)
  BY <1>2, <1>4, ReuseEquivalentPreserves
<1>5. CASE CaptureConflict(b, m, base, ops)
  BY <1>2, <1>5, CaptureConflictPreserves
<1> QED
  BY <1>1, <1>3, <1>4, <1>5

\* resolveConflict: with a plan that runs or stops.
LEMMA ResolveConflictPreserves ==
    ASSUME IInv, NEW b \in Branches, NEW r \in Resolutions, ResolveConflict(b, r)
    PROVE  IInv'
<1>1. PICK cs \in ConflictLists :
        \/ Resolve(b, r, cs, KeepTargetPlan(b, r, cs))
        \/ Resolve(b, r, cs, TakeIncomingPlan(b, r, cs))
        \/ Interrupt(b, r, cs, TakeIncomingPlan(b, r, cs))
        \/ \E op \in ManualOperations :
            \/ Resolve(b, r, cs, ManualMergePlan(b, r, cs, op))
            \/ Interrupt(b, r, cs, ManualMergePlan(b, r, cs, op))
  BY DEF ResolveConflict
<1>2. /\ KeepTargetPlan(b, r, cs) \in Seq(Commit)
      /\ Len(KeepTargetPlan(b, r, cs)) \in Nat \ {0}
  <2>1. <<>> \in Seq(DOMAIN records) /\ <<>> \in Seq(Operation)
    BY EmptySeq
  <2>2. "keep_target" \in ResolutionKinds
    BY DEF ResolutionKinds
  <2> QED
    BY <2>1, <2>2, PlanIsTyped DEF KeepTargetPlan
<1>3. /\ TakeIncomingPlan(b, r, cs) \in Seq(Commit)
      /\ Len(TakeIncomingPlan(b, r, cs)) \in Nat \ {0}
  <2>1. "take_incoming" \in ResolutionKinds
    BY DEF ResolutionKinds
  <2> QED
    BY <2>1, RemoteIsTyped, IncomingIsTyped, PlanIsTyped DEF TakeIncomingPlan
<1>4. \A op \in ManualOperations :
            /\ ManualMergePlan(b, r, cs, op) \in Seq(Commit)
            /\ Len(ManualMergePlan(b, r, cs, op)) \in Nat \ {0}
  <2> TAKE op \in ManualOperations
  <2>1. <<>> \in Seq(DOMAIN records)
    BY EmptySeq
  <2>2. <<op>> \in Seq(Operation)
    <3>1. op \in Operation
      BY CloudHistoryAssumption DEF Operation
    <3> QED
      BY <3>1
  <2>3. "manual_merge" \in ResolutionKinds
    BY DEF ResolutionKinds
  <2> QED
    BY <2>1, <2>2, <2>3, PlanIsTyped DEF ManualMergePlan
<1>5. CASE Resolve(b, r, cs, KeepTargetPlan(b, r, cs))
  BY <1>2, <1>5, ResolvePreserves
<1>6. CASE Resolve(b, r, cs, TakeIncomingPlan(b, r, cs))
  BY <1>3, <1>6, ResolvePreserves
<1>7. CASE Interrupt(b, r, cs, TakeIncomingPlan(b, r, cs))
  BY <1>3, <1>7, InterruptPreserves
<1>8. ASSUME NEW op \in ManualOperations,
             \/ Resolve(b, r, cs, ManualMergePlan(b, r, cs, op))
             \/ Interrupt(b, r, cs, ManualMergePlan(b, r, cs, op))
      PROVE  IInv'
  <2>1. CASE Resolve(b, r, cs, ManualMergePlan(b, r, cs, op))
    BY <1>4, <2>1, ResolvePreserves
  <2>2. CASE Interrupt(b, r, cs, ManualMergePlan(b, r, cs, op))
    BY <1>4, <2>2, InterruptPreserves
  <2> QED
    BY <1>8, <2>1, <2>2
<1> QED
  BY <1>1, <1>5, <1>6, <1>7, <1>8

\* Whatever the authority does, its invariant stays true.
LEMMA NextPreserves == IInv /\ [Next]_vars => IInv'
<1> SUFFICES ASSUME IInv, [Next]_vars PROVE IInv'
  OBVIOUS
<1>1. CASE Next
  <2>1. PICK b \in Branches : \/ \E m \in Mutations : Write(b, m)
                              \/ \E r \in Resolutions : ResolveConflict(b, r)
    BY <1>1 DEF Next
  <2> QED
    BY <2>1, WritePreserves, ResolveConflictPreserves
<1>2. CASE UNCHANGED vars
  <2>1. UNCHANGED <<commits, sequence, records, acceptedRequests, conflicts,
                    outbox, idempotency, resolutionIdempotency>>
    BY <1>2 DEF vars
  <2>2. TypeOK' /\ Numbered' /\ ConflictsPointBack'
    BY <2>1 DEF IInv, TypeOK, Numbered, ConflictsPointBack
  <2>3. HeadIsLast'
    BY <2>1 DEF IInv, HeadIsLast, AcceptedOn
  <2>4. NoSilentOverwrite'
    BY <2>1 DEF IInv, NoSilentOverwrite, PassedOverNothing, AcceptedOn
  <2> QED
    BY <2>2, <2>3, <2>4 DEF IInv
<1> QED
  BY <1>1, <1>2

\* The state of the authority keeps its types: records, conflicts and results
\* are well-formed and every plan of a resolution names records that exist.
THEOREM TypeCorrect == Spec => []TypeOK
<1>1. IInv => TypeOK
  BY DEF IInv
<1> QED
  BY <1>1, InitIInv, NextPreserves, PTL DEF Spec

\* No commit the authority accepts, by a write or within a resolution, passes
\* over an unseen commit that touched one of its Conflict Keys.
THEOREM NothingOverwritten == Spec => []NoSilentOverwrite
<1>1. IInv => NoSilentOverwrite
  BY DEF IInv
<1> QED
  BY <1>1, InitIInv, NextPreserves, PTL DEF Spec

-----------------------------------------------------------------------------
(* Lists of commits: a log repeats the entries of a list at the positions  *)
(* I, in their order.                                                      *)

Lists(f, I, list, log) ==
    /\ Enumerates(f, Len(log), I)
    /\ \A k \in 1..Len(log) : /\ list[f[k]].id = log[k].id
                              /\ list[f[k]].ops = log[k].ops

Listed(I, list, log) == \E f : Lists(f, I, list, log)

\* The entries of a list that a log repeats are that log.
LEMMA ListedIsAt ==
    ASSUME NEW log \in Seq(Commit), NEW I, NEW list, Listed(I, list, log)
    PROVE  /\ [i \in DOMAIN At(list, I) |->
                  [id |-> At(list, I)[i].id, ops |-> At(list, I)[i].ops]] = log
           /\ Cardinality(I) = Len(log) /\ IsFiniteSet(I)
           /\ \A i \in I : \E k \in DOMAIN log : log[k].id = list[i].id /\ log[k].ops = list[i].ops
           /\ \A k \in DOMAIN log : \E i \in I : log[k].id = list[i].id /\ log[k].ops = list[i].ops
<1> DEFINE m == Len(log)
<1>1. m \in Nat /\ DOMAIN log = 1..m /\ log \in [1..m -> Commit]
  BY LenProperties
<1>2. PICK f : Lists(f, I, list, log)
  BY DEF Listed
<1>3. Enumerates(f, m, I) /\ \A k \in 1..m : list[f[k]].id = log[k].id /\ list[f[k]].ops = log[k].ops
  BY <1>2 DEF Lists
<1> HIDE DEF m
<1>4. Cardinality(I) = m /\ IsFiniteSet(I)
  BY <1>1, <1>3, EnumerationCounts
<1>5. ASSUME NEW n \in 1..m
      PROVE  Nth(I, n) = f[n]
  <2>1. Enumerates(f, m, I)
    BY <1>3
  <2>2. \A i : IsNth(i, n, I) <=> i = f[n]
    BY <1>1, <2>1, EnumerationOrder
  <2>3. f[n] \in I /\ Cardinality({j \in I : j <= f[n]}) = n
    BY <2>2 DEF IsNth
  <2>4. \A i \in I : Cardinality({j \in I : j <= i}) = n => i = f[n]
    BY <2>2 DEF IsNth
  <2> QED
    BY <2>3, <2>4 DEF Nth
<1>6. DOMAIN At(list, I) = 1..m /\ \A n \in 1..m : At(list, I)[n] = list[f[n]]
  BY <1>4, <1>5 DEF At
<1>7. \A n \in 1..m : log[n] = [id |-> log[n].id, ops |-> log[n].ops]
  BY <1>1 DEF Commit
<1>8. [i \in DOMAIN At(list, I) |->
                  [id |-> At(list, I)[i].id, ops |-> At(list, I)[i].ops]] = log
  BY <1>1, <1>3, <1>6, <1>7
<1>9. I = {f[k] : k \in 1..m}
  BY <1>3 DEF Enumerates
<1>10. \A i \in I : \E k \in DOMAIN log : log[k].id = list[i].id /\ log[k].ops = list[i].ops
  BY <1>1, <1>3, <1>9
<1>11. \A k \in DOMAIN log : \E i \in I : log[k].id = list[i].id /\ log[k].ops = list[i].ops
  BY <1>1, <1>3, <1>9
<1> QED
  BY <1>4, <1>8, <1>10, <1>11 DEF m

\* Entries appended behind a list do not disturb a log it already repeats.
LEMMA ListedStays ==
    ASSUME NEW log \in Seq(Commit), NEW L \in Nat, NEW I \in SUBSET (1..L), NEW list, NEW longer,
           \A i \in 1..L : longer[i] = list[i],
           Listed(I, list, log)
    PROVE  Listed(I, longer, log)
<1>1. PICK f : Lists(f, I, list, log)
  BY DEF Listed
<1>2. \A k \in 1..Len(log) : f[k] \in 1..L
  BY <1>1 DEF Lists, Enumerates
<1>3. Lists(f, I, longer, log)
  BY <1>1, <1>2 DEF Lists
<1> QED
  BY <1>3 DEF Listed

\* A list and a log that grow by the same commits keep repeating each other.
LEMMA ListedGrows ==
    ASSUME NEW log \in Seq(Commit), NEW L \in Nat, NEW I \in SUBSET (1..L), NEW list, NEW longer,
           \A i \in 1..L : longer[i] = list[i],
           NEW n \in Nat, NEW new \in [1..n -> Commit],
           \A k \in 1..n : longer[L + k].id = new[k].id /\ longer[L + k].ops = new[k].ops,
           Listed(I, list, log)
    PROVE  Listed(WithNext(I, L, n), longer, log \o new)
<1>1. PICK f : Lists(f, I, list, log)
  BY DEF Listed
<1> DEFINE m == Len(log)
           both == log \o new
<1>2. /\ m \in Nat /\ Len(both) = m + n
      /\ \A k \in 1..m : both[k] = log[k]
      /\ \A k \in 1..n : both[m + k] = new[k]
  <2>1. /\ Len(log) \in Nat
        /\ Len(log \o new) = Len(log) + n
        /\ \A k \in 1..Len(log) : (log \o new)[k] = log[k]
        /\ \A k \in 1..n : (log \o new)[Len(log) + k] = new[k]
    BY ExtendSeq
  <2> QED
    BY <2>1
<1>3. /\ Enumerates(f, m, I) /\ f \in [1..m -> Nat]
      /\ \A k \in 1..m : f[k] \in I /\ list[f[k]].id = log[k].id /\ list[f[k]].ops = log[k].ops
  BY <1>1 DEF Lists, Enumerates
<1> HIDE DEF m, both
<1> DEFINE h == [k \in 1..(m + n) |-> IF k <= m THEN f[k] ELSE L + (k - m)]
<1>4. Enumerates(h, m + n, WithNext(I, L, n))
  <2>1. BoundedBy(I, L)
    BY DEF BoundedBy
  <2>2. ContinuesFrom(h, f, m, n, L)
    BY DEF ContinuesFrom
  <2> HIDE DEF h
  <2>3. m \in Nat
    BY <1>2
  <2>4. Enumerates(f, m, I)
    BY <1>3
  <2> QED
    BY <2>1, <2>2, <2>3, <2>4, ExtendEnumeration
<1>5. ASSUME NEW k \in 1..(m + n)
      PROVE  longer[h[k]].id = both[k].id /\ longer[h[k]].ops = both[k].ops
  <2>1. CASE k <= m
    <3>1. k \in 1..m /\ h[k] = f[k]
      BY <1>2, <2>1
    <3>2. f[k] \in 1..L
      BY <1>3, <3>1
    <3>3. longer[h[k]] = list[f[k]] /\ both[k] = log[k]
      BY <1>2, <3>1, <3>2
    <3> QED
      BY <1>3, <3>1, <3>3
  <2>2. CASE ~(k <= m)
    <3> DEFINE j == k - m
    <3>1. j \in 1..n /\ k = m + j /\ h[k] = L + j
      BY <1>2, <2>2
    <3> HIDE DEF j, h
    <3>2. both[k] = new[j] /\ longer[h[k]].id = new[j].id /\ longer[h[k]].ops = new[j].ops
      BY <1>2, <3>1
    <3> QED
      BY <3>2
  <2> QED
    BY <2>1, <2>2
<1> HIDE DEF h
<1>6. Lists(h, WithNext(I, L, n), longer, both)
  BY <1>2, <1>4, <1>5 DEF Lists
<1> QED
  BY <1>6 DEF Listed, both

-----------------------------------------------------------------------------
(* The logs.                                                               *)

LogIsAccepted == \A b \in Branches : Listed(AcceptedOn(b), records, commits[b])
LogIsRequested == \A b \in Branches : Listed(RequestsOf(b), acceptedRequests, commits[b])

EventOf(record, i) ==
    [sequence |-> i, branch |-> record.branch, commit |-> record.id,
     kind |-> IF record.status = "accepted" THEN "commit_accepted" ELSE "conflict_created"]

EventsMatch ==
    /\ Len(outbox) = Len(records)
    /\ \A i \in DOMAIN records : outbox[i] = EventOf(records[i], i)

LogReplays ==
    \A b \in Branches : \A n \in 1..Len(commits[b]) :
        Replay(SeedView, SubSeq(commits[b], 1, n)).ok

Once(log) == \A i, j \in DOMAIN log : log[i].id = log[j].id => i = j

IdsOnce == \A b \in Branches : Once(commits[b])

LogInv == LogIsAccepted /\ LogIsRequested /\ EventsMatch /\ LogReplays /\ IdsOnce

\* The empty log tells one story.
LEMMA InitLogInv == Init => LogInv
<1> SUFFICES ASSUME Init PROVE LogInv
  OBVIOUS
<1>1. Len(<<>>) = 0 /\ DOMAIN <<>> = {}
  OBVIOUS
<1>2. \A list : Listed({}, list, <<>>)
  <2> TAKE list
  <2>1. Enumerates(<<>>, 0, {})
    BY DEF Enumerates
  <2>2. Lists(<<>>, {}, list, <<>>)
    BY <1>1, <2>1 DEF Lists
  <2> QED
    BY <2>2 DEF Listed
<1>3. \A b \in Branches : commits[b] = <<>> /\ AcceptedOn(b) = {} /\ RequestsOf(b) = {}
  BY DEF Init, AcceptedOn, RequestsOf
<1>4. LogIsAccepted /\ LogIsRequested
  BY <1>2, <1>3 DEF LogIsAccepted, LogIsRequested
<1>5. EventsMatch
  BY DEF Init, EventsMatch
<1>6. LogReplays /\ IdsOnce
  BY <1>1, <1>3 DEF LogReplays, IdsOnce, Once
<1> QED
  BY <1>4, <1>5, <1>6 DEF LogInv

\* The records of a branch after accept.
LEMMA AcceptedGrows ==
    ASSUME NEW b, NEW n \in Nat, NEW new, RecordsAppended(b, n, new)
    PROVE  /\ AcceptedOn(b)' = WithNext(AcceptedOn(b), Len(records), n)
           /\ \A c : c # b => AcceptedOn(c)' = AcceptedOn(c)
<1>1. /\ Len(records) \in Nat
      /\ DOMAIN records = 1..Len(records)
      /\ DOMAIN records' = 1..(Len(records) + n)
      /\ \A i \in 1..Len(records) : records'[i] = records[i]
      /\ \A k \in 1..n : /\ records'[Len(records) + k].branch = b
                         /\ records'[Len(records) + k].status = "accepted"
  <2>1. ASSUME NEW k \in 1..n
        PROVE  /\ records'[Len(records) + k].branch = b
               /\ records'[Len(records) + k].status = "accepted"
    <3>1. records'[Len(records) + k] =
            [sequence |-> sequence + k, branch |-> b, id |-> new[k].id,
             ops |-> new[k].ops, status |-> "accepted"]
      BY DEF RecordsAppended
    <3> QED
      BY <3>1
  <2> QED
    BY <2>1 DEF RecordsAppended
<1>2. ASSUME NEW i \in DOMAIN records', i \notin DOMAIN records
      PROVE  \E k \in 1..n : i = Len(records) + k
  <2>1. i - Len(records) \in 1..n /\ i = Len(records) + (i - Len(records))
    BY <1>1, <1>2
  <2> QED
    BY <2>1
<1>3. \A k \in 1..n : Len(records) + k \in DOMAIN records' /\ Len(records) + k \notin DOMAIN records
  BY <1>1
<1>4. \A i \in DOMAIN records : i \in DOMAIN records' /\ records'[i] = records[i]
  BY <1>1
<1>5. AcceptedOn(b)' = WithNext(AcceptedOn(b), Len(records), n)
  <2>1. ASSUME NEW i \in AcceptedOn(b)'
        PROVE  i \in AcceptedOn(b) \cup {Len(records) + k : k \in 1..n}
    <3>1. CASE i \in DOMAIN records
      BY <1>4, <3>1 DEF AcceptedOn
    <3>2. CASE i \notin DOMAIN records
      BY <1>2, <3>2 DEF AcceptedOn
    <3> QED
      BY <3>1, <3>2
  <2>2. \A i \in AcceptedOn(b) : i \in AcceptedOn(b)'
    BY <1>4 DEF AcceptedOn
  <2>3. \A k \in 1..n : Len(records) + k \in AcceptedOn(b)'
    BY <1>1, <1>3 DEF AcceptedOn
  <2> QED
    BY <2>1, <2>2, <2>3 DEF WithNext
<1>6. ASSUME NEW c, c # b
      PROVE  AcceptedOn(c)' = AcceptedOn(c)
  BY <1>1, <1>2, <1>3, <1>4, <1>6 DEF AcceptedOn
<1> QED
  BY <1>5, <1>6

\* The requests of a branch after accept.
LEMMA RequestsGrow ==
    ASSUME NEW b, NEW n \in Nat, NEW new, NEW bases, RequestsAppended(b, n, new, bases)
    PROVE  /\ RequestsOf(b)' = WithNext(RequestsOf(b), Len(acceptedRequests), n)
           /\ \A c : c # b => RequestsOf(c)' = RequestsOf(c)
<1>1. /\ Len(acceptedRequests) \in Nat
      /\ DOMAIN acceptedRequests = 1..Len(acceptedRequests)
      /\ DOMAIN acceptedRequests' = 1..(Len(acceptedRequests) + n)
      /\ \A i \in 1..Len(acceptedRequests) : acceptedRequests'[i] = acceptedRequests[i]
      /\ \A k \in 1..n : acceptedRequests'[Len(acceptedRequests) + k].branch = b
  <2>1. ASSUME NEW k \in 1..n
        PROVE  acceptedRequests'[Len(acceptedRequests) + k].branch = b
    <3>1. acceptedRequests'[Len(acceptedRequests) + k] =
            [sequence |-> sequence + k, branch |-> b, id |-> new[k].id,
             ops |-> new[k].ops, base |-> bases[k]]
      BY DEF RequestsAppended
    <3> QED
      BY <3>1
  <2> QED
    BY <2>1 DEF RequestsAppended
<1>2. ASSUME NEW i \in DOMAIN acceptedRequests', i \notin DOMAIN acceptedRequests
      PROVE  \E k \in 1..n : i = Len(acceptedRequests) + k
  <2>1. /\ i - Len(acceptedRequests) \in 1..n
        /\ i = Len(acceptedRequests) + (i - Len(acceptedRequests))
    BY <1>1, <1>2
  <2> QED
    BY <2>1
<1>3. \A k \in 1..n : /\ Len(acceptedRequests) + k \in DOMAIN acceptedRequests'
                      /\ Len(acceptedRequests) + k \notin DOMAIN acceptedRequests
  BY <1>1
<1>4. \A i \in DOMAIN acceptedRequests :
        i \in DOMAIN acceptedRequests' /\ acceptedRequests'[i] = acceptedRequests[i]
  BY <1>1
<1>5. RequestsOf(b)' = WithNext(RequestsOf(b), Len(acceptedRequests), n)
  <2>1. ASSUME NEW i \in RequestsOf(b)'
        PROVE  i \in WithNext(RequestsOf(b), Len(acceptedRequests), n)
    <3>1. CASE i \in DOMAIN acceptedRequests
      BY <1>4, <3>1 DEF RequestsOf, WithNext
    <3>2. CASE i \notin DOMAIN acceptedRequests
      BY <1>2, <3>2 DEF RequestsOf, WithNext
    <3> QED
      BY <3>1, <3>2
  <2>2. \A i \in RequestsOf(b) : i \in RequestsOf(b)'
    BY <1>4 DEF RequestsOf
  <2>3. \A k \in 1..n : Len(acceptedRequests) + k \in RequestsOf(b)'
    BY <1>1, <1>3 DEF RequestsOf
  <2> QED
    BY <2>1, <2>2, <2>3 DEF WithNext
<1>6. ASSUME NEW c, c # b
      PROVE  RequestsOf(c)' = RequestsOf(c)
  BY <1>1, <1>2, <1>3, <1>4, <1>6 DEF RequestsOf
<1> QED
  BY <1>5, <1>6

\* Each commit of a list goes through behind those before it.
GoesThrough(b, new) == \A i \in DOMAIN new : Runs(b, new, i)

\* No commit of new has the id of one in front of it.
FreshBehind(old, new) ==
    \A k \in 1..Len(new) : \A x \in DOMAIN (old \o SubSeq(new, 1, k - 1)) :
        (old \o SubSeq(new, 1, k - 1))[x].id # new[k].id

\* Commits with fresh ids keep the ids of a log distinct.
LEMMA OnceInConcat ==
    ASSUME NEW old \in Seq(Commit), NEW new \in Seq(Commit),
           Once(old), FreshBehind(old, new)
    PROVE  Once(old \o new)
<1> DEFINE m == Len(old)
           n == Len(new)
           log == old \o new
<1>1. /\ m \in Nat /\ n \in Nat
      /\ new \in [1..n -> Commit]
      /\ DOMAIN old = 1..m
  BY LenProperties
<1>2. /\ DOMAIN log = 1..(m + n)
      /\ \A i \in 1..m : log[i] = old[i]
      /\ \A k \in 1..n : log[m + k] = new[k]
  BY <1>1, ExtendSeq
<1> HIDE DEF log
<1>3. ASSUME NEW k \in 1..n
      PROVE  \A i \in 1..(m + (k - 1)) : log[i].id # new[k].id
  <2> DEFINE j == k - 1
             front == SubSeq(new, 1, j)
             before == old \o front
  <2>1. j \in 0..n /\ j \in Nat /\ j < k
    BY <1>1
  <2>2. \A x \in DOMAIN before : before[x].id # new[k].id
    BY DEF FreshBehind
  <2> HIDE DEF j
  <2>3. front \in Seq(Commit) /\ Len(front) = j /\ \A x \in 1..j : front[x] = new[x]
    BY <2>1, PrefixSteps
  <2> HIDE DEF front
  <2>4. front \in [1..j -> Commit]
    BY <2>3, LenProperties
  <2>5. /\ DOMAIN before = 1..(m + j)
        /\ \A x \in 1..m : before[x] = old[x]
        /\ \A x \in 1..j : before[m + x] = front[x]
    BY <2>1, <2>4, ExtendSeq
  <2> HIDE DEF before
  <2>6. ASSUME NEW i \in 1..(m + j)
        PROVE  before[i] = log[i]
    <3>1. CASE i \in 1..m
      BY <1>2, <2>5, <3>1
    <3>2. CASE i \notin 1..m
      <4> DEFINE x == i - m
      <4>1. x \in 1..j /\ i = m + x /\ x \in 1..n
        BY <1>1, <2>1, <3>2
      <4> HIDE DEF x
      <4> QED
        BY <1>2, <2>3, <2>5, <4>1
    <3> QED
      BY <3>1, <3>2
  <2> QED
    BY <2>2, <2>5, <2>6 DEF j
<1> HIDE DEF m, n
<1>4. ASSUME NEW i \in 1..(m + n), NEW j \in 1..(m + n), i < j
      PROVE  log[i].id # log[j].id
  <2>1. CASE j <= m
    <3>1. i \in 1..m /\ j \in 1..m /\ i # j
      BY <1>1, <1>4, <2>1
    <3> QED
      BY <1>1, <1>2, <3>1 DEF Once
  <2>2. CASE ~(j <= m)
    <3> DEFINE k == j - m
    <3>1. k \in 1..n /\ j = m + k
      BY <1>1, <2>2
    <3>2. i \in 1..(m + (k - 1))
      BY <1>1, <1>4, <3>1
    <3> HIDE DEF k
    <3>3. log[j] = new[k]
      BY <1>2, <3>1
    <3> QED
      BY <1>3, <3>1, <3>2, <3>3
  <2> QED
    BY <2>1, <2>2
<1>5. Once(log)
  <2> SUFFICES ASSUME NEW i \in 1..(m + n), NEW j \in 1..(m + n), i # j
               PROVE  log[i].id # log[j].id
    BY <1>2 DEF Once
  <2>1. i < j \/ j < i
    BY <1>1
  <2> QED
    BY <1>4, <2>1
<1> QED
  BY <1>5 DEF log

\* Accepting commits that go through keeps the log invariant.
LEMMA AcceptKeepsLog ==
    ASSUME IInv, LogInv, NEW b \in Branches, NEW n \in Nat,
           NEW new \in [1..n -> Commit],
           NEW bases \in [1..n -> CommitId \cup {None}],
           Accept(b, new, bases), GoesThrough(b, new)
    PROVE  LogInv'
<1>1. TypeOK /\ sequence = Len(records)
  BY DEF IInv, Numbered
<1>2. RecordsAppended(b, n, new) /\ RequestsAppended(b, n, new, bases)
  BY <1>1, AcceptAppends
<1>3. /\ \A c \in Branches : commits[c] \in Seq(Commit)
      /\ commits'[b] = commits[b] \o new
      /\ \A c \in Branches : c # b => commits'[c] = commits[c]
      /\ new \in Seq(Commit) /\ Len(new) = n /\ DOMAIN new = 1..n
  BY <1>1, FunctionIsSeq DEF TypeOK, Accept
<1>4. LogIsAccepted'
  <2>1. /\ Len(records) \in Nat
        /\ \A i \in 1..Len(records) : records'[i] = records[i]
        /\ \A c : AcceptedOn(c) \in SUBSET (1..Len(records))
    BY <1>2 DEF RecordsAppended, AcceptedOn
  <2>2. ASSUME NEW k \in 1..n
        PROVE  /\ records'[Len(records) + k].id = new[k].id
               /\ records'[Len(records) + k].ops = new[k].ops
    <3>1. records'[Len(records) + k] =
            [sequence |-> sequence + k, branch |-> b, id |-> new[k].id,
             ops |-> new[k].ops, status |-> "accepted"]
      BY <1>2 DEF RecordsAppended
    <3> QED
      BY <3>1
  <2>3. Listed(AcceptedOn(b)', records', commits'[b])
    <3>1. Listed(WithNext(AcceptedOn(b), Len(records), n), records', commits[b] \o new)
      <4>1. Listed(AcceptedOn(b), records, commits[b])
        BY DEF LogInv, LogIsAccepted
      <4> QED
        BY <1>3, <2>1, <2>2, <4>1, ListedGrows
    <3> QED
      BY <1>2, <1>3, <3>1, AcceptedGrows
  <2>4. ASSUME NEW c \in Branches, c # b
        PROVE  Listed(AcceptedOn(c)', records', commits'[c])
    <3>1. Listed(AcceptedOn(c), records, commits[c])
      BY DEF LogInv, LogIsAccepted
    <3>2. Listed(AcceptedOn(c), records', commits[c])
      BY <1>3, <2>1, <3>1, ListedStays
    <3> QED
      BY <1>2, <1>3, <2>4, <3>2, AcceptedGrows
  <2> QED
    BY <2>3, <2>4 DEF LogIsAccepted
<1>5. LogIsRequested'
  <2>1. /\ Len(acceptedRequests) \in Nat
        /\ \A i \in 1..Len(acceptedRequests) : acceptedRequests'[i] = acceptedRequests[i]
        /\ \A c : RequestsOf(c) \in SUBSET (1..Len(acceptedRequests))
    BY <1>2 DEF RequestsAppended, RequestsOf
  <2>2. ASSUME NEW k \in 1..n
        PROVE  /\ acceptedRequests'[Len(acceptedRequests) + k].id = new[k].id
               /\ acceptedRequests'[Len(acceptedRequests) + k].ops = new[k].ops
    <3>1. acceptedRequests'[Len(acceptedRequests) + k] =
            [sequence |-> sequence + k, branch |-> b, id |-> new[k].id,
             ops |-> new[k].ops, base |-> bases[k]]
      BY <1>2 DEF RequestsAppended
    <3> QED
      BY <3>1
  <2>3. Listed(RequestsOf(b)', acceptedRequests', commits'[b])
    <3>1. Listed(WithNext(RequestsOf(b), Len(acceptedRequests), n),
                 acceptedRequests', commits[b] \o new)
      <4>1. Listed(RequestsOf(b), acceptedRequests, commits[b])
        BY DEF LogInv, LogIsRequested
      <4> QED
        BY <1>3, <2>1, <2>2, <4>1, ListedGrows
    <3> QED
      BY <1>2, <1>3, <3>1, RequestsGrow
  <2>4. ASSUME NEW c \in Branches, c # b
        PROVE  Listed(RequestsOf(c)', acceptedRequests', commits'[c])
    <3>1. Listed(RequestsOf(c), acceptedRequests, commits[c])
      BY DEF LogInv, LogIsRequested
    <3>2. Listed(RequestsOf(c), acceptedRequests', commits[c])
      BY <1>3, <2>1, <3>1, ListedStays
    <3> QED
      BY <1>2, <1>3, <2>4, <3>2, RequestsGrow
  <2> QED
    BY <2>3, <2>4 DEF LogIsRequested
<1>6. EventsMatch'
  <2> DEFINE events == [i \in DOMAIN new |->
                [sequence |-> sequence + i, branch |-> b, commit |-> new[i].id,
                 kind |-> "commit_accepted"]]
  <2>1. outbox' = outbox \o events /\ outbox \in Seq(OutboxEvent)
    BY <1>1 DEF Accept, TypeOK
  <2>2. events \in [1..n -> OutboxEvent]
    BY <1>1, <1>3 DEF OutboxEvent, Commit, TypeOK
  <2>3. \A k \in 1..n : events[k] = [sequence |-> sequence + k, branch |-> b,
                                     commit |-> new[k].id, kind |-> "commit_accepted"]
    BY <1>3
  <2> HIDE DEF events
  <2>4. /\ Len(outbox') = Len(outbox) + n
        /\ \A i \in 1..Len(outbox) : outbox'[i] = outbox[i]
        /\ \A k \in 1..n : outbox'[Len(outbox) + k] = events[k]
    BY <2>1, <2>2, ExtendSeq
  <2>5. /\ Len(outbox) = Len(records) /\ Len(records) \in Nat
        /\ \A i \in DOMAIN records : outbox[i] = EventOf(records[i], i)
    BY <1>2 DEF LogInv, EventsMatch, RecordsAppended
  <2>6. /\ DOMAIN records = 1..Len(records)
        /\ DOMAIN records' = 1..(Len(records) + n)
        /\ Len(records') = Len(records) + n
        /\ \A i \in 1..Len(records) : records'[i] = records[i]
    BY <1>2 DEF RecordsAppended
  <2>7. ASSUME NEW i \in DOMAIN records'
        PROVE  outbox'[i] = EventOf(records'[i], i)
    <3>1. CASE i \in 1..Len(records)
      BY <2>4, <2>5, <2>6, <3>1
    <3>2. CASE i \notin 1..Len(records)
      <4>1. PICK k \in 1..n : i = Len(records) + k
        <5>1. i - Len(records) \in 1..n /\ i = Len(records) + (i - Len(records))
          BY <2>5, <2>6, <3>2
        <5> QED
          BY <5>1
      <4>2. records'[i] =
                [sequence |-> sequence + k, branch |-> b, id |-> new[k].id,
                 ops |-> new[k].ops, status |-> "accepted"]
        BY <1>2, <4>1 DEF RecordsAppended
      <4>3. outbox'[i] = [sequence |-> sequence + k, branch |-> b,
                          commit |-> new[k].id, kind |-> "commit_accepted"]
        BY <2>3, <2>4, <2>5, <4>1
      <4> QED
        BY <1>1, <4>1, <4>2, <4>3 DEF EventOf
    <3> QED
      BY <3>1, <3>2
  <2> QED
    BY <2>4, <2>5, <2>6, <2>7 DEF EventsMatch
<1>7. LogReplays'
  <2>1. ASSUME NEW k \in 1..Len(commits'[b])
        PROVE  Replay(SeedView, SubSeq(commits'[b], 1, k)).ok
    <3> DEFINE m == Len(commits[b])
    <3>1. m \in Nat /\ Len(commits'[b]) = m + n
      <4>1. commits[b] \in Seq(Commit) /\ commits'[b] = commits[b] \o new
        BY <1>3
      <4>2. Len(commits[b]) \in Nat /\ Len(commits[b] \o new) = Len(commits[b]) + n
        BY <4>1, ExtendSeq
      <4> QED
        BY <4>1, <4>2
    <3>2. CASE k <= m
      <4>1. k \in 1..m /\ k \in 0..m
        BY <3>1, <3>2
      <4>2. SubSeq(commits'[b], 1, k) = SubSeq(commits[b], 1, k)
        BY <1>3, <4>1, PrefixOfConcat
      <4> QED
        BY <4>1, <4>2 DEF LogInv, LogReplays
    <3>3. CASE ~(k <= m)
      <4> DEFINE i == k - m
      <4>1. i \in 1..n /\ k = m + i
        BY <3>1, <3>3
      <4> HIDE DEF i
      <4>2. SubSeq(commits[b] \o new, 1, m + i)
                = Append(commits[b] \o SubSeq(new, 1, i - 1), new[i])
        BY <1>3, <4>1, PrefixOfConcat
      <4>3. Runs(b, new, i)
        BY <1>3, <4>1 DEF GoesThrough
      <4> QED
        BY <1>3, <4>1, <4>2, <4>3 DEF Runs, Executable
    <3> QED
      BY <3>2, <3>3
  <2> QED
    BY <1>3, <2>1 DEF LogInv, LogReplays
<1>8. IdsOnce'
  <2>1. Once(commits[b])
    BY DEF LogInv, IdsOnce
  <2>2. FreshBehind(commits[b], new)
    <3> SUFFICES ASSUME NEW k \in 1..n
                 PROVE  \A x \in DOMAIN (commits[b] \o SubSeq(new, 1, k - 1)) :
                            (commits[b] \o SubSeq(new, 1, k - 1))[x].id # new[k].id
      BY <1>3 DEF FreshBehind
    <3>1. Runs(b, new, k)
      BY <1>3 DEF GoesThrough
    <3> QED
      BY <3>1 DEF Runs, Executable
  <2>3. Once(commits'[b])
    BY <1>3, <2>1, <2>2, OnceInConcat
  <2> QED
    BY <1>3, <2>3 DEF LogInv, IdsOnce
<1> QED
  BY <1>4, <1>5, <1>6, <1>7, <1>8 DEF LogInv

\* The record of a captured write stands behind the old ones.
RecordCaptured(b, m, ops) ==
    /\ sequence' = sequence + 1
    /\ Len(records) \in Nat
    /\ DOMAIN records = 1..Len(records)
    /\ DOMAIN records' = 1..(Len(records) + 1)
    /\ Len(records') = Len(records) + 1
    /\ \A i \in 1..Len(records) : records'[i] = records[i]
    /\ records'[Len(records) + 1] =
         [sequence |-> sequence + 1, branch |-> b, id |-> <<b, m>>, ops |-> ops,
          status |-> "conflicted"]

EventCaptured(b, m) ==
    /\ Len(outbox') = Len(outbox) + 1
    /\ \A i \in 1..Len(outbox) : outbox'[i] = outbox[i]
    /\ outbox'[Len(outbox) + 1] =
         [sequence |-> sequence + 1, branch |-> b, commit |-> <<b, m>>,
          kind |-> "conflict_created"]

\* What capturing a conflict appends: nothing that is accepted.
LEMMA CaptureRecords ==
    ASSUME IInv, NEW b \in Branches, NEW m \in Mutations,
           NEW base \in KnownBases(b), NEW ops \in Batch,
           CaptureConflict(b, m, base, ops)
    PROVE  /\ RecordCaptured(b, m, ops)
           /\ EventCaptured(b, m)
           /\ \A c : AcceptedOn(c)' = AcceptedOn(c)
<1> DEFINE s == sequence + 1
           record == [sequence |-> s, branch |-> b, id |-> <<b, m>>, ops |-> ops,
                      status |-> "conflicted"]
           event == [sequence |-> s, branch |-> b, commit |-> <<b, m>>,
                     kind |-> "conflict_created"]
<1>1. /\ sequence' = s
      /\ records' = Append(records, record)
      /\ outbox' = Append(outbox, event)
  BY DEF CaptureConflict
<1>2. /\ <<b, m>> \in CommitId /\ ops \in Batch /\ s \in Nat
      /\ records \in Seq(CommitRecord) /\ outbox \in Seq(OutboxEvent)
  BY DEF IInv, TypeOK, CommitId, WriteId
<1>3. record \in CommitRecord /\ event \in OutboxEvent
  BY <1>2 DEF CommitRecord, OutboxEvent
<1>4. /\ record.status = "conflicted"
      /\ record = [sequence |-> sequence + 1, branch |-> b, id |-> <<b, m>>, ops |-> ops,
                   status |-> "conflicted"]
      /\ event = [sequence |-> sequence + 1, branch |-> b, commit |-> <<b, m>>,
                  kind |-> "conflict_created"]
  OBVIOUS
<1> HIDE DEF record, event
<1>5. /\ Len(records) \in Nat
      /\ DOMAIN records = 1..Len(records)
      /\ DOMAIN records' = 1..(Len(records) + 1)
      /\ Len(records') = Len(records) + 1
      /\ \A i \in 1..Len(records) : records'[i] = records[i]
      /\ records'[Len(records) + 1] = record
  BY <1>1, <1>2, <1>3, AppendProperties, LenProperties
<1>6. /\ Len(outbox') = Len(outbox) + 1
      /\ \A i \in 1..Len(outbox) : outbox'[i] = outbox[i]
      /\ outbox'[Len(outbox) + 1] = event
  BY <1>1, <1>2, <1>3, AppendProperties, LenProperties
<1>7. RecordCaptured(b, m, ops)
  BY <1>1, <1>4, <1>5 DEF RecordCaptured
<1>8. EventCaptured(b, m)
  BY <1>4, <1>6 DEF EventCaptured
<1>9. ASSUME NEW c
      PROVE  AcceptedOn(c)' = AcceptedOn(c)
  <2>1. Len(records) + 1 \notin AcceptedOn(c)'
    BY <1>4, <1>5 DEF AcceptedOn
  <2>2. \A i \in AcceptedOn(c)' : i <= Len(records)
    BY <1>5, <2>1 DEF AcceptedOn
  <2>3. /\ \A i \in AcceptedOn(c) : i \in AcceptedOn(c)'
        /\ \A i \in AcceptedOn(c)' : i <= Len(records) => i \in AcceptedOn(c)
    BY <1>5, AcceptedAfterExtension
  <2> QED
    BY <2>2, <2>3
<1> QED
  BY <1>7, <1>8, <1>9

\* So does a write or a revert of a client that is captured.
LEMMA CaptureAppends ==
    ASSUME IInv, NEW b \in Branches, NEW m \in Mutations,
           NEW base \in KnownBases(b), NEW ops \in WriteBatches \cup Reverts(b),
           CaptureConflict(b, m, base, ops)
    PROVE  /\ RecordCaptured(b, m, ops)
           /\ EventCaptured(b, m)
           /\ \A c : AcceptedOn(c)' = AcceptedOn(c)
BY BatchesAreTyped, CaptureRecords DEF IInv

\* Capturing a conflict keeps the log invariant: no log changes.
LEMMA CaptureKeepsLog ==
    ASSUME IInv, LogInv, NEW b \in Branches, NEW m \in Mutations,
           NEW base \in KnownBases(b), NEW ops \in WriteBatches \cup Reverts(b),
           CaptureConflict(b, m, base, ops)
    PROVE  LogInv'
<1>1. RecordCaptured(b, m, ops) /\ EventCaptured(b, m) /\ \A c : AcceptedOn(c)' = AcceptedOn(c)
  BY CaptureAppends
<1>2. UNCHANGED <<commits, acceptedRequests>>
  BY DEF CaptureConflict
<1>3. /\ Len(records) \in Nat /\ DOMAIN records = 1..Len(records)
      /\ DOMAIN records' = 1..(Len(records) + 1) /\ Len(records') = Len(records) + 1
      /\ \A i \in 1..Len(records) : records'[i] = records[i]
      /\ records'[Len(records) + 1] =
            [sequence |-> sequence + 1, branch |-> b, id |-> <<b, m>>, ops |-> ops,
             status |-> "conflicted"]
  BY <1>1 DEF RecordCaptured
<1>4. LogIsAccepted'
  <2> SUFFICES ASSUME NEW c \in Branches
               PROVE  Listed(AcceptedOn(c)', records', commits'[c])
    BY DEF LogIsAccepted
  <2>1. Listed(AcceptedOn(c), records, commits[c]) /\ commits[c] \in Seq(Commit)
    BY DEF LogInv, LogIsAccepted, IInv, TypeOK
  <2>2. AcceptedOn(c) \in SUBSET (1..Len(records))
    BY <1>3 DEF AcceptedOn
  <2>3. Listed(AcceptedOn(c), records', commits[c])
    BY <1>3, <2>1, <2>2, ListedStays
  <2> QED
    BY <1>1, <1>2, <2>3
<1>5. LogIsRequested'
  BY <1>2 DEF LogInv, LogIsRequested, RequestsOf
<1>6. EventsMatch'
  <2>1. /\ Len(outbox') = Len(outbox) + 1 /\ Len(outbox) = Len(records)
        /\ \A i \in 1..Len(outbox) : outbox'[i] = outbox[i]
        /\ outbox'[Len(outbox) + 1] =
             [sequence |-> sequence + 1, branch |-> b, commit |-> <<b, m>>,
              kind |-> "conflict_created"]
    BY <1>1 DEF EventCaptured, LogInv, EventsMatch
  <2>2. \A i \in DOMAIN records : outbox[i] = EventOf(records[i], i)
    BY DEF LogInv, EventsMatch
  <2>3. sequence = Len(records)
    BY DEF IInv, Numbered
  <2>4. ASSUME NEW i \in DOMAIN records'
        PROVE  outbox'[i] = EventOf(records'[i], i)
    <3>1. CASE i \in 1..Len(records)
      BY <1>3, <2>1, <2>2, <3>1
    <3>2. CASE i = Len(records) + 1
      BY <1>3, <2>1, <2>3, <3>2 DEF EventOf
    <3> QED
      BY <1>3, <3>1, <3>2
  <2> QED
    BY <1>3, <2>1, <2>4 DEF EventsMatch
<1>7. LogReplays' /\ IdsOnce'
  BY <1>2 DEF LogInv, LogReplays, IdsOnce
<1> QED
  BY <1>4, <1>5, <1>6, <1>7 DEF LogInv

\* A step that touches none of the lists keeps the log invariant.
LEMMA QuietKeepsLog ==
    ASSUME LogInv, UNCHANGED <<commits, records, acceptedRequests, outbox>>
    PROVE  LogInv'
<1>1. LogIsAccepted' /\ LogIsRequested'
  BY DEF LogInv, LogIsAccepted, LogIsRequested, AcceptedOn, RequestsOf
<1> QED
  BY <1>1 DEF LogInv, EventsMatch, LogReplays, IdsOnce

\* The log invariant says that the lists tell one story.
LEMMA LogsAreConsistent == IInv /\ LogInv => HistoryConsistent
<1> SUFFICES ASSUME IInv, LogInv PROVE HistoryConsistent
  OBVIOUS
<1>1. sequence = Len(records) /\ Len(outbox) = Len(records)
  BY DEF IInv, Numbered, LogInv, EventsMatch
<1>2. ASSUME NEW i \in DOMAIN records
      PROVE  /\ records[i].sequence = i
             /\ outbox[i] = [sequence |-> i, branch |-> records[i].branch,
                             commit |-> records[i].id,
                             kind |-> IF records[i].status = "accepted"
                                      THEN "commit_accepted" ELSE "conflict_created"]
  BY DEF IInv, Numbered, LogInv, EventsMatch, EventOf
<1>3. ASSUME NEW b \in Branches
      PROVE  LET accepted == At(records, AcceptedOn(b))
             IN  commits[b] = [i \in DOMAIN accepted |->
                                [id |-> accepted[i].id, ops |-> accepted[i].ops]]
  <2>1. commits[b] \in Seq(Commit) /\ Listed(AcceptedOn(b), records, commits[b])
    BY DEF IInv, TypeOK, LogInv, LogIsAccepted
  <2> QED
    BY <2>1, ListedIsAt, SMTT(30)
<1> QED
  BY <1>1, <1>2, <1>3 DEF HistoryConsistent

\* The log invariant says that the active projection can be rebuilt.
LEMMA LogsAreRebuildable == IInv /\ LogInv => ProjectionRebuildable
<1> SUFFICES ASSUME IInv, LogInv, NEW b \in Branches
             PROVE  /\ RebuiltLog(b) = commits[b]
                    /\ \A i \in DOMAIN RebuiltLog(b) :
                            Replay(SeedView, SubSeq(RebuiltLog(b), 1, i)).ok
  BY DEF ProjectionRebuildable
<1>1. commits[b] \in Seq(Commit) /\ Listed(RequestsOf(b), acceptedRequests, commits[b])
  BY DEF IInv, TypeOK, LogInv, LogIsRequested
<1>2. RebuiltLog(b) = commits[b]
  BY <1>1, ListedIsAt, SMTT(30) DEF RebuiltLog
<1>3. \A i \in DOMAIN commits[b] : Replay(SeedView, SubSeq(commits[b], 1, i)).ok
  BY <1>1, LenProperties DEF LogInv, LogReplays
<1> QED
  BY <1>2, <1>3

-----------------------------------------------------------------------------
(* The steps of the authority.                                             *)

\* An operation of a resolution that is not its marker.
IsPart(cs, op) ==
    \/ op.kind # "resolve_conflict"
    \/ \E j \in DOMAIN cs : op = records[conflicts[cs[j]].id].ops[1]

PartShape(cs, commit) ==
    commit.id \in PartId /\ \E op : commit.ops = <<op>> /\ IsPart(cs, op)

\* A resolution: reverts and applied operations, and the marker last.
PlanShape(b, r, cs, plan) ==
    /\ plan \in Seq(Commit)
    /\ Len(plan) \in Nat \ {0}
    /\ \E kind \in ResolutionKinds : plan[Len(plan)] = Marker(b, r, cs, kind)
    /\ \A i \in 1..(Len(plan) - 1) : PartShape(cs, plan[i])

\* Every plan has this shape.
LEMMA PlanHasShape ==
    ASSUME IInv, NEW b \in Branches, NEW r \in Resolutions,
           NEW cs \in ConflictLists, NEW kind \in ResolutionKinds,
           NEW reverts \in Seq(DOMAIN records), NEW applied \in Seq(Operation),
           \A i \in DOMAIN applied : IsPart(cs, applied[i])
    PROVE  PlanShape(b, r, cs, Plan(b, r, cs, kind, reverts, applied))
<1> DEFINE R == [i \in DOMAIN reverts |->
                [id |-> <<b, r, "revert", i>>,
                 ops |-> <<RevertOp(records[reverts[i]].id)>>]]
           A == [i \in DOMAIN applied |->
                [id |-> <<b, r, "apply", i>>, ops |-> <<applied[i]>>]]
           plan == Plan(b, r, cs, kind, reverts, applied)
<1>1. plan \in Seq(Commit) /\ Len(plan) \in Nat \ {0}
  BY PlanIsTyped
<1>2. /\ DOMAIN reverts = 1..Len(reverts) /\ Len(reverts) \in Nat
      /\ DOMAIN applied = 1..Len(applied) /\ Len(applied) \in Nat
  BY LenProperties
<1>3. ASSUME NEW i \in 1..Len(reverts) PROVE PartShape(cs, R[i])
  <2>1. R[i].id = <<b, r, "revert", i>> /\ R[i].ops = <<RevertOp(records[reverts[i]].id)>>
    BY <1>2
  <2>2. IsPart(cs, RevertOp(records[reverts[i]].id))
    BY DEF IsPart, RevertOp
  <2> QED
    BY <1>2, <2>1, <2>2 DEF PartShape, PartId
<1>4. ASSUME NEW i \in 1..Len(applied) PROVE PartShape(cs, A[i])
  <2>1. A[i].id = <<b, r, "apply", i>> /\ A[i].ops = <<applied[i]>>
    BY <1>2
  <2> QED
    BY <1>2, <2>1 DEF PartShape, PartId
<1>5. plan = (R \o A) \o <<Marker(b, r, cs, kind)>>
  BY DEF Plan
<1>6. /\ R \in [1..Len(reverts) -> {R[i] : i \in 1..Len(reverts)}]
      /\ A \in [1..Len(applied) -> {A[i] : i \in 1..Len(applied)}]
  BY <1>2
<1> DEFINE T == {R[i] : i \in 1..Len(reverts)} \cup {A[i] : i \in 1..Len(applied)}
<1>7. \A c \in T : PartShape(cs, c)
  BY <1>3, <1>4
<1>8. R \in Seq(T) /\ A \in [1..Len(applied) -> T]
  <2>1. R \in [1..Len(reverts) -> T] /\ A \in [1..Len(applied) -> T]
    BY <1>6
  <2> HIDE DEF R, A, T
  <2> QED
    BY <1>2, <2>1, FunctionIsSeq
<1> HIDE DEF R, A, T
<1>9. R \o A \in Seq(T)
  BY <1>2, <1>8, ExtendSeq
<1> DEFINE RA == R \o A
           M == <<Marker(b, r, cs, kind)>>
<1>10. RA \in Seq(T) /\ plan = RA \o M
  BY <1>5, <1>9
<1>11. M \in [1..1 -> {Marker(b, r, cs, kind)}] /\ M[1] = Marker(b, r, cs, kind)
  OBVIOUS
<1> HIDE DEF RA, M
<1>12. /\ Len(RA) \in Nat /\ Len(plan) = Len(RA) + 1
       /\ \A i \in 1..Len(RA) : plan[i] = RA[i]
       /\ plan[Len(RA) + 1] = M[1]
  <2> DEFINE U == T \cup {Marker(b, r, cs, kind)}
  <2>1. RA \in Seq(U)
    BY <1>10, SeqMonotonic
  <2>2. M \in [1..1 -> U]
    BY <1>11
  <2> HIDE DEF U, plan
  <2>3. M \in Seq(U) /\ Len(M) = 1 /\ Len(RA) \in Nat
    BY <2>1, <2>2, FunctionIsSeq, LenProperties
  <2>4. /\ Len(RA \o M) = Len(RA) + Len(M)
        /\ \A i \in 1..(Len(RA) + Len(M)) :
            (RA \o M)[i] = IF i <= Len(RA) THEN RA[i] ELSE M[i - Len(RA)]
    BY <2>1, <2>3, ConcatProperties
  <2>5. Len(RA) + 1 - Len(RA) = 1
    BY <2>3
  <2> QED
    BY <1>10, <2>3, <2>4, <2>5
<1> HIDE DEF plan
<1>13. \A i \in 1..(Len(plan) - 1) : PartShape(cs, plan[i])
  BY <1>7, <1>10, <1>12, ElementOfSeq
<1>14. plan[Len(plan)] = Marker(b, r, cs, kind)
  BY <1>11, <1>12
<1>15. PlanShape(b, r, cs, plan)
  BY <1>1, <1>13, <1>14 DEF PlanShape
<1> QED
  BY <1>15 DEF plan

\* What a step does, whichever plan it carries out.
WriteStep ==
    \E b \in Branches, m \in Mutations :
    \E base \in KnownBases(b), ops \in WriteBatches \cup Reverts(b) :
        \/ AcceptWrite(b, m, base, ops)
        \/ ReuseEquivalent(b, m, base, ops)
        \/ CaptureConflict(b, m, base, ops)

ResolutionStep ==
    \E b \in Branches, r \in Resolutions, cs \in ConflictLists, plan \in Seq(Commit) :
        /\ PlanShape(b, r, cs, plan)
        /\ Resolve(b, r, cs, plan) \/ Interrupt(b, r, cs, plan)

\* Every step is a write, a resolution or a stutter.
LEMMA StepShapes ==
    ASSUME IInv, [Next]_vars
    PROVE  WriteStep \/ ResolutionStep \/ UNCHANGED vars
<1>1. CASE UNCHANGED vars
  BY <1>1
<1>2. CASE Next
  <2>1. PICK b \in Branches : \/ \E m \in Mutations : Write(b, m)
                              \/ \E r \in Resolutions : ResolveConflict(b, r)
    BY <1>2 DEF Next
  <2>2. CASE \E m \in Mutations : Write(b, m)
    BY <2>2 DEF Write, WriteStep
  <2>3. ASSUME NEW r \in Resolutions, ResolveConflict(b, r)
        PROVE  ResolutionStep
    <3>1. PICK cs \in ConflictLists :
            \/ Resolve(b, r, cs, KeepTargetPlan(b, r, cs))
            \/ Resolve(b, r, cs, TakeIncomingPlan(b, r, cs))
            \/ Interrupt(b, r, cs, TakeIncomingPlan(b, r, cs))
            \/ \E op \in ManualOperations :
                \/ Resolve(b, r, cs, ManualMergePlan(b, r, cs, op))
                \/ Interrupt(b, r, cs, ManualMergePlan(b, r, cs, op))
      BY <2>3 DEF ResolveConflict
    <3>2. ASSUME NEW plan, PlanShape(b, r, cs, plan),
                 Resolve(b, r, cs, plan) \/ Interrupt(b, r, cs, plan)
          PROVE  ResolutionStep
      BY <3>2 DEF ResolutionStep, PlanShape
    <3>3. PlanShape(b, r, cs, KeepTargetPlan(b, r, cs))
      <4>1. <<>> \in Seq(DOMAIN records) /\ <<>> \in Seq(Operation) /\ DOMAIN <<>> = {}
        BY EmptySeq
      <4>2. "keep_target" \in ResolutionKinds
        BY DEF ResolutionKinds
      <4> QED
        BY <4>1, <4>2, PlanHasShape DEF KeepTargetPlan
    <3>4. PlanShape(b, r, cs, TakeIncomingPlan(b, r, cs))
      <4>1. "take_incoming" \in ResolutionKinds
        BY DEF ResolutionKinds
      <4>2. /\ RemoteInOrder(cs) \in Seq(DOMAIN records)
            /\ IncomingOperations(cs) \in Seq(Operation)
        BY RemoteIsTyped, IncomingIsTyped
      <4>3. \A i \in DOMAIN IncomingOperations(cs) : IsPart(cs, IncomingOperations(cs)[i])
        BY DEF IncomingOperations, IsPart
      <4> HIDE DEF IncomingOperations
      <4> QED
        BY <4>1, <4>2, <4>3, PlanHasShape DEF TakeIncomingPlan
    <3>5. ASSUME NEW op \in ManualOperations
          PROVE  PlanShape(b, r, cs, ManualMergePlan(b, r, cs, op))
      <4>1. <<>> \in Seq(DOMAIN records)
        BY EmptySeq
      <4>2. op \in MutationOperation /\ op \in Operation
        BY CloudHistoryAssumption DEF Operation
      <4>3. <<op>> \in Seq(Operation) /\ DOMAIN <<op>> = 1..1 /\ <<op>>[1] = op
        BY <4>2
      <4>4. IsPart(cs, op)
        BY <4>2 DEF IsPart, MutationOperation
      <4>5. \A i \in DOMAIN <<op>> : IsPart(cs, <<op>>[i])
        BY <4>3, <4>4
      <4>6. "manual_merge" \in ResolutionKinds
        BY DEF ResolutionKinds
      <4> QED
        BY <4>1, <4>3, <4>5, <4>6, PlanHasShape DEF ManualMergePlan
    <3>6. ASSUME NEW op \in ManualOperations,
                 \/ Resolve(b, r, cs, ManualMergePlan(b, r, cs, op))
                 \/ Interrupt(b, r, cs, ManualMergePlan(b, r, cs, op))
          PROVE  ResolutionStep
      BY <3>2, <3>5, <3>6
    <3>7. CASE \/ Resolve(b, r, cs, KeepTargetPlan(b, r, cs))
               \/ Resolve(b, r, cs, TakeIncomingPlan(b, r, cs))
               \/ Interrupt(b, r, cs, TakeIncomingPlan(b, r, cs))
      BY <3>2, <3>3, <3>4, <3>7
    <3> QED
      BY <3>1, <3>6, <3>7
  <2> QED
    BY <2>1, <2>2, <2>3
<1> QED
  BY <1>1, <1>2

\* The listed conflicts are marked resolved.
Settles(b, r, cs) ==
    conflicts' = [i \in DOMAIN conflicts |->
        IF \E j \in DOMAIN cs : cs[j] = i
        THEN [conflicts[i] EXCEPT !.status = "resolved", !.resolvedBy = <<b, r>>]
        ELSE conflicts[i]]

\* The commits a resolution accepts: all it planned, or those before the one
\* that throws.
Chain(b, r, cs, n, new) ==
    /\ new \in [1..n -> Commit]
    /\ Accept(b, new, Bases(b, new))
    /\ GoesThrough(b, new)
    /\ Unresolved(b, r, cs)
    /\ idempotency' = idempotency
    /\ \A i \in 1..(n - 1) : PartShape(cs, new[i])
    /\ \/ /\ \E kind \in ResolutionKinds : new[n] = Marker(b, r, cs, kind)
          /\ Settles(b, r, cs)
       \/ /\ PartShape(cs, new[n])
          /\ conflicts' = conflicts

ChainStep ==
    \E b \in Branches, r \in Resolutions, cs \in ConflictLists, n \in Nat \ {0} :
        \E new : Chain(b, r, cs, n, new)

\* A resolution accepts such a chain.
LEMMA ResolutionAcceptsChain ==
    ASSUME IInv, ResolutionStep
    PROVE  ChainStep
<1>1. PICK b \in Branches, r \in Resolutions, cs \in ConflictLists, plan \in Seq(Commit) :
        /\ PlanShape(b, r, cs, plan)
        /\ Resolve(b, r, cs, plan) \/ Interrupt(b, r, cs, plan)
  BY DEF ResolutionStep
<1> DEFINE m == Len(plan)
<1>2. /\ m \in Nat \ {0} /\ plan \in [1..m -> Commit] /\ DOMAIN plan = 1..m
      /\ \A i \in 1..(m - 1) : PartShape(cs, plan[i])
      /\ \E kind \in ResolutionKinds : plan[m] = Marker(b, r, cs, kind)
  BY <1>1, LenProperties DEF PlanShape
<1>3. CASE Resolve(b, r, cs, plan)
  <2>1. Chain(b, r, cs, m, plan)
    BY <1>2, <1>3 DEF Resolve, Chain, GoesThrough, Settles
  <2> QED
    BY <1>2, <2>1 DEF ChainStep
<1>4. CASE Interrupt(b, r, cs, plan)
  <2>1. PICK n \in 1..(m - 1) :
            /\ \A i \in 1..n : Runs(b, plan, i)
            /\ Accept(b, SubSeq(plan, 1, n), Bases(b, SubSeq(plan, 1, n)))
    BY <1>4 DEF Interrupt
  <2> DEFINE new == SubSeq(plan, 1, n)
  <2>2. n \in Nat \ {0} /\ n \in 0..m /\ n <= m - 1
    BY <1>2, <2>1
  <2> HIDE DEF m
  <2>3. new \in Seq(Commit) /\ Len(new) = n /\ \A i \in 1..n : new[i] = plan[i]
    <3>1. n \in 0..Len(plan)
      BY <2>2 DEF m
    <3> QED
      BY <3>1, PrefixSteps
  <2>4. new \in [1..n -> Commit] /\ DOMAIN new = 1..n
    BY <2>3, LenProperties
  <2>5. ASSUME NEW i \in 1..n
        PROVE  Runs(b, new, i)
    <3>1. Runs(b, plan, i) /\ new[i] = plan[i]
      BY <2>1, <2>3
    <3>2. SubSeq(new, 1, i - 1) = SubSeq(plan, 1, i - 1)
      <4> DEFINE k == i - 1
      <4>1. k \in 0..n /\ k \in 0..Len(plan)
        BY <1>2, <2>2 DEF m
      <4> HIDE DEF k
      <4>2. /\ SubSeq(plan, 1, k) \in Seq(Commit)
            /\ Len(SubSeq(plan, 1, k)) = k
            /\ \A x \in 1..k : SubSeq(plan, 1, k)[x] = plan[x]
        BY <4>1, PrefixSteps
      <4>3. /\ SubSeq(new, 1, k) \in Seq(Commit)
            /\ Len(SubSeq(new, 1, k)) = k
            /\ \A x \in 1..k : SubSeq(new, 1, k)[x] = new[x]
        <5> HIDE DEF new
        <5>1. k \in 0..Len(new)
          BY <2>3, <4>1
        <5> QED
          BY <2>3, <5>1, PrefixSteps
      <4>4. \A x \in 1..k : new[x] = plan[x]
        BY <2>2, <2>3, <4>1
      <4> HIDE DEF new
      <4>5. SubSeq(new, 1, k) = SubSeq(plan, 1, k)
        BY <4>2, <4>3, <4>4, SeqEqual
      <4> QED
        BY <4>5 DEF k
    <3> HIDE DEF new
    <3> QED
      BY <3>1, <3>2 DEF Runs
  <2>6. PartShape(cs, new[n]) /\ \A i \in 1..(n - 1) : PartShape(cs, new[i])
    BY <1>2, <2>2, <2>3
  <2>7. Unresolved(b, r, cs) /\ conflicts' = conflicts /\ idempotency' = idempotency
    BY <1>4 DEF Interrupt
  <2>8. Accept(b, new, Bases(b, new))
    BY <2>1
  <2> HIDE DEF new
  <2>9. Chain(b, r, cs, n, new)
    BY <2>4, <2>5, <2>6, <2>7, <2>8 DEF Chain, GoesThrough
  <2> QED
    BY <2>2, <2>9 DEF ChainStep
<1> QED
  BY <1>1, <1>3, <1>4

\* The bases of a chain are typed.
LEMMA BasesOfChain ==
    ASSUME IInv, NEW b \in Branches, NEW n \in Nat \ {0}, NEW new \in [1..n -> Commit]
    PROVE  Bases(b, new) \in [1..n -> CommitId \cup {None}]
<1>1. HeadOf(b) \in CommitId \cup {None}
  <2>1. commits[b] \in Seq(Commit)
    BY DEF IInv, TypeOK
  <2>2. CASE commits[b] = <<>>
    BY <2>2 DEF HeadOf
  <2>3. CASE commits[b] # <<>>
    <3>1. Len(commits[b]) \in 1..Len(commits[b])
      BY <2>1, <2>3, EmptySeq, LenProperties
    <3>2. commits[b][Len(commits[b])] \in Commit
      BY <2>1, <3>1, ElementOfSeq
    <3> QED
      BY <2>3, <3>2 DEF HeadOf, Commit
  <2> QED
    BY <2>2, <2>3
<1>2. \A i \in 1..n : i # 1 => new[i - 1].id \in CommitId
  BY DEF Commit
<1> QED
  BY <1>1, <1>2 DEF Bases

\* An accepted write is one commit that goes through.
LEMMA AcceptedGoesThrough ==
    ASSUME IInv, NEW b \in Branches, NEW m \in Mutations,
           NEW base \in KnownBases(b), NEW ops \in Batch,
           AcceptWrite(b, m, base, ops)
    PROVE  \E new \in [1..1 -> Commit], bases \in [1..1 -> CommitId \cup {None}] :
                /\ Accept(b, new, bases)
                /\ GoesThrough(b, new)
                /\ new[1] = [id |-> <<b, m>>, ops |-> ops]
<1> DEFINE commit == [id |-> <<b, m>>, ops |-> ops]
           new == <<commit>>
           bases == <<base>>
<1>1. Executable(SeedView, commits[b], commit) /\ Accept(b, new, bases)
  BY DEF AcceptWrite
<1>2. ops \in Batch /\ base \in CommitId \cup {None} /\ <<b, m>> \in CommitId
  BY BasesAreTyped DEF IInv, CommitId, WriteId
<1>3. commit \in Commit
  BY <1>2 DEF Commit
<1> HIDE DEF commit
<1>4. /\ new \in [1..1 -> Commit] /\ bases \in [1..1 -> CommitId \cup {None}]
      /\ new[1] = commit /\ DOMAIN new = 1..1 /\ new \in Seq(Commit)
  BY <1>2, <1>3
<1> HIDE DEF new, bases
<1>5. Runs(b, new, 1)
  <2>1. SubSeq(new, 1, 0) = <<>>
    BY <1>4, PrefixSteps
  <2>2. commits[b] \in Seq(Commit)
    BY DEF IInv, TypeOK
  <2>3. commits[b] \o <<>> = commits[b]
    BY <2>2, ConcatEmptySeq
  <2>4. 1 - 1 = 0
    OBVIOUS
  <2> QED
    BY <1>1, <1>4, <2>1, <2>3, <2>4 DEF Runs
<1>6. GoesThrough(b, new)
  BY <1>4, <1>5 DEF GoesThrough
<1> QED
  BY <1>1, <1>4, <1>6 DEF commit

\* So does a write or a revert of a client.
LEMMA WriteGoesThrough ==
    ASSUME IInv, NEW b \in Branches, NEW m \in Mutations,
           NEW base \in KnownBases(b), NEW ops \in WriteBatches \cup Reverts(b),
           AcceptWrite(b, m, base, ops)
    PROVE  \E new \in [1..1 -> Commit], bases \in [1..1 -> CommitId \cup {None}] :
                /\ Accept(b, new, bases)
                /\ GoesThrough(b, new)
                /\ new[1] = [id |-> <<b, m>>, ops |-> ops]
BY BatchesAreTyped, AcceptedGoesThrough DEF IInv

\* Every step keeps the log invariant.
LEMMA NextKeepsLog == IInv /\ LogInv /\ [Next]_vars => LogInv'
<1> SUFFICES ASSUME IInv, LogInv, [Next]_vars PROVE LogInv'
  OBVIOUS
<1>1. CASE UNCHANGED vars
  BY <1>1, QuietKeepsLog DEF vars
<1>2. CASE WriteStep
  <2>1. PICK b \in Branches, m \in Mutations :
        \E base \in KnownBases(b), ops \in WriteBatches \cup Reverts(b) :
            \/ AcceptWrite(b, m, base, ops)
            \/ ReuseEquivalent(b, m, base, ops)
            \/ CaptureConflict(b, m, base, ops)
    BY <1>2 DEF WriteStep
  <2>2. PICK base \in KnownBases(b), ops \in WriteBatches \cup Reverts(b) :
            \/ AcceptWrite(b, m, base, ops)
            \/ ReuseEquivalent(b, m, base, ops)
            \/ CaptureConflict(b, m, base, ops)
    BY <2>1
  <2>3. CASE AcceptWrite(b, m, base, ops)
    BY <2>3, WriteGoesThrough, AcceptKeepsLog
  <2>4. CASE ReuseEquivalent(b, m, base, ops)
    BY <2>4, QuietKeepsLog DEF ReuseEquivalent
  <2>5. CASE CaptureConflict(b, m, base, ops)
    BY <2>5, CaptureKeepsLog
  <2> QED
    BY <2>2, <2>3, <2>4, <2>5
<1>3. CASE ResolutionStep
  <2>1. PICK b \in Branches, r \in Resolutions, cs \in ConflictLists, n \in Nat \ {0} :
            \E new : Chain(b, r, cs, n, new)
    BY <1>3, ResolutionAcceptsChain DEF ChainStep
  <2>2. PICK new : Chain(b, r, cs, n, new)
    BY <2>1
  <2>3. new \in [1..n -> Commit] /\ Accept(b, new, Bases(b, new)) /\ GoesThrough(b, new)
    BY <2>2 DEF Chain
  <2> QED
    BY <2>1, <2>3, BasesOfChain, AcceptKeepsLog
<1> QED
  BY <1>1, <1>2, <1>3, StepShapes

\* The logs, the records, the requests and the outbox tell one story: no step
\* leaves a commit without its record and event, or numbers two alike.
THEOREM HistoryIsConsistent == Spec => []HistoryConsistent
<1>1. IInv /\ LogInv => HistoryConsistent
  BY LogsAreConsistent
<1> QED
  BY <1>1, InitIInv, InitLogInv, NextPreserves, NextKeepsLog, PTL DEF Spec

\* The active projection can be rebuilt from the accepted requests, and every
\* prefix of every log replays without a refusal.
THEOREM ProjectionIsRebuildable == Spec => []ProjectionRebuildable
<1>1. IInv /\ LogInv => ProjectionRebuildable
  BY LogsAreRebuildable
<1> QED
  BY <1>1, InitIInv, InitLogInv, NextPreserves, NextKeepsLog, PTL DEF Spec

-----------------------------------------------------------------------------
(* A mutation has one outcome.                                             *)

Own(w) == {i \in DOMAIN records : records[i].id = w}

\* The cases of OneOutcomePerMutation.
Outcome(w) ==
    LET res == idempotency[w]
    IN  /\ res.status = "none" => Own(w) = {}
        /\ res.status = "conflict" =>
            Own(w) = {res.sequence} /\ records[res.sequence].status = "conflicted"
        /\ res.status = "accepted" =>
            /\ Own(w) \subseteq {res.sequence}
            /\ res.sequence \in AcceptedOn(w[1])
            /\ Own(w) = {} => EffectsOf(Expanded(records[res.sequence].ops))
                                = EffectsOf(res.ops)

OutcomeInv == \A w \in WriteId : Outcome(w)

\* The records so far stay and n are added.
RecordsExtended(n) ==
    /\ Len(records) \in Nat
    /\ DOMAIN records = 1..Len(records)
    /\ DOMAIN records' = 1..(Len(records) + n)
    /\ \A i \in 1..Len(records) : records'[i] = records[i]

\* At the start no mutation is answered and none has a record.
LEMMA InitOutcomeInv == Init => OutcomeInv
<1> SUFFICES ASSUME Init, NEW w \in WriteId PROVE Outcome(w)
  BY DEF OutcomeInv
<1>1. idempotency[w].status = "none" /\ Own(w) = {}
  BY DEF Init, NoResult, Own
<1> QED
  BY <1>1 DEF Outcome

\* The invariant says what OneOutcomePerMutation says.
LEMMA OutcomesAreSingle == IInv /\ OutcomeInv => OneOutcomePerMutation
<1> SUFFICES ASSUME IInv, OutcomeInv, NEW w \in WriteId
             PROVE  LET own == {i \in DOMAIN records : records[i].id = w}
                        res == idempotency[w]
                    IN  CASE res.status = "none" -> own = {}
                          [] res.status = "conflict" ->
                                /\ own = {res.sequence}
                                /\ records[res.sequence].status = "conflicted"
                          [] OTHER ->
                                /\ own \subseteq {res.sequence}
                                /\ res.sequence \in AcceptedOn(w[1])
                                /\ own = {} => EffectsOf(Expanded(records[res.sequence].ops))
                                                  = EffectsOf(res.ops)
  BY DEF OneOutcomePerMutation
<1>1. Outcome(w)
  BY DEF OutcomeInv
<1>2. idempotency[w] \in Result \cup {NoResult}
  BY DEF IInv, TypeOK
<1>3. idempotency[w].status \in {"none", "conflict", "accepted"}
  BY <1>2 DEF Result, NoResult
<1> QED
  BY <1>1, <1>3 DEF Outcome, Own

\* Records of other ids do not change an outcome.
LEMMA OutcomeStays ==
    ASSUME IInv, NEW w \in WriteId, Outcome(w), NEW n \in Nat, RecordsExtended(n),
           \A k \in 1..n : records'[Len(records) + k].id # w,
           idempotency'[w] = idempotency[w]
    PROVE  Outcome(w)'
<1> DEFINE res == idempotency[w]
<1>1. Own(w)' = Own(w)
  <2>1. ASSUME NEW i \in DOMAIN records', i \notin DOMAIN records
        PROVE  records'[i].id # w
    <3>1. i - Len(records) \in 1..n /\ i = Len(records) + (i - Len(records))
      BY <2>1 DEF RecordsExtended
    <3> QED
      BY <3>1
  <2>2. \A i \in DOMAIN records : i \in DOMAIN records' /\ records'[i] = records[i]
    BY DEF RecordsExtended
  <2> QED
    BY <2>1, <2>2 DEF Own
<1>2. CASE res.status = "none"
  BY <1>1, <1>2 DEF Outcome
<1>3. CASE res.status = "conflict"
  <2>1. Own(w) = {res.sequence} /\ records[res.sequence].status = "conflicted"
    BY <1>3 DEF Outcome
  <2>2. res.sequence \in DOMAIN records
    BY <2>1 DEF Own
  <2>3. records'[res.sequence] = records[res.sequence]
    BY <2>2 DEF RecordsExtended
  <2> QED
    BY <1>1, <1>3, <2>1, <2>3 DEF Outcome
<1>4. CASE res.status = "accepted"
  <2>1. /\ Own(w) \subseteq {res.sequence}
        /\ res.sequence \in AcceptedOn(w[1])
        /\ Own(w) = {} => EffectsOf(Expanded(records[res.sequence].ops))
                                = EffectsOf(res.ops)
    BY <1>4 DEF Outcome
  <2>2. res.sequence \in DOMAIN records
    BY <2>1 DEF AcceptedOn
  <2>3. records'[res.sequence] = records[res.sequence]
    BY <2>2 DEF RecordsExtended
  <2>4. res.sequence \in AcceptedOn(w[1])'
    BY <2>1, AcceptedAfterExtension DEF RecordsExtended
  <2>5. idempotency'[w].sequence = res.sequence /\ idempotency'[w].ops = res.ops
    OBVIOUS
  <2> QED
    BY <1>1, <1>4, <2>1, <2>3, <2>4, <2>5 DEF Outcome
<1>5. res.status \in {"none", "conflict", "accepted"}
  <2>1. res \in Result \cup {NoResult}
    BY DEF IInv, TypeOK
  <2> QED
    BY <2>1 DEF Result, NoResult
<1> QED
  BY <1>2, <1>3, <1>4, <1>5

\* Records and the results of other mutations.
LEMMA OtherOutcomesStay ==
    ASSUME IInv, OutcomeInv, NEW w \in WriteId, NEW n \in Nat, RecordsExtended(n),
           \A k \in 1..n : records'[Len(records) + k].id = w,
           NEW x, idempotency' = [idempotency EXCEPT ![w] = x],
           Outcome(w)'
    PROVE  OutcomeInv'
<1> SUFFICES ASSUME NEW v \in WriteId, v # w PROVE Outcome(v)'
  BY DEF OutcomeInv
<1>1. idempotency'[v] = idempotency[v]
  BY DEF IInv, TypeOK
<1>2. Outcome(v) /\ \A k \in 1..n : records'[Len(records) + k].id # v
  BY DEF OutcomeInv
<1> QED
  BY <1>1, <1>2, OutcomeStays

\* The commits of a resolution are not the commit of a write.
LEMMA ChainIsNoWrite ==
    ASSUME NEW b \in Branches, NEW r \in Resolutions, NEW cs, NEW n \in Nat \ {0}, NEW new,
           Chain(b, r, cs, n, new), NEW k \in 1..n
    PROVE  new[k].id \notin WriteId
<1>1. \A w \in WriteId : DOMAIN w = 1..2 /\ w[2] \in Mutations
  BY DEF WriteId
<1>2. \A p \in PartId : DOMAIN p = 1..4
  BY DEF PartId
<1>3. 4 \in 1..4 /\ 4 \notin 1..2
  OBVIOUS
<1>4. CASE PartShape(cs, new[k])
  BY <1>1, <1>2, <1>3, <1>4 DEF PartShape
<1>5. CASE \E kind \in ResolutionKinds : new[k] = Marker(b, r, cs, kind)
  <2>1. new[k].id = <<b, r>>
    BY <1>5 DEF Marker
  <2>2. r \notin Mutations
    BY CloudHistoryAssumption
  <2> QED
    BY <1>1, <2>1, <2>2
<1>6. k \in 1..(n - 1) \/ k = n
  OBVIOUS
<1> QED
  BY <1>4, <1>5, <1>6 DEF Chain

\* A chain adds its records behind the old ones.
LEMMA ChainAppends ==
    ASSUME IInv, NEW b \in Branches, NEW r \in Resolutions, NEW cs, NEW n \in Nat \ {0}, NEW new,
           Chain(b, r, cs, n, new)
    PROVE  RecordsAppended(b, n, new) /\ RecordsExtended(n)
<1>1. new \in [1..n -> Commit] /\ Accept(b, new, Bases(b, new))
  BY DEF Chain
<1>2. Bases(b, new) \in [1..n -> CommitId \cup {None}]
  BY <1>1, BasesOfChain
<1>3. TypeOK /\ sequence = Len(records) /\ n \in Nat
  BY DEF IInv, Numbered
<1>4. RecordsAppended(b, n, new)
  BY <1>1, <1>2, <1>3, AcceptAppends
<1> QED
  BY <1>4 DEF RecordsAppended, RecordsExtended

\* Every step leaves each mutation with one outcome.
LEMMA NextKeepsOutcomes == IInv /\ OutcomeInv /\ [Next]_vars => OutcomeInv'
<1> SUFFICES ASSUME IInv, OutcomeInv, [Next]_vars PROVE OutcomeInv'
  OBVIOUS
<1>1. CASE UNCHANGED vars
  BY <1>1 DEF vars, OutcomeInv, Outcome, Own, AcceptedOn
<1>2. CASE WriteStep
  <2>1. PICK b \in Branches, m \in Mutations :
        \E base \in KnownBases(b), ops \in WriteBatches \cup Reverts(b) :
            \/ AcceptWrite(b, m, base, ops)
            \/ ReuseEquivalent(b, m, base, ops)
            \/ CaptureConflict(b, m, base, ops)
    BY <1>2 DEF WriteStep
  <2>2. PICK base \in KnownBases(b), ops \in WriteBatches \cup Reverts(b) :
            \/ AcceptWrite(b, m, base, ops)
            \/ ReuseEquivalent(b, m, base, ops)
            \/ CaptureConflict(b, m, base, ops)
    BY <2>1
  <2> DEFINE w == <<b, m>>
  <2>3. w \in WriteId /\ w[1] = b /\ sequence = Len(records) /\ Len(records) \in Nat
    BY LenProperties DEF WriteId, IInv, Numbered, TypeOK
  <2>4. idempotency[w] = NoResult => Own(w) = {}
    BY <2>3 DEF OutcomeInv, Outcome, NoResult
  <2>5. idempotency[w] = NoResult
    BY <2>2 DEF AcceptWrite, ReuseEquivalent, CaptureConflict, Unanswered
  <2>6. CASE AcceptWrite(b, m, base, ops)
    <3>1. PICK new \in [1..1 -> Commit], bases \in [1..1 -> CommitId \cup {None}] :
                /\ Accept(b, new, bases)
                /\ new[1] = [id |-> <<b, m>>, ops |-> ops]
      BY <2>6, WriteGoesThrough
    <3>2. TypeOK /\ 1 \in Nat
      BY DEF IInv
    <3>3. RecordsAppended(b, 1, new)
      BY <2>3, <3>1, <3>2, AcceptAppends
    <3> DEFINE x == [status |-> "accepted", sequence |-> sequence + 1, ops |-> ops, base |-> base]
    <3>4. idempotency' = [idempotency EXCEPT ![w] = x]
      BY <2>6 DEF AcceptWrite, Remember
    <3>5. RecordsExtended(1)
      BY <3>3 DEF RecordsAppended, RecordsExtended
    <3>6. records'[Len(records) + 1] =
            [sequence |-> sequence + 1, branch |-> b, id |-> new[1].id,
             ops |-> new[1].ops, status |-> "accepted"]
      BY <3>3 DEF RecordsAppended
    <3>7. /\ records'[Len(records) + 1].id = w
          /\ records'[Len(records) + 1].branch = b
          /\ records'[Len(records) + 1].status = "accepted"
      BY <3>1, <3>6
    <3>8. /\ DOMAIN records' = DOMAIN records \cup {Len(records) + 1}
          /\ \A i \in DOMAIN records : records'[i] = records[i]
      BY <3>5 DEF RecordsExtended
    <3>9. Own(w)' = {Len(records) + 1}
      BY <2>4, <2>5, <3>7, <3>8 DEF Own
    <3>10. Len(records) + 1 \in AcceptedOn(b)'
      BY <3>7, <3>8 DEF AcceptedOn
    <3>11. idempotency'[w] = x
      BY <2>3, <3>4 DEF IInv, TypeOK
    <3>12. x.status = "accepted" /\ x.sequence = Len(records) + 1
      BY <2>3
    <3> HIDE DEF x, w
    <3>13. Outcome(w)'
      BY <2>3, <3>9, <3>10, <3>11, <3>12 DEF Outcome
    <3>14. \A k \in 1..1 : records'[Len(records) + k].id = w
      BY <3>7
    <3> QED
      BY <2>3, <3>2, <3>4, <3>5, <3>13, <3>14, OtherOutcomesStay
  <2>7. CASE ReuseEquivalent(b, m, base, ops)
    <3>1. PICK i \in EquivalentSince(b, base, ops) :
            Remember(<<b, m>>, "accepted", records[i].sequence, ops, base)
      BY <2>7 DEF ReuseEquivalent
    <3>2. /\ i \in AcceptedOn(b) /\ records[i].sequence = i
          /\ EffectsOf(Expanded(records[i].ops)) = EffectsOf(ops)
      BY <3>1 DEF EquivalentSince, AcceptedSince, AcceptedOn, IInv, Numbered
    <3> DEFINE x == [status |-> "accepted", sequence |-> records[i].sequence, ops |-> ops, base |-> base]
    <3>3. idempotency' = [idempotency EXCEPT ![w] = x]
      BY <3>1 DEF Remember
    <3>4. records' = records
      BY <2>7 DEF ReuseEquivalent
    <3>5. Own(w)' = {} /\ AcceptedOn(b)' = AcceptedOn(b)
      BY <2>4, <2>5, <3>4 DEF Own, AcceptedOn
    <3>6. idempotency'[w] = x
      BY <2>3, <3>3 DEF IInv, TypeOK
    <3>7. x.status = "accepted" /\ x.sequence = i /\ x.ops = ops
      BY <3>2
    <3> HIDE DEF x, w
    <3>8. Outcome(w)'
      BY <2>3, <3>2, <3>4, <3>5, <3>6, <3>7 DEF Outcome
    <3>9. RecordsExtended(0)
      BY <3>4, LenProperties DEF RecordsExtended, IInv, TypeOK
    <3>10. 0 \in Nat /\ \A k \in 1..0 : records'[Len(records) + k].id = w
      OBVIOUS
    <3> QED
      BY <2>3, <3>3, <3>8, <3>9, <3>10, OtherOutcomesStay
  <2>8. CASE CaptureConflict(b, m, base, ops)
    <3>1. RecordCaptured(b, m, ops)
      BY <2>8, CaptureAppends
    <3> DEFINE x == [status |-> "conflict", sequence |-> sequence + 1, ops |-> ops, base |-> base]
    <3>2. idempotency' = [idempotency EXCEPT ![w] = x]
      BY <2>8 DEF CaptureConflict, Remember
    <3>3. RecordsExtended(1)
      BY <3>1 DEF RecordCaptured, RecordsExtended
    <3>4. records'[Len(records) + 1] =
             [sequence |-> sequence + 1, branch |-> b, id |-> <<b, m>>, ops |-> ops,
              status |-> "conflicted"]
      BY <3>1 DEF RecordCaptured
    <3>5. /\ records'[Len(records) + 1].id = w
          /\ records'[Len(records) + 1].status = "conflicted"
      BY <3>4
    <3>6. /\ DOMAIN records' = DOMAIN records \cup {Len(records) + 1}
          /\ \A i \in DOMAIN records : records'[i] = records[i]
      BY <3>3 DEF RecordsExtended
    <3>7. Own(w)' = {Len(records) + 1}
      BY <2>4, <2>5, <3>5, <3>6 DEF Own
    <3>8. idempotency'[w] = x
      BY <2>3, <3>2 DEF IInv, TypeOK
    <3>9. x.status = "conflict" /\ x.sequence = Len(records) + 1
      BY <2>3
    <3> HIDE DEF x, w
    <3>10. Outcome(w)'
      BY <2>3, <3>5, <3>7, <3>8, <3>9 DEF Outcome
    <3>11. 1 \in Nat /\ \A k \in 1..1 : records'[Len(records) + k].id = w
      BY <3>5
    <3> QED
      BY <2>3, <3>2, <3>3, <3>10, <3>11, OtherOutcomesStay
  <2> QED
    BY <2>2, <2>6, <2>7, <2>8
<1>3. CASE ResolutionStep
  <2>1. PICK b \in Branches, r \in Resolutions, cs \in ConflictLists, n \in Nat \ {0} :
            \E new : Chain(b, r, cs, n, new)
    BY <1>3, ResolutionAcceptsChain DEF ChainStep
  <2>2. PICK new : Chain(b, r, cs, n, new)
    BY <2>1
  <2>3. RecordsAppended(b, n, new) /\ RecordsExtended(n) /\ idempotency' = idempotency
    BY <2>2, ChainAppends DEF Chain
  <2>4. ASSUME NEW w \in WriteId, NEW k \in 1..n
        PROVE  records'[Len(records) + k].id # w
    <3>1. records'[Len(records) + k] =
            [sequence |-> sequence + k, branch |-> b, id |-> new[k].id,
             ops |-> new[k].ops, status |-> "accepted"]
      BY <2>3 DEF RecordsAppended
    <3>2. new[k].id \notin WriteId
      BY <2>2, ChainIsNoWrite
    <3> QED
      BY <3>1, <3>2
  <2>5. ASSUME NEW w \in WriteId PROVE Outcome(w)'
    <3>1. Outcome(w)
      BY DEF OutcomeInv
    <3>2. n \in Nat
      OBVIOUS
    <3> QED
      BY <2>3, <2>4, <3>1, <3>2, OutcomeStays
  <2> QED
    BY <2>5 DEF OutcomeInv
<1> QED
  BY <1>1, <1>2, <1>3, StepShapes

\* A client mutation has one outcome, whatever is written, captured or
\* resolved in between: a retry finds the answer its first call left.
THEOREM MutationsHaveOneOutcome == Spec => []OneOutcomePerMutation
<1>1. IInv /\ OutcomeInv => OneOutcomePerMutation
  BY OutcomesAreSingle
<1> QED
  BY <1>1, InitIInv, InitOutcomeInv, NextPreserves, NextKeepsOutcomes, PTL DEF Spec

-----------------------------------------------------------------------------
(* A conflict keeps both sides.                                            *)

\* Different entries that a log repeats have different ids.
LEMMA ListedIdsOnce ==
    ASSUME NEW log \in Seq(Commit), Once(log), NEW I, NEW list, Listed(I, list, log)
    PROVE  \A i, j \in I : list[i].id = list[j].id => i = j
<1> DEFINE m == Len(log)
<1>1. m \in Nat /\ DOMAIN log = 1..m
  BY LenProperties
<1>2. PICK f : Lists(f, I, list, log)
  BY DEF Listed
<1>3. I = {f[k] : k \in 1..m} /\ \A k \in 1..m : list[f[k]].id = log[k].id
  BY <1>2 DEF Lists, Enumerates
<1> HIDE DEF m
<1>4. ASSUME NEW i \in I, NEW j \in I, list[i].id = list[j].id
      PROVE  i = j
  <2>1. PICK k \in 1..m : i = f[k]
    BY <1>3
  <2>2. PICK l \in 1..m : j = f[l]
    BY <1>3
  <2>3. log[k].id = log[l].id
    BY <1>3, <1>4, <2>1, <2>2
  <2>4. k = l
    BY <1>1, <2>3 DEF Once
  <2> QED
    BY <2>1, <2>2, <2>4
<1> QED
  BY <1>4

\* Records stay and logs only grow at their end.
Grown(n) ==
    /\ RecordsExtended(n)
    /\ \A b \in Branches : \A k \in 0..Len(commits[b]) :
            SubSeq(commits'[b], 1, k) = SubSeq(commits[b], 1, k)

\* Accepting commits appends a record, a request and an outbox entry for each.
LEMMA AcceptGrows ==
    ASSUME IInv, NEW b \in Branches, NEW n \in Nat, NEW new \in [1..n -> Commit],
           NEW bases \in [1..n -> CommitId \cup {None}], Accept(b, new, bases)
    PROVE  Grown(n)
<1>1. TypeOK /\ sequence = Len(records)
  BY DEF IInv, Numbered
<1>2. RecordsAppended(b, n, new)
  BY <1>1, AcceptAppends
<1>3. /\ commits'[b] = commits[b] \o new
      /\ \A c \in Branches : c # b => commits'[c] = commits[c]
      /\ commits[b] \in Seq(Commit) /\ new \in Seq(Commit)
  BY <1>1, FunctionIsSeq DEF TypeOK, Accept
<1>4. \A k \in 0..Len(commits[b]) : SubSeq(commits'[b], 1, k) = SubSeq(commits[b], 1, k)
  BY <1>3, PrefixOfConcat
<1>5. \A c \in Branches : \A k \in 0..Len(commits[c]) :
            SubSeq(commits'[c], 1, k) = SubSeq(commits[c], 1, k)
  BY <1>3, <1>4
<1>6. RecordsExtended(n)
  BY <1>2 DEF RecordsAppended, RecordsExtended
<1> QED
  BY <1>5, <1>6 DEF Grown

\* Every step is growth.
LEMMA NextGrows ==
    ASSUME IInv, [Next]_vars
    PROVE  \E n \in Nat : Grown(n)
<1>0. records \in Seq(CommitRecord) /\ Len(records) \in Nat /\ DOMAIN records = 1..Len(records)
  BY LenProperties DEF IInv, TypeOK
<1>1. ASSUME UNCHANGED <<commits, records>> PROVE Grown(0)
  BY <1>0, <1>1 DEF Grown, RecordsExtended
<1>2. CASE UNCHANGED vars
  BY <1>1, <1>2 DEF vars
<1>3. CASE WriteStep
  <2>1. PICK b \in Branches, m \in Mutations :
        \E base \in KnownBases(b), ops \in WriteBatches \cup Reverts(b) :
            \/ AcceptWrite(b, m, base, ops)
            \/ ReuseEquivalent(b, m, base, ops)
            \/ CaptureConflict(b, m, base, ops)
    BY <1>3 DEF WriteStep
  <2>2. PICK base \in KnownBases(b), ops \in WriteBatches \cup Reverts(b) :
            \/ AcceptWrite(b, m, base, ops)
            \/ ReuseEquivalent(b, m, base, ops)
            \/ CaptureConflict(b, m, base, ops)
    BY <2>1
  <2>3. CASE AcceptWrite(b, m, base, ops)
    <3>1. PICK new \in [1..1 -> Commit], bases \in [1..1 -> CommitId \cup {None}] :
                Accept(b, new, bases)
      BY <2>3, WriteGoesThrough
    <3>2. 1 \in Nat
      OBVIOUS
    <3>3. Grown(1)
      BY <3>1, <3>2, AcceptGrows
    <3> QED
      BY <3>2, <3>3
  <2>4. CASE ReuseEquivalent(b, m, base, ops)
    BY <1>1, <2>4 DEF ReuseEquivalent
  <2>5. CASE CaptureConflict(b, m, base, ops)
    <3>1. RecordCaptured(b, m, ops) /\ commits' = commits
      BY <2>5, CaptureAppends DEF CaptureConflict
    <3>2. Grown(1)
      BY <3>1 DEF Grown, RecordsExtended, RecordCaptured
    <3> QED
      BY <3>2
  <2> QED
    BY <2>2, <2>3, <2>4, <2>5
<1>4. CASE ResolutionStep
  <2>1. PICK b \in Branches, r \in Resolutions, cs \in ConflictLists, n \in Nat \ {0} :
            \E new : Chain(b, r, cs, n, new)
    BY <1>4, ResolutionAcceptsChain DEF ChainStep
  <2>2. PICK new : Chain(b, r, cs, n, new)
    BY <2>1
  <2>3. new \in [1..n -> Commit] /\ Accept(b, new, Bases(b, new)) /\ n \in Nat
    BY <2>2 DEF Chain
  <2>4. Grown(n)
    BY <2>1, <2>3, BasesOfChain, AcceptGrows
  <2> QED
    BY <2>4
<1> QED
  BY <1>2, <1>3, <1>4, StepShapes

\* What a conflict's branch shows.
ForkView(id, b, incoming) ==
    Replay(ConflictSeed(Replay(SeedView, LogBefore(b, id)), records[id].ops),
           <<[id |-> incoming, ops |-> records[id].ops]>>)

\* The remote records of a conflict: accepted, unseen, on common keys.
RemoteUnseen(id, b, base, remote) ==
    \A s \in remote :
        /\ s < id /\ s \in AcceptedOn(b)
        /\ \A j \in AcceptedOn(b) : records[j].id = base => j < s
        /\ KeysOf(records[s].ops) \cap KeysOf(records[id].ops) # {}

Kept(id, b, base, remote, incoming) ==
    /\ id \in DOMAIN records /\ b \in Branches /\ incoming \in WriteId
    /\ records[id].status = "conflicted"
    /\ records[id].id = incoming
    /\ records[id].ops \in WriteBatches
    /\ BaseKnown(b, base)
    /\ remote # {}
    /\ RemoteUnseen(id, b, base, remote)
    /\ ForkView(id, b, incoming).ok
    /\ InForce(ForkView(id, b, incoming), records[id].ops[Len(records[id].ops)])

KeptInv ==
    \A n \in DOMAIN conflicts :
        Kept(conflicts[n].id, conflicts[n].branch, conflicts[n].base,
             conflicts[n].remote, conflicts[n].incoming)

\* The log a conflict was forked from is the same later.
LEMMA LogBeforeStays ==
    ASSUME IInv, LogInv, IInv', NEW n \in Nat, Grown(n),
           NEW CONSTANT b \in Branches, NEW CONSTANT s \in DOMAIN records
    PROVE  LogBefore(b, s)' = LogBefore(b, s)
<1>1. /\ Len(records) \in Nat /\ DOMAIN records = 1..Len(records)
      /\ DOMAIN records' = 1..(Len(records) + n)
      /\ \A i \in 1..Len(records) : records'[i] = records[i]
  BY DEF Grown, RecordsExtended
<1>2. /\ \A i \in DOMAIN records : records[i].sequence = i
      /\ \A i \in DOMAIN records' : records'[i].sequence = i
  BY DEF IInv, Numbered
<1> DEFINE J == {i \in AcceptedOn(b) : records[i].sequence < s}
           K == {i \in AcceptedOn(b)' : records'[i].sequence < s}
<1>3. J = K
  <2>1. ASSUME NEW i \in J PROVE i \in K
    <3>1. i \in AcceptedOn(b) /\ i \in DOMAIN records /\ i < s
      BY <1>2, <2>1 DEF AcceptedOn
    <3>2. i \in AcceptedOn(b)' /\ records'[i] = records[i]
      BY <1>1, <3>1, AcceptedAfterExtension
    <3> QED
      BY <2>1, <3>2
  <2>2. ASSUME NEW i \in K PROVE i \in J
    <3>1. i \in AcceptedOn(b)' /\ i \in DOMAIN records' /\ i < s
      BY <1>2, <2>2 DEF AcceptedOn
    <3>2. i \in 1..Len(records)
      BY <1>1, <3>1
    <3>3. i \in AcceptedOn(b) /\ records'[i] = records[i]
      BY <1>1, <3>1, <3>2, AcceptedAfterExtension
    <3> QED
      BY <2>2, <3>3
  <2> QED
    BY <2>1, <2>2
<1>4. Cardinality(J) \in 0..Len(commits[b])
  <2>1. commits[b] \in Seq(Commit) /\ Listed(AcceptedOn(b), records, commits[b])
    BY DEF LogInv, LogIsAccepted, IInv, TypeOK
  <2>2. Cardinality(AcceptedOn(b)) = Len(commits[b]) /\ IsFiniteSet(AcceptedOn(b))
    BY <2>1, ListedIsAt
  <2>3. J \subseteq AcceptedOn(b)
    OBVIOUS
  <2> HIDE DEF J
  <2>4. /\ IsFiniteSet(J) /\ Cardinality(J) <= Cardinality(AcceptedOn(b))
        /\ Cardinality(J) \in Nat
    BY <2>2, <2>3, FS_Subset, FS_CardinalityType
  <2>5. Len(commits[b]) \in Nat
    BY <2>1, LenProperties
  <2> QED
    BY <2>2, <2>4, <2>5
<1>5. LogBefore(b, s)' = SubSeq(commits'[b], 1, Cardinality(K))
  BY DEF LogBefore
<1>6. LogBefore(b, s) = SubSeq(commits[b], 1, Cardinality(J))
  BY DEF LogBefore
<1> HIDE DEF J, K
<1> QED
  BY <1>3, <1>4, <1>5, <1>6 DEF Grown

\* What is kept of a conflict stays, whatever is recorded behind it.
LEMMA KeptStays ==
    ASSUME IInv, LogInv, IInv', LogInv', NEW n \in Nat, Grown(n),
           NEW CONSTANT id, NEW CONSTANT b, NEW CONSTANT base,
           NEW CONSTANT remote, NEW CONSTANT incoming,
           base \in CommitId \cup {None},
           Kept(id, b, base, remote, incoming)
    PROVE  Kept(id, b, base, remote, incoming)'
<1>1. /\ Len(records) \in Nat /\ DOMAIN records = 1..Len(records)
      /\ DOMAIN records' = 1..(Len(records) + n)
      /\ \A i \in 1..Len(records) : records'[i] = records[i]
  BY DEF Grown, RecordsExtended
<1>2. /\ id \in DOMAIN records /\ b \in Branches /\ incoming \in WriteId
      /\ records[id].status = "conflicted" /\ records[id].id = incoming
      /\ records[id].ops \in WriteBatches
      /\ BaseKnown(b, base) /\ remote # {} /\ RemoteUnseen(id, b, base, remote)
      /\ ForkView(id, b, incoming).ok
      /\ InForce(ForkView(id, b, incoming), records[id].ops[Len(records[id].ops)])
  BY DEF Kept
<1>3. id \in DOMAIN records' /\ records'[id] = records[id]
  BY <1>1, <1>2
<1>4. /\ \A i \in AcceptedOn(b) : i \in AcceptedOn(b)' /\ records'[i] = records[i]
      /\ \A i \in AcceptedOn(b)' : i <= Len(records) => i \in AcceptedOn(b)
  <2>1. \A i \in AcceptedOn(b) : i \in DOMAIN records
    BY DEF AcceptedOn
  <2> QED
    BY <1>1, <2>1, AcceptedAfterExtension
<1>5. BaseKnown(b, base)'
  BY <1>2, <1>4 DEF BaseKnown
<1>6. RemoteUnseen(id, b, base, remote)'
  <2> SUFFICES ASSUME NEW s \in remote
               PROVE  /\ s < id /\ s \in AcceptedOn(b)'
                      /\ \A j \in AcceptedOn(b)' : records'[j].id = base => j < s
                      /\ KeysOf(records'[s].ops) \cap KeysOf(records'[id].ops) # {}
    BY DEF RemoteUnseen
  <2>1. /\ s < id /\ s \in AcceptedOn(b)
        /\ \A j \in AcceptedOn(b) : records[j].id = base => j < s
        /\ KeysOf(records[s].ops) \cap KeysOf(records[id].ops) # {}
    BY <1>2 DEF RemoteUnseen
  <2>2. ASSUME NEW j \in AcceptedOn(b)', records'[j].id = base PROVE j < s
    <3>1. base # None
      <4>1. j \in DOMAIN records' /\ records' \in Seq(CommitRecord)
        BY DEF AcceptedOn, IInv, TypeOK
      <4>2. records'[j] \in CommitRecord
        BY <4>1, LenProperties, ElementOfSeq
      <4> QED
        BY <2>2, <4>2, CloudHistoryAssumption DEF CommitRecord
    <3>2. PICK i \in AcceptedOn(b) : records[i].id = base
      BY <1>2, <3>1 DEF BaseKnown
    <3>3. i \in AcceptedOn(b)' /\ records'[i].id = base
      BY <1>4, <3>2
    <3>4. /\ commits'[b] \in Seq(Commit) /\ Once(commits'[b])
          /\ Listed(AcceptedOn(b)', records', commits'[b])
      BY <1>2 DEF LogInv, LogIsAccepted, IdsOnce, IInv, TypeOK
    <3>5. i = j
      BY <2>2, <3>3, <3>4, ListedIdsOnce
    <3> QED
      BY <2>1, <3>2, <3>5
  <2> QED
    BY <1>3, <1>4, <2>1, <2>2
<1>7. ForkView(id, b, incoming)' = ForkView(id, b, incoming)
  <2>1. LogBefore(b, id)' = LogBefore(b, id)
    BY <1>2, LogBeforeStays
  <2> QED
    BY <1>3, <2>1 DEF ForkView
<1> QED
  BY <1>2, <1>3, <1>5, <1>6, <1>7 DEF Kept

\* A write batch names no commit and settles no conflict.
LEMMA BatchIsPlain ==
    ASSUME NEW ops \in WriteBatches
    PROVE  /\ ops \in Seq(MutationOperation) /\ ops # <<>> /\ PermittedBatch(ops)
           /\ Len(ops) \in Nat \ {0} /\ DOMAIN ops = 1..Len(ops)
           /\ \A j \in DOMAIN ops : /\ ops[j] \in MutationOperation
                                    /\ ops[j].kind # "revert_commit"
                                    /\ ops[j].kind # "resolve_conflict"
<1>1. ops \in Seq(MutationOperation) /\ PermittedBatch(ops)
  BY CloudHistoryAssumption
<1>2. ops # <<>>
  BY <1>1 DEF PermittedBatch
<1>3. Len(ops) \in Nat \ {0} /\ DOMAIN ops = 1..Len(ops)
  BY <1>1, <1>2, EmptySeq, LenProperties
<1>4. \A j \in DOMAIN ops : ops[j] \in MutationOperation
  BY <1>1, ElementOfSeq
<1>5. \A op \in MutationOperation : op.kind # "revert_commit" /\ op.kind # "resolve_conflict"
  BY DEF MutationOperation
<1> QED
  BY <1>1, <1>2, <1>3, <1>4, <1>5

\* All operations of the history act on views and expand into operations.
LEMMA AllOperationsApply == Applicable(Operation) /\ Expandable(Operation)
<1>1. ASSUME NEW v \in MemoryView, NEW op \in Operation
      PROVE  ApplyOperation(v, op) \in MemoryView
  <2>1. CASE op \in MutationOperation
    BY <2>1, OperationsAreApplicable DEF Applicable
  <2>2. CASE op \notin MutationOperation
    <3>1. op.kind = "revert_commit" \/ op.kind = "resolve_conflict"
      BY <2>2 DEF Operation
    <3> QED
      BY <3>1 DEF ApplyOperation
  <2> QED
    BY <2>1, <2>2
<1>2. ASSUME NEW op \in Operation
      PROVE  Expand(op) \in Seq(Operation)
  <2>1. CASE op \in MutationOperation
    <3>1. MutationOperation \subseteq Operation
      BY DEF Operation
    <3>2. Expand(op) \in Seq(MutationOperation)
      BY <2>1, OperationsAreApplicable DEF Expandable
    <3> QED
      BY <3>1, <3>2, SeqMonotonic
  <2>2. CASE op \notin MutationOperation
    <3>1. op.kind = "revert_commit" \/ op.kind = "resolve_conflict"
      BY <2>2 DEF Operation
    <3>2. Expand(op) = <<op>>
      BY <3>1 DEF Expand
    <3> QED
      BY <3>2
  <2> QED
    BY <2>1, <2>2
<1> QED
  BY <1>1, <1>2 DEF Applicable, Expandable

\* The empty log shows the seed.
LEMMA ReplayNothing ==
    ASSUME NEW seed \in MemoryView
    PROVE  Replay(seed, <<>>) = seed
<1> DEFINE R == RevertedCommits(<<>>)
           F == [p \in MemoryView \X (1..Len(<<>>)) |-> ApplyCommit(R, p[1], <<>>[p[2]])]
<1>1. Replayable(R, {}) /\ <<>> \in Seq({}) /\ Len(<<>>) = 0
  BY DEF Replayable
<1>2. Replay(seed, <<>>) = ReplayWith(R, seed, <<>>)
  BY ReplayIsFold
<1> HIDE DEF R
<1>3. Leads(Len(<<>>), MemoryView, seed, F, ReplayWith(R, seed, <<>>))
  BY <1>1, ReplayWithPath
<1> HIDE DEF F
<1> QED
  BY <1>1, <1>2, <1>3 DEF Leads, IsPath

\* A log replays to a view.
LEMMA LogShowsView ==
    ASSUME NEW log \in Seq(Commit)
    PROVE  Replay(SeedView, log) \in MemoryView
<1> DEFINE R == RevertedCommits(log)
<1>1. SeedView \in MemoryView
  <2>1. AbsentObject \in MemoryObject
    BY DEF AbsentObject, NoContent, MemoryObject, Content
  <2>2. [AbsentObject EXCEPT !.status = "active"] \in MemoryObject
    BY <2>1 DEF MemoryObject
  <2> QED
    BY <2>1, <2>2 DEF SeedView, MemoryView
<1>2. Replay(SeedView, log) = ReplayWith(R, SeedView, log)
  BY ReplayIsFold
<1> HIDE DEF R
<1>3. Replayable(R, Commit)
  <2> SUFFICES ASSUME NEW v \in MemoryView, NEW c \in Commit
               PROVE  ApplyCommit(R, v, c) \in MemoryView
    BY DEF Replayable
  <2>1. c.ops \in Seq(Operation) /\ c.ops # <<>>
    BY DEF Commit, Batch
  <2>2. PICK op : op \in Operation
    <3>1. 1 \in 1..Len(c.ops)
      BY <2>1, EmptySeq
    <3> QED
      BY <2>1, <3>1, ElementOfSeq
  <2>3. Expanded(c.ops) \in Seq(Operation)
    BY <2>1, <2>2, AllOperationsApply, ExpandedSteps
  <2>4. ApplyAll(v, Expanded(c.ops)) \in MemoryView
    BY <2>2, <2>3, AllOperationsApply, ApplyAllSteps
  <2> QED
    BY <2>4 DEF ApplyCommit
<1>4. CASE log = <<>>
  <2>1. Replay(SeedView, <<>>) = SeedView
    BY <1>1, ReplayNothing
  <2> QED
    BY <1>1, <1>4, <2>1
<1>5. CASE log # <<>>
  <2>1. 1 \in 1..Len(log)
    BY <1>5, EmptySeq
  <2>2. PICK c : c \in Commit
    BY <2>1, ElementOfSeq
  <2> QED
    BY <1>1, <1>2, <1>3, <2>2, ReplayWithSteps
<1> QED
  BY <1>4, <1>5

\* A conflict branch starts with what is active in the view it is forked from.
LEMMA ForkIsActive ==
    ASSUME NEW view \in MemoryView, NEW ops, NEW seed, seed = ConflictSeed(view, ops)
    PROVE  seed \in MemoryView /\ NothingTombstoned(seed)
<1>1. AbsentObject \in MemoryObject /\ AbsentObject.status = "absent"
  BY DEF AbsentObject, NoContent, MemoryObject, Content
<1> DEFINE removed == UNION {RemovedForIncoming(view, ops[i]) : i \in DOMAIN ops}
           object(o) == IF Active(view, o) /\ o \notin removed THEN view.objects[o] ELSE AbsentObject
<1>2. seed = [ok |-> TRUE, objects |-> [o \in Objects |-> object(o)]]
  BY DEF ConflictSeed
<1>3. \A o \in Objects : /\ object(o) \in MemoryObject
                         /\ object(o).status = "active" \/ object(o).status = "absent"
  BY <1>1 DEF MemoryView, Active
<1> HIDE DEF object
<1>4. seed \in MemoryView
  BY <1>2, <1>3 DEF MemoryView
<1>5. \A o \in Objects : seed.objects[o] = object(o)
  BY <1>2
<1>6. NothingTombstoned(seed)
  BY <1>3, <1>5 DEF NothingTombstoned, Present, Active
<1> QED
  BY <1>4, <1>6

\* A write that goes through on its conflict branch is readable there.
LEMMA CapturedIsReadable ==
    ASSUME NEW view \in MemoryView, NEW ops \in WriteBatches, NEW id,
           NEW seed, seed = ConflictSeed(view, ops),
           NEW commit, commit = [id |-> id, ops |-> ops],
           Executable(seed, <<>>, commit)
    PROVE  /\ Replay(seed, <<commit>>).ok
           /\ InForce(Replay(seed, <<commit>>), ops[Len(ops)])
<1>1. seed \in MemoryView /\ NothingTombstoned(seed)
  BY ForkIsActive
<1>2. /\ ops \in Seq(MutationOperation) /\ PermittedBatch(ops)
      /\ Len(ops) \in Nat \ {0} /\ DOMAIN ops = 1..Len(ops)
      /\ \A j \in DOMAIN ops : ops[j] \in MutationOperation /\ ops[j].kind # "revert_commit"
  BY BatchIsPlain
<1>3. PICK op : op \in MutationOperation
  <2>1. 1 \in DOMAIN ops
    BY <1>2
  <2> QED
    BY <1>2, <2>1
<1> DEFINE log == <<commit>>
<1>4. log = Append(<<>>, commit) /\ <<>> \in Seq({commit}) /\ commit \in {commit}
  OBVIOUS
<1>5. RevertedCommits(log) = {}
  <2>1. DOMAIN log = 1..1 /\ log[1].ops = ops
    OBVIOUS
  <2> HIDE DEF log
  <2> QED
    BY <1>2, <2>1 DEF RevertedCommits, IsRevert
<1>6. Replayable({}, {commit})
  <2> SUFFICES ASSUME NEW v \in MemoryView
               PROVE  ApplyCommit({}, v, commit) \in MemoryView
    BY DEF Replayable
  <2>1. ApplyAll(v, Expanded(ops)) \in MemoryView
    BY <1>2, <1>3, ExpandedOneMore
  <2> QED
    BY <2>1 DEF ApplyCommit
<1>7. Replay(seed, log) = ApplyAll(seed, Expanded(ops))
  <2>1. Replay(seed, log) = ReplayWith({}, seed, log)
    BY <1>5, ReplayIsFold
  <2> DEFINE R == {}
             C == {commit}
             none == <<>>
  <2>2. Replayable(R, C) /\ none \in Seq(C) /\ commit \in C
    BY <1>4, <1>6
  <2> HIDE DEF R, C, none, log
  <2>3. /\ ReplayWith(R, seed, <<>>) = seed
        /\ ReplayWith(R, seed, Append(none, commit))
                = ApplyCommit(R, ReplayWith(R, seed, none), commit)
    BY <1>1, <2>2, ReplayWithSteps
  <2>4. ReplayWith({}, seed, log) = ApplyCommit({}, seed, commit)
    BY <1>4, <2>3 DEF R, none
  <2>5. ApplyCommit({}, seed, commit) = ApplyAll(seed, Expanded(ops))
    BY DEF ApplyCommit
  <2> QED
    BY <2>1, <2>4, <2>5
<1>8. Replay(seed, <<>>) = seed
  BY <1>1, ReplayNothing
<1>9. /\ \A i \in DOMAIN ops : TargetAvailable(seed, <<>>, ops, ops[i])
      /\ Replay(seed, log).ok
  BY <1>4, <1>8 DEF Executable
<1>10. ASSUME NEW i \in DOMAIN ops, ops[i].kind = "replace"
       PROVE  Present(seed, ops[i].object)
  <2>1. TargetAvailable(seed, <<>>, ops, ops[i])
    BY <1>9
  <2>2. Active(seed, ops[i].object)
    BY <1>10, <2>1 DEF TargetAvailable
  <2> QED
    BY <2>2 DEF Active, Present
<1> HIDE DEF log
<1>11. ApplyAll(seed, Expanded(ops)).ok
  BY <1>7, <1>9
<1>12. InForce(ApplyAll(seed, Expanded(ops)), ops[Len(ops)])
  BY <1>1, <1>2, <1>10, <1>11, ForkShowsWrite
<1> QED
  BY <1>7, <1>9, <1>12 DEF log

\* The captured conflict stands behind the old ones.
ConflictCaptured(b, m, base, ops) ==
    /\ Len(conflicts) \in Nat
    /\ DOMAIN conflicts = 1..Len(conflicts)
    /\ DOMAIN conflicts' = 1..(Len(conflicts) + 1)
    /\ \A i \in 1..Len(conflicts) : conflicts'[i] = conflicts[i]
    /\ conflicts'[Len(conflicts) + 1] =
        [id |-> sequence + 1, branch |-> b, base |-> base, remoteHead |-> HeadOf(b),
         remote |-> {records[i].sequence :
            i \in {j \in AcceptedSince(b, base) :
                    KeysOf(records[j].ops) \cap ConflictingKeys(b, base, ops) # {}}},
         incoming |-> <<b, m>>, keys |-> ConflictingKeys(b, base, ops),
         status |-> "unresolved", resolvedBy |-> None]

\* Capturing appends one conflicted record and the conflict that names it.
LEMMA CaptureAddsConflict ==
    ASSUME IInv, IInv', NEW b \in Branches, NEW m \in Mutations,
           NEW base \in KnownBases(b), NEW ops \in WriteBatches \cup Reverts(b),
           CaptureConflict(b, m, base, ops)
    PROVE  ConflictCaptured(b, m, base, ops)
<1> DEFINE conflict ==
        [id |-> sequence + 1, branch |-> b, base |-> base, remoteHead |-> HeadOf(b),
         remote |-> {records[i].sequence :
            i \in {j \in AcceptedSince(b, base) :
                    KeysOf(records[j].ops) \cap ConflictingKeys(b, base, ops) # {}}},
         incoming |-> <<b, m>>, keys |-> ConflictingKeys(b, base, ops),
         status |-> "unresolved", resolvedBy |-> None]
<1>1. conflicts' = Append(conflicts, conflict)
  BY DEF CaptureConflict
<1>2. conflicts \in Seq(Conflict)
  BY DEF IInv, TypeOK
<1> DEFINE S == Conflict \cup {conflict}
<1>3. conflicts \in Seq(S) /\ conflict \in S
  BY <1>2, SeqMonotonic
<1> HIDE DEF conflict, S
<1>4. /\ Len(conflicts) \in Nat
      /\ DOMAIN conflicts = 1..Len(conflicts)
      /\ Len(conflicts') = Len(conflicts) + 1
      /\ conflicts' \in Seq(S)
      /\ \A i \in 1..Len(conflicts) : conflicts'[i] = conflicts[i]
      /\ conflicts'[Len(conflicts) + 1] = conflict
  BY <1>1, <1>3, AppendProperties, LenProperties
<1>5. DOMAIN conflicts' = 1..(Len(conflicts) + 1)
  BY <1>4, LenProperties
<1> QED
  BY <1>4, <1>5 DEF ConflictCaptured, conflict

\* A captured batch is a write: a revert finds no commit on the empty branch.
LEMMA CapturedIsWrite ==
    ASSUME IInv, NEW b \in Branches, NEW m \in Mutations,
           NEW base \in KnownBases(b), NEW ops \in WriteBatches \cup Reverts(b),
           CaptureConflict(b, m, base, ops)
    PROVE  ops \in WriteBatches
<1> SUFFICES ASSUME ops \in Reverts(b) PROVE FALSE
  OBVIOUS
<1>1. PICK i \in DOMAIN commits[b] : ops = <<RevertOp(commits[b][i].id)>>
  BY DEF Reverts
<1>2. DOMAIN ops = 1..1 /\ ops[1].kind = "revert_commit"
  BY <1>1 DEF RevertOp
<1> DEFINE seed == ConflictSeed(ActiveView(b), ops)
           commit == [id |-> <<b, m>>, ops |-> ops]
<1>3. Executable(seed, <<>>, commit) /\ commit.ops = ops
  BY DEF CaptureConflict
<1> HIDE DEF seed, commit
<1>4. TargetAvailable(Replay(seed, <<>>), <<>>, ops, ops[1])
  BY <1>2, <1>3 DEF Executable
<1>5. \E x \in DOMAIN <<>> : <<>>[x].id = ops[1].commit
  BY <1>2, <1>4 DEF TargetAvailable
<1> QED
  BY <1>5

\* Without the base, accepted records the author had not seen come after it.
LEMMA UnseenIsBehindBase ==
    ASSUME IInv, LogInv, NEW b \in Branches, NEW base \in CommitId \cup {None},
           BaseKnown(b, base), NEW s \in AcceptedSince(b, base),
           NEW j \in AcceptedOn(b), records[j].id = base
    PROVE  j < s
<1>1. \A i \in AcceptedOn(b) : i \in DOMAIN records /\ records[i].sequence = i
  BY DEF IInv, Numbered, AcceptedOn
<1>2. records[j] \in CommitRecord
  BY <1>1, LenProperties, ElementOfSeq DEF IInv, TypeOK
<1>3. base # None
  BY <1>2, CloudHistoryAssumption DEF CommitRecord
<1> DEFINE k == CHOOSE i \in AcceptedOn(b) : records[i].id = base
<1>4. k \in AcceptedOn(b) /\ records[k].id = base
  OBVIOUS
<1>5. BaseSequence(b, base) = records[k].sequence
  BY <1>3 DEF BaseSequence
<1> HIDE DEF k
<1>6. /\ commits[b] \in Seq(Commit) /\ Once(commits[b])
      /\ Listed(AcceptedOn(b), records, commits[b])
  BY DEF LogInv, LogIsAccepted, IdsOnce, IInv, TypeOK
<1>7. j = k
  BY <1>4, <1>6, ListedIdsOnce
<1>8. s \in AcceptedOn(b) /\ records[s].sequence > records[k].sequence
  BY <1>5 DEF AcceptedSince
<1>9. s > k
  BY <1>1, <1>4, <1>8
<1>10. s \in Nat /\ k \in Nat
  <2>1. DOMAIN records = 1..Len(records) /\ Len(records) \in Nat
    BY LenProperties DEF IInv, TypeOK
  <2> QED
    BY <1>1, <1>4, <1>8, <2>1
<1> QED
  BY <1>7, <1>9, <1>10

\* A conflict that is captured keeps both sides.
LEMMA CaptureKeepsBoth ==
    ASSUME IInv, LogInv, IInv', LogInv', NEW b \in Branches, NEW m \in Mutations,
           NEW base \in KnownBases(b), NEW ops \in WriteBatches \cup Reverts(b),
           CaptureConflict(b, m, base, ops),
           NEW remote, remote = {records[i].sequence :
                i \in {j \in AcceptedSince(b, base) :
                    KeysOf(records[j].ops) \cap ConflictingKeys(b, base, ops) # {}}},
           NEW CONSTANT CB, CB = b, NEW CONSTANT CR, CR = remote, NEW CONSTANT id, id = Len(records) + 1,
           NEW CONSTANT cbase, cbase = base, NEW CONSTANT incoming, incoming = <<b, m>>
    PROVE  Kept(id, CB, cbase, CR, incoming)'
<1> DEFINE keys == ConflictingKeys(b, base, ops)
<1>1. /\ keys # {} /\ BaseKnown(b, base) /\ commits' = commits
      /\ Executable(ConflictSeed(ActiveView(b), ops), <<>>, [id |-> <<b, m>>, ops |-> ops])
  BY DEF CaptureConflict, Unanswered
<1>2. ops \in WriteBatches
  BY CapturedIsWrite
<1>3. RecordCaptured(b, m, ops) /\ AcceptedOn(b)' = AcceptedOn(b)
  BY CaptureAppends
<1>4. /\ sequence = Len(records) /\ Len(records) \in Nat
      /\ DOMAIN records = 1..Len(records)
      /\ DOMAIN records' = 1..(Len(records) + 1)
      /\ \A i \in 1..Len(records) : records'[i] = records[i]
      /\ records'[Len(records) + 1] =
             [sequence |-> sequence + 1, branch |-> b, id |-> <<b, m>>, ops |-> ops,
              status |-> "conflicted"]
  BY <1>3 DEF RecordCaptured, IInv, Numbered
<1>5. /\ id \in DOMAIN records' /\ records'[id].id = incoming /\ records'[id].ops = ops
      /\ records'[id].status = "conflicted" /\ incoming \in WriteId
  BY <1>4 DEF WriteId
<1>6. /\ \A i \in AcceptedOn(b) : /\ i \in DOMAIN records /\ records[i].sequence = i
                                  /\ records'[i] = records[i] /\ i < id
      /\ \A i \in AcceptedOn(b)' : records'[i].sequence = i
  BY <1>3, <1>4 DEF IInv, Numbered, AcceptedOn
<1>7. base \in CommitId \cup {None}
  BY BasesAreTyped DEF IInv
<1>8. BaseKnown(b, cbase)'
  BY <1>1, <1>3, <1>6 DEF BaseKnown
<1>9. keys \subseteq KeysOf(ops) /\ \A k \in keys : \E i \in AcceptedSince(b, base) : k \in KeysOf(records[i].ops)
  BY <1>1 DEF ConflictingKeys
<1> HIDE DEF keys
<1>10. AcceptedSince(b, base) \subseteq AcceptedOn(b)
  BY DEF AcceptedSince
<1>11. remote = {i \in AcceptedSince(b, base) : KeysOf(records[i].ops) \cap keys # {}}
  BY <1>6, <1>10 DEF keys
<1>12. CR # {}
  <2>1. PICK k \in keys : TRUE
    BY <1>1
  <2> QED
    BY <1>9, <1>11, <2>1
<1>13. RemoteUnseen(id, CB, cbase, CR)'
  <2> SUFFICES ASSUME NEW s \in CR
               PROVE  /\ s < id /\ s \in AcceptedOn(b)'
                      /\ \A j \in AcceptedOn(b)' : records'[j].id = base => j < s
                      /\ KeysOf(records'[s].ops) \cap KeysOf(records'[id].ops) # {}
    BY DEF RemoteUnseen
  <2>1. s \in AcceptedSince(b, base) /\ s \in AcceptedOn(b) /\ KeysOf(records[s].ops) \cap keys # {}
    BY <1>10, <1>11
  <2>2. s < id /\ records'[s] = records[s] /\ s \in AcceptedOn(b)'
    BY <1>3, <1>6, <2>1
  <2>3. ASSUME NEW j \in AcceptedOn(b)', records'[j].id = base PROVE j < s
    <3>1. j \in AcceptedOn(b) /\ records[j].id = base
      BY <1>3, <1>6, <2>3
    <3> QED
      BY <1>1, <1>7, <2>1, <3>1, UnseenIsBehindBase
  <2>4. KeysOf(records'[s].ops) \cap KeysOf(records'[id].ops) # {}
    BY <1>5, <1>9, <2>1, <2>2
  <2> QED
    BY <2>2, <2>3, <2>4
<1>14. LogBefore(CB, id)' = commits[b]
  <2>1. commits[b] \in Seq(Commit) /\ Listed(AcceptedOn(b), records, commits[b])
    BY DEF LogInv, LogIsAccepted, IInv, TypeOK
  <2>2. Cardinality(AcceptedOn(b)) = Len(commits[b])
    BY <2>1, ListedIsAt
  <2>3. {i \in AcceptedOn(b)' : records'[i].sequence < id} = AcceptedOn(b)
    BY <1>3, <1>6
  <2>4. LogBefore(CB, id)' = SubSeq(commits[b], 1, Len(commits[b]))
    BY <1>1, <2>2, <2>3 DEF LogBefore
  <2> QED
    BY <2>1, <2>4, PrefixSteps
<1> DEFINE view == ActiveView(b)
           seed == ConflictSeed(view, ops)
           commit == [id |-> <<b, m>>, ops |-> ops]
<1>15. ForkView(id, CB, incoming)' = Replay(seed, <<commit>>)
  BY <1>5, <1>14 DEF ForkView, ActiveView
<1>16. /\ Replay(seed, <<commit>>).ok
       /\ InForce(Replay(seed, <<commit>>), ops[Len(ops)])
  <2>1. view \in MemoryView
    <3>1. commits[b] \in Seq(Commit)
      BY DEF IInv, TypeOK
    <3> QED
      BY <3>1, LogShowsView DEF ActiveView
  <2>2. Executable(seed, <<>>, commit)
    BY <1>1
  <2> HIDE DEF view
  <2> QED
    BY <1>2, <2>1, <2>2, CapturedIsReadable
<1> HIDE DEF view, seed, commit
<1>17. /\ ForkView(id, CB, incoming)'.ok
       /\ InForce(ForkView(id, CB, incoming)', records'[id].ops[Len(records'[id].ops)])
  BY <1>5, <1>15, <1>16
<1> QED
  BY <1>2, <1>5, <1>8, <1>12, <1>13, <1>17 DEF Kept

\* The conflicts after a step: those before it, as they were but for their
\* status and resolution.
SameConflicts ==
    /\ DOMAIN conflicts' = DOMAIN conflicts
    /\ \A n \in DOMAIN conflicts :
        /\ conflicts'[n].id = conflicts[n].id
        /\ conflicts'[n].branch = conflicts[n].branch
        /\ conflicts'[n].base = conflicts[n].base
        /\ conflicts'[n].remote = conflicts[n].remote
        /\ conflicts'[n].incoming = conflicts[n].incoming

\* Settling a conflict changes its status and resolution alone.
LEMMA SettlingIsLocal ==
    ASSUME IInv, NEW b, NEW r, NEW cs, Settles(b, r, cs)
    PROVE  SameConflicts
<1>1. \A n \in DOMAIN conflicts : conflicts[n] \in Conflict
  BY LenProperties, ElementOfSeq DEF IInv, TypeOK
<1>2. \A n \in DOMAIN conflicts :
        \/ conflicts'[n] = conflicts[n]
        \/ conflicts'[n] = [conflicts[n] EXCEPT !.status = "resolved", !.resolvedBy = <<b, r>>]
  BY DEF Settles
<1>3. DOMAIN conflicts' = DOMAIN conflicts
  BY DEF Settles
<1> QED
  BY <1>1, <1>2, <1>3 DEF SameConflicts, Conflict

\* Old conflicts keep both sides in every step.
LEMMA OldConflictsKept ==
    ASSUME IInv, LogInv, KeptInv, IInv', LogInv', [Next]_vars,
           NEW CONSTANT n \in DOMAIN conflicts,
           NEW CONSTANT id, NEW CONSTANT b, NEW CONSTANT base,
           NEW CONSTANT remote, NEW CONSTANT incoming,
           id = conflicts[n].id, b = conflicts[n].branch, base = conflicts[n].base,
           remote = conflicts[n].remote, incoming = conflicts[n].incoming
    PROVE  Kept(id, b, base, remote, incoming)'
<1>1. conflicts[n] \in Conflict
  BY LenProperties, ElementOfSeq DEF IInv, TypeOK
<1>2. base \in CommitId \cup {None}
  BY <1>1 DEF Conflict
<1>3. Kept(id, b, base, remote, incoming)
  BY DEF KeptInv
<1>4. PICK k \in Nat : Grown(k)
  BY NextGrows
<1> QED
  BY <1>2, <1>3, <1>4, KeptStays

\* Every step keeps both sides of every conflict.
LEMMA NextKeepsConflicts ==
    IInv /\ LogInv /\ KeptInv /\ IInv' /\ LogInv' /\ [Next]_vars => KeptInv'
<1> SUFFICES ASSUME IInv, LogInv, KeptInv, IInv', LogInv', [Next]_vars,
                    NEW CONSTANT n \in DOMAIN conflicts',
                    NEW CONSTANT id, NEW CONSTANT b, NEW CONSTANT base,
                    NEW CONSTANT remote, NEW CONSTANT incoming,
                    id = conflicts'[n].id, b = conflicts'[n].branch,
                    base = conflicts'[n].base, remote = conflicts'[n].remote,
                    incoming = conflicts'[n].incoming
             PROVE  Kept(id, b, base, remote, incoming)'
  BY DEF KeptInv
<1>1. ASSUME SameConflicts
      PROVE  Kept(id, b, base, remote, incoming)'
  BY <1>1, OldConflictsKept DEF SameConflicts
<1>2. ASSUME UNCHANGED conflicts PROVE SameConflicts
  BY <1>2 DEF SameConflicts
<1>3. CASE UNCHANGED vars
  BY <1>1, <1>2, <1>3 DEF vars
<1>4. CASE ResolutionStep
  <2>1. PICK b2 \in Branches, r \in Resolutions, cs \in ConflictLists, k \in Nat \ {0} :
            \E new : Chain(b2, r, cs, k, new)
    BY <1>4, ResolutionAcceptsChain DEF ChainStep
  <2>2. PICK new : Chain(b2, r, cs, k, new)
    BY <2>1
  <2>3. Settles(b2, r, cs) \/ conflicts' = conflicts
    BY <2>2 DEF Chain
  <2> QED
    BY <1>1, <1>2, <2>3, SettlingIsLocal
<1>5. CASE WriteStep
  <2>1. PICK c \in Branches, m \in Mutations :
        \E known \in KnownBases(c), ops \in WriteBatches \cup Reverts(c) :
            \/ AcceptWrite(c, m, known, ops)
            \/ ReuseEquivalent(c, m, known, ops)
            \/ CaptureConflict(c, m, known, ops)
    BY <1>5 DEF WriteStep
  <2>2. PICK known \in KnownBases(c), ops \in WriteBatches \cup Reverts(c) :
            \/ AcceptWrite(c, m, known, ops)
            \/ ReuseEquivalent(c, m, known, ops)
            \/ CaptureConflict(c, m, known, ops)
    BY <2>1
  <2>3. CASE AcceptWrite(c, m, known, ops) \/ ReuseEquivalent(c, m, known, ops)
    BY <1>1, <1>2, <2>3 DEF AcceptWrite, ReuseEquivalent
  <2>4. CASE CaptureConflict(c, m, known, ops)
    <3>1. ConflictCaptured(c, m, known, ops)
      BY <2>4, CaptureAddsConflict
    <3>2. CASE n \in DOMAIN conflicts
      <4>1. conflicts'[n] = conflicts[n]
        BY <3>1, <3>2 DEF ConflictCaptured
      <4> QED
        BY <3>2, <4>1, OldConflictsKept
    <3>3. CASE n \notin DOMAIN conflicts
      <4>1. n = Len(conflicts) + 1
        BY <3>1, <3>3 DEF ConflictCaptured
      <4> DEFINE keys == ConflictingKeys(c, known, ops)
                 seen == {records[i].sequence :
                            i \in {j \in AcceptedSince(c, known) :
                                    KeysOf(records[j].ops) \cap keys # {}}}
      <4>2. conflicts'[n] =
                [id |-> sequence + 1, branch |-> c, base |-> known, remoteHead |-> HeadOf(c),
                 remote |-> seen, incoming |-> <<c, m>>, keys |-> keys,
                 status |-> "unresolved", resolvedBy |-> None]
        BY <3>1, <4>1 DEF ConflictCaptured
      <4>3. seen = {records[i].sequence :
                            i \in {j \in AcceptedSince(c, known) :
                                    KeysOf(records[j].ops) \cap ConflictingKeys(c, known, ops) # {}}}
        OBVIOUS
      <4> HIDE DEF keys, seen
      <4>4. /\ b = c /\ base = known /\ incoming = <<c, m>> /\ remote = seen
            /\ id = Len(records) + 1
        BY <4>2 DEF IInv, Numbered
      <4> QED
        BY <2>4, <4>3, <4>4, CaptureKeepsBoth
    <3> QED
      BY <3>2, <3>3
  <2> QED
    BY <2>2, <2>3, <2>4
<1> QED
  BY <1>3, <1>4, <1>5, StepShapes

\* At the start there is no conflict.
LEMMA InitKeptInv == Init => KeptInv
BY DEF Init, KeptInv

\* The invariants say that conflicts are preserved.
LEMMA ConflictsKeepBothSides == IInv /\ LogInv /\ OutcomeInv /\ KeptInv => ConflictsPreserved
<1> SUFFICES ASSUME IInv, LogInv, OutcomeInv, KeptInv, NEW n \in DOMAIN conflicts
             PROVE  LET c == conflicts[n]
                        incoming == records[c.id]
                    IN  /\ incoming.status = "conflicted" /\ incoming.id = c.incoming
                        /\ \A i \in DOMAIN commits[c.branch] : commits[c.branch][i].id # c.incoming
                        /\ c.remote # {}
                        /\ \A s \in c.remote :
                            /\ s < c.id /\ s \in AcceptedOn(c.branch)
                            /\ \A j \in AcceptedOn(c.branch) :
                                    records[j].id = c.base => j < s
                            /\ KeysOf(records[s].ops) \cap KeysOf(incoming.ops) # {}
                        /\ ConflictView(c).ok
                        /\ InForce(ConflictView(c), incoming.ops[Len(incoming.ops)])
  BY DEF ConflictsPreserved
<1> DEFINE c == conflicts[n]
           incoming == records[c.id]
<1>1. Kept(c.id, c.branch, c.base, c.remote, c.incoming)
  BY DEF KeptInv
<1>2. /\ c.id \in DOMAIN records /\ c.branch \in Branches /\ c.incoming \in WriteId
      /\ incoming.status = "conflicted" /\ incoming.id = c.incoming /\ c.remote # {}
      /\ RemoteUnseen(c.id, c.branch, c.base, c.remote)
      /\ ForkView(c.id, c.branch, c.incoming).ok
      /\ InForce(ForkView(c.id, c.branch, c.incoming), incoming.ops[Len(incoming.ops)])
  BY <1>1 DEF Kept
<1>3. ConflictView(c) = ForkView(c.id, c.branch, c.incoming)
  BY DEF ConflictView, ForkView
<1>4. \A i \in DOMAIN commits[c.branch] : commits[c.branch][i].id # c.incoming
  <2> SUFFICES ASSUME NEW i \in DOMAIN commits[c.branch],
                      commits[c.branch][i].id = c.incoming
               PROVE  FALSE
    OBVIOUS
  <2>1. /\ commits[c.branch] \in Seq(Commit)
        /\ Listed(AcceptedOn(c.branch), records, commits[c.branch])
    BY <1>2 DEF LogInv, LogIsAccepted, IInv, TypeOK
  <2>2. PICK x \in AcceptedOn(c.branch) : commits[c.branch][i].id = records[x].id
    BY <2>1, ListedIsAt
  <2>3. x \in Own(c.incoming) /\ records[x].status = "accepted"
    BY <2>2 DEF Own, AcceptedOn
  <2>4. c.id \in Own(c.incoming)
    BY <1>2 DEF Own
  <2>5. Outcome(c.incoming) /\ idempotency[c.incoming].status \in {"none", "conflict", "accepted"}
    <3>1. idempotency[c.incoming] \in Result \cup {NoResult}
      BY <1>2 DEF IInv, TypeOK
    <3> QED
      BY <1>2, <3>1 DEF OutcomeInv, Result, NoResult
  <2>6. x = c.id
    BY <2>3, <2>4, <2>5 DEF Outcome
  <2> QED
    BY <1>2, <2>3, <2>6
<1> QED
  BY <1>2, <1>3, <1>4 DEF RemoteUnseen

\* A conflict keeps both sides for ever: the incoming write stays readable on
\* its conflict branch and out of the target log, and the remote commits are
\* accepted ones that its author had not seen.
THEOREM ConflictsArePreserved == Spec => []ConflictsPreserved
<1>1. IInv /\ LogInv /\ OutcomeInv /\ KeptInv => ConflictsPreserved
  BY ConflictsKeepBothSides
<1> QED
  BY <1>1, InitIInv, InitLogInv, InitOutcomeInv, InitKeptInv, NextPreserves, NextKeepsLog,
     NextKeepsOutcomes, NextKeepsConflicts, PTL DEF Spec

-----------------------------------------------------------------------------
(* A conflict is resolved once.                                            *)

NamesNothing(ops) == \A j \in DOMAIN ops : ops[j].kind # "resolve_conflict"

Names(ops, id) ==
    \E j \in DOMAIN ops : ops[j].kind = "resolve_conflict" /\ id \in ops[j].conflicts

\* The accepted resolution commits that name a conflict.
Markers(b, id) == {i \in AcceptedOn(b) : Names(records[i].ops, id)}

Settled(c) ==
    IF c.status = "unresolved"
    THEN Markers(c.branch, c.id) = {} /\ c.resolvedBy = None
    ELSE \E i \in Markers(c.branch, c.id) :
            Markers(c.branch, c.id) = {i} /\ records[i].id = c.resolvedBy

\* Resolution commits name records that exist, and no two conflicts share one.
NamesKnown ==
    \A i \in DOMAIN records : \A id : Names(records[i].ops, id) => id \in DOMAIN records

ConflictIdsDiffer ==
    \A m, n \in DOMAIN conflicts : conflicts[m].id = conflicts[n].id => m = n

SettledInv ==
    /\ \A n \in DOMAIN conflicts : Settled(conflicts[n])
    /\ NamesKnown
    /\ ConflictIdsDiffer

\* Nothing is settled at first.
LEMMA InitSettledInv == Init => SettledInv
BY DEF Init, SettledInv, NamesKnown, ConflictIdsDiffer

\* The invariant has one resolution commit for each resolved conflict.
LEMMA SettledIsResolvedOnce == SettledInv => ResolvedOnce
BY DEF SettledInv, Settled, Markers, Names, ResolvedOnce

\* The resolution commits of a conflict after a step: the old ones and those
\* among the new records.
LEMMA MarkersAfter ==
    ASSUME NEW n \in Nat, RecordsExtended(n), NEW CONSTANT b, NEW CONSTANT id
    PROVE  Markers(b, id)' = Markers(b, id)
            \cup {i \in DOMAIN records' : /\ i \notin DOMAIN records
                                          /\ i \in AcceptedOn(b)'
                                          /\ Names(records'[i].ops, id)}
<1>1. /\ Len(records) \in Nat /\ DOMAIN records = 1..Len(records)
      /\ DOMAIN records' = 1..(Len(records) + n)
      /\ \A i \in 1..Len(records) : records'[i] = records[i]
  BY DEF RecordsExtended
<1>2. \A i \in DOMAIN records : /\ i \in DOMAIN records' /\ records'[i] = records[i]
                                /\ i \in AcceptedOn(b)' <=> i \in AcceptedOn(b)
  BY <1>1 DEF AcceptedOn
<1>3. /\ \A i \in AcceptedOn(b) : i \in DOMAIN records
      /\ \A i \in AcceptedOn(b)' : i \in DOMAIN records'
  BY DEF AcceptedOn
<1>4. /\ \A i : i \in Markers(b, id)' <=> i \in AcceptedOn(b)' /\ Names(records'[i].ops, id)
      /\ \A i : i \in Markers(b, id) <=> i \in AcceptedOn(b) /\ Names(records[i].ops, id)
  <2>1. Markers(b, id)' = {i \in AcceptedOn(b)' : Names(records'[i].ops, id)}
    BY DEF Markers, Names
  <2> QED
    BY <2>1 DEF Markers
<1> QED
  BY <1>2, <1>3, <1>4

\* New records that name nothing leave every conflict as settled as it was.
LEMMA SettledStays ==
    ASSUME KeptInv, NEW CONSTANT n \in DOMAIN conflicts, NEW CONSTANT c, c = conflicts[n],
           NEW k \in Nat, RecordsExtended(k),
           \A i \in DOMAIN records' : i \notin DOMAIN records => ~Names(records'[i].ops, c.id),
           Settled(c)
    PROVE  Settled(c)'
<1>1. Markers(c.branch, c.id)' = Markers(c.branch, c.id)
  <2>1. Markers(c.branch, c.id)' = Markers(c.branch, c.id)
            \cup {i \in DOMAIN records' : /\ i \notin DOMAIN records
                                          /\ i \in AcceptedOn(c.branch)'
                                          /\ Names(records'[i].ops, c.id)}
    BY MarkersAfter
  <2> QED
    BY <2>1
<1>2. \A i \in Markers(c.branch, c.id) : records'[i] = records[i]
  BY DEF Markers, AcceptedOn, RecordsExtended
<1> QED
  BY <1>1, <1>2 DEF Settled

\* Writes and reverts settle nothing.
LEMMA BatchNamesNothing ==
    ASSUME NEW b \in Branches, NEW ops \in WriteBatches \cup Reverts(b)
    PROVE  NamesNothing(ops)
<1>1. CASE ops \in WriteBatches
  BY <1>1, BatchIsPlain DEF NamesNothing
<1>2. CASE ops \in Reverts(b)
  <2>1. PICK i \in DOMAIN commits[b] : ops = <<RevertOp(commits[b][i].id)>>
    BY <1>2 DEF Reverts
  <2> QED
    BY <2>1 DEF NamesNothing, RevertOp
<1> QED
  BY <1>1, <1>2

\* Nor do the parts of a resolution.
LEMMA PartNamesNothing ==
    ASSUME IInv, KeptInv, NEW cs \in ConflictLists, NEW commit, PartShape(cs, commit)
    PROVE  NamesNothing(commit.ops)
<1>1. PICK op : commit.ops = <<op>> /\ IsPart(cs, op)
  BY DEF PartShape
<1>2. op.kind # "resolve_conflict"
  <2>1. CASE op.kind # "resolve_conflict"
    BY <2>1
  <2>2. CASE \E j \in DOMAIN cs : op = records[conflicts[cs[j]].id].ops[1]
    <3>1. PICK j \in DOMAIN cs : op = records[conflicts[cs[j]].id].ops[1]
      BY <2>2
    <3>2. cs[j] \in DOMAIN conflicts
      BY ListedConflicts
    <3>3. records[conflicts[cs[j]].id].ops \in WriteBatches
      BY <3>2 DEF KeptInv, Kept
    <3> QED
      BY <3>1, <3>3, BatchIsPlain
  <2> QED
    BY <1>1, <2>1, <2>2 DEF IsPart
<1> QED
  BY <1>1, <1>2 DEF NamesNothing

\* Records that name nothing keep what is settled, if no conflict is added.
LEMMA QuietRecordsKeepSettled ==
    ASSUME SettledInv, KeptInv, NEW k \in Nat, RecordsExtended(k),
           \A i \in DOMAIN records' : i \notin DOMAIN records => NamesNothing(records'[i].ops),
           conflicts' = conflicts
    PROVE  SettledInv'
<1>1. \A i \in DOMAIN records' : \A id : i \notin DOMAIN records => ~Names(records'[i].ops, id)
  BY DEF NamesNothing, Names
<1>2. ASSUME NEW CONSTANT n \in DOMAIN conflicts', NEW CONSTANT c, c = conflicts'[n]
      PROVE  Settled(c)'
  <2>1. n \in DOMAIN conflicts /\ c = conflicts[n] /\ Settled(c)
    BY <1>2 DEF SettledInv
  <2> QED
    BY <1>1, <2>1, SettledStays
<1>3. NamesKnown'
  <2> SUFFICES ASSUME NEW i \in DOMAIN records', NEW id, Names(records'[i].ops, id)
               PROVE  id \in DOMAIN records'
    BY DEF NamesKnown, Names
  <2>1. i \in DOMAIN records /\ records'[i] = records[i]
    BY <1>1 DEF RecordsExtended
  <2>2. id \in DOMAIN records
    BY <2>1 DEF SettledInv, NamesKnown
  <2> QED
    BY <2>2 DEF RecordsExtended
<1>4. ConflictIdsDiffer'
  BY DEF SettledInv, ConflictIdsDiffer
<1> QED
  BY <1>2, <1>3, <1>4 DEF SettledInv

\* Capturing adds a conflict that nothing has settled yet.
LEMMA CaptureKeepsSettled ==
    ASSUME IInv, KeptInv, SettledInv, IInv', NEW b \in Branches, NEW m \in Mutations,
           NEW base \in KnownBases(b), NEW ops \in WriteBatches \cup Reverts(b),
           CaptureConflict(b, m, base, ops)
    PROVE  SettledInv'
<1>1. RecordCaptured(b, m, ops) /\ ConflictCaptured(b, m, base, ops) /\ NamesNothing(ops)
  BY CaptureAppends, CaptureAddsConflict, BatchNamesNothing
<1>2. /\ RecordsExtended(1) /\ sequence = Len(records) /\ Len(records) \in Nat
      /\ DOMAIN records = 1..Len(records)
      /\ DOMAIN records' = DOMAIN records \cup {Len(records) + 1}
      /\ \A i \in DOMAIN records : records'[i] = records[i]
      /\ records'[Len(records) + 1].ops = ops
  BY <1>1 DEF RecordCaptured, RecordsExtended, IInv, Numbered
<1>3. \A i \in DOMAIN records' : \A id : i \notin DOMAIN records => ~Names(records'[i].ops, id)
  BY <1>1, <1>2 DEF NamesNothing, Names
<1>4. ASSUME NEW i \in DOMAIN records', NEW id, Names(records'[i].ops, id)
      PROVE  id \in DOMAIN records
  <2>1. i \in DOMAIN records /\ records'[i] = records[i]
    BY <1>2, <1>3, <1>4
  <2> QED
    BY <1>4, <2>1 DEF SettledInv, NamesKnown
<1>5. NamesKnown'
  BY <1>2, <1>4 DEF NamesKnown, Names
<1>6. /\ DOMAIN conflicts' = DOMAIN conflicts \cup {Len(conflicts) + 1}
      /\ \A n \in DOMAIN conflicts : conflicts'[n] = conflicts[n]
      /\ conflicts'[Len(conflicts) + 1].id = Len(records) + 1
      /\ conflicts'[Len(conflicts) + 1].status = "unresolved"
      /\ conflicts'[Len(conflicts) + 1].resolvedBy = None
  BY <1>1, <1>2 DEF ConflictCaptured
<1>7. \A n \in DOMAIN conflicts : conflicts[n].id \in DOMAIN records
  BY DEF IInv, ConflictsPointBack
<1>8. ConflictIdsDiffer'
  <2>1. \A n \in DOMAIN conflicts : conflicts[n].id # Len(records) + 1
    BY <1>2, <1>7
  <2> QED
    BY <1>6, <2>1 DEF SettledInv, ConflictIdsDiffer
<1>9. ASSUME NEW CONSTANT n \in DOMAIN conflicts', NEW CONSTANT c, c = conflicts'[n]
      PROVE  Settled(c)'
  <2>1. CASE n \in DOMAIN conflicts
    <3>1. c = conflicts[n] /\ Settled(c)
      BY <1>6, <1>9, <2>1 DEF SettledInv
    <3>2. 1 \in Nat
      OBVIOUS
    <3> QED
      BY <1>2, <1>3, <2>1, <3>1, <3>2, SettledStays
  <2>2. CASE n \notin DOMAIN conflicts
    <3>1. c.id = Len(records) + 1 /\ c.status = "unresolved" /\ c.resolvedBy = None
      BY <1>6, <1>9, <2>2
    <3>2. c.id \notin DOMAIN records
      BY <1>2, <3>1
    <3>3. Markers(c.branch, c.id)' = {}
      <4> SUFFICES ASSUME NEW i \in Markers(c.branch, c.id)' PROVE FALSE
        OBVIOUS
      <4>1. i \in DOMAIN records' /\ Names(records'[i].ops, c.id)
        BY DEF Markers, AcceptedOn, Names
      <4> QED
        BY <1>4, <3>2, <4>1
    <3> QED
      BY <3>1, <3>3 DEF Settled
  <2> QED
    BY <2>1, <2>2
<1> QED
  BY <1>5, <1>8, <1>9 DEF SettledInv

\* A commit names the conflicts a resolution lists.
NamesListed(commit, cs) ==
    \A id : Names(commit.ops, id) <=> \E j \in DOMAIN cs : id = conflicts[cs[j]].id

\* What the resolution commit names: the ids of the listed conflicts.
LEMMA MarkerNames ==
    ASSUME NEW b, NEW r, NEW cs, NEW kind
    PROVE  /\ Marker(b, r, cs, kind).id = <<b, r>>
           /\ NamesListed(Marker(b, r, cs, kind), cs)
<1> DEFINE ids == {conflicts[cs[j]].id : j \in DOMAIN cs}
<1>1. Marker(b, r, cs, kind) = [id |-> <<b, r>>, ops |-> <<ResolveOp(ids, kind)>>]
  BY DEF Marker
<1> HIDE DEF ids
<1>2. \A id : Names(<<ResolveOp(ids, kind)>>, id) <=> id \in ids
  BY DEF Names, ResolveOp
<1> QED
  BY <1>1, <1>2 DEF ids, NamesListed

\* The last commit of a chain: one that names nothing, or the marker.
StopsQuietly(n, new) == NamesNothing(new[n].ops) /\ conflicts' = conflicts

EndsWithMarker(b, r, cs, n, new) ==
    Settles(b, r, cs) /\ new[n].id = <<b, r>> /\ NamesListed(new[n], cs)

\* The records of a chain: its last one alone can name conflicts.
LEMMA ChainNames ==
    ASSUME IInv, KeptInv, NEW b \in Branches, NEW r \in Resolutions,
           NEW cs \in ConflictLists, NEW n \in Nat \ {0}, NEW new, Chain(b, r, cs, n, new)
    PROVE  /\ \A k \in 1..(n - 1) : NamesNothing(new[k].ops)
           /\ StopsQuietly(n, new) \/ EndsWithMarker(b, r, cs, n, new)
<1>1. \A k \in 1..(n - 1) : NamesNothing(new[k].ops)
  BY PartNamesNothing DEF Chain
<1>2. CASE PartShape(cs, new[n]) /\ conflicts' = conflicts
  BY <1>1, <1>2, PartNamesNothing DEF StopsQuietly
<1>3. CASE (\E kind \in ResolutionKinds : new[n] = Marker(b, r, cs, kind)) /\ Settles(b, r, cs)
  <2>1. PICK kind \in ResolutionKinds : new[n] = Marker(b, r, cs, kind)
    BY <1>3
  <2>2. new[n].id = <<b, r>> /\ NamesListed(new[n], cs)
    BY <2>1, MarkerNames
  <2> QED
    BY <1>1, <1>3, <2>2 DEF EndsWithMarker
<1> QED
  BY <1>2, <1>3 DEF Chain

\* A resolution settles exactly the conflicts it lists, each once.
LEMMA ChainKeepsSettled ==
    ASSUME IInv, KeptInv, SettledInv, NEW b \in Branches, NEW r \in Resolutions,
           NEW cs \in ConflictLists, NEW n \in Nat \ {0}, NEW new, Chain(b, r, cs, n, new)
    PROVE  SettledInv'
<1> DEFINE last == Len(records) + n
<1>1. /\ RecordsAppended(b, n, new) /\ RecordsExtended(n) /\ n \in Nat
      /\ Len(records) \in Nat /\ DOMAIN records = 1..Len(records)
      /\ DOMAIN records' = 1..(Len(records) + n)
      /\ \A i \in 1..Len(records) : records'[i] = records[i]
  BY ChainAppends DEF RecordsExtended
<1>2. ASSUME NEW i \in DOMAIN records', i \notin DOMAIN records
      PROVE  \E k \in 1..n : i = Len(records) + k /\ records'[i].ops = new[k].ops
                             /\ records'[i].id = new[k].id /\ i \in AcceptedOn(b)'
  <2> DEFINE k == i - Len(records)
  <2>1. k \in 1..n /\ i = Len(records) + k
    BY <1>1, <1>2
  <2> HIDE DEF k
  <2>2. records'[i] = [sequence |-> sequence + k, branch |-> b, id |-> new[k].id,
                       ops |-> new[k].ops, status |-> "accepted"]
    BY <1>1, <2>1 DEF RecordsAppended
  <2>3. i \in AcceptedOn(b)'
    BY <2>2 DEF AcceptedOn
  <2> QED
    BY <2>1, <2>2, <2>3
<1>3. \A k \in 1..(n - 1) : NamesNothing(new[k].ops)
  BY ChainNames
<1>4. CASE StopsQuietly(n, new)
  <2>1. \A k \in 1..n : k \in 1..(n - 1) \/ k = n
    OBVIOUS
  <2>2. \A i \in DOMAIN records' : i \notin DOMAIN records => NamesNothing(records'[i].ops)
    BY <1>2, <1>3, <1>4, <2>1 DEF StopsQuietly
  <2> QED
    BY <1>1, <1>4, <2>2, QuietRecordsKeepSettled DEF StopsQuietly
<1>5. CASE EndsWithMarker(b, r, cs, n, new)
  <2>0. /\ Settles(b, r, cs) /\ new[n].id = <<b, r>>
        /\ \A id : Names(new[n].ops, id) <=> \E j \in DOMAIN cs : id = conflicts[cs[j]].id
    BY <1>5 DEF EndsWithMarker, NamesListed
  <2>1. ASSUME NEW i \in DOMAIN records', i \notin DOMAIN records, NEW id, Names(records'[i].ops, id)
        PROVE  i = last /\ \E j \in DOMAIN cs : id = conflicts[cs[j]].id
    <3>1. PICK k \in 1..n : i = Len(records) + k /\ records'[i].ops = new[k].ops
      BY <1>2, <2>1
    <3>2. k \in 1..(n - 1) \/ k = n
      OBVIOUS
    <3>3. k = n
      BY <1>3, <2>1, <3>1, <3>2 DEF Names, NamesNothing
    <3> QED
      BY <2>0, <2>1, <3>1, <3>3
  <2>2. /\ last \in DOMAIN records' /\ last \notin DOMAIN records /\ last \in AcceptedOn(b)'
        /\ records'[last].id = <<b, r>> /\ records'[last].ops = new[n].ops
    <3>1. last \in DOMAIN records' /\ last \notin DOMAIN records
      BY <1>1
    <3>2. PICK k \in 1..n : /\ last = Len(records) + k /\ records'[last].ops = new[k].ops
                            /\ records'[last].id = new[k].id /\ last \in AcceptedOn(b)'
      BY <1>2, <3>1
    <3>3. k = n
      BY <1>1, <3>2
    <3> QED
      BY <2>0, <3>1, <3>2, <3>3
  <2> HIDE DEF last
  <2>3. \A j \in DOMAIN cs : /\ cs[j] \in DOMAIN conflicts
                             /\ conflicts[cs[j]].id \in DOMAIN records
                             /\ conflicts[cs[j]].branch = b
                             /\ conflicts[cs[j]].status = "unresolved"
    BY ListedConflicts DEF Chain, Unresolved
  <2>4. \A x \in DOMAIN conflicts : conflicts[x] \in Conflict
    BY LenProperties, ElementOfSeq DEF IInv, TypeOK
  <2>5. NamesKnown'
    <3> SUFFICES ASSUME NEW i \in DOMAIN records', NEW id, Names(records'[i].ops, id)
                 PROVE  id \in DOMAIN records'
      BY DEF NamesKnown, Names
    <3>1. CASE i \in DOMAIN records
      <4>1. records'[i] = records[i]
        BY <1>1, <3>1
      <4>2. id \in DOMAIN records
        BY <3>1, <4>1 DEF SettledInv, NamesKnown
      <4> QED
        BY <1>1, <4>2
    <3>2. CASE i \notin DOMAIN records
      <4>1. id \in DOMAIN records
        BY <2>1, <2>3, <3>2
      <4> QED
        BY <1>1, <4>1
    <3> QED
      BY <3>1, <3>2
  <2>6. SameConflicts
    BY <2>0, SettlingIsLocal
  <2>7. ConflictIdsDiffer'
    BY <2>6 DEF SettledInv, ConflictIdsDiffer, SameConflicts
  <2>8. ASSUME NEW CONSTANT x \in DOMAIN conflicts', NEW CONSTANT c, c = conflicts'[x],
               NEW CONSTANT d, d = conflicts[x]
        PROVE  Settled(c)'
    <3>1. x \in DOMAIN conflicts /\ c.id = d.id /\ c.branch = d.branch /\ Settled(d)
      BY <2>6, <2>8 DEF SameConflicts, SettledInv
    <3>2. CASE \E j \in DOMAIN cs : cs[j] = x
      <4>1. PICK j \in DOMAIN cs : cs[j] = x
        BY <3>2
      <4>2. d.branch = b /\ d.status = "unresolved"
        BY <2>3, <2>8, <4>1
      <4>3. Markers(d.branch, d.id) = {}
        BY <3>1, <4>2 DEF Settled
      <4>4. c = [conflicts[x] EXCEPT !.status = "resolved", !.resolvedBy = <<b, r>>]
        BY <2>0, <2>8, <3>1, <3>2 DEF Settles
      <4>5. c.status = "resolved" /\ c.resolvedBy = <<b, r>>
        BY <2>4, <3>1, <4>4 DEF Conflict
      <4>6. Names(records'[last].ops, c.id)
        BY <2>0, <2>2, <2>8, <3>1, <4>1
      <4>7. Markers(c.branch, c.id)' = {last}
        <5>1. Markers(c.branch, c.id)' = Markers(c.branch, c.id)
                    \cup {i \in DOMAIN records' : /\ i \notin DOMAIN records
                                                  /\ i \in AcceptedOn(c.branch)'
                                                  /\ Names(records'[i].ops, c.id)}
          BY <1>1, MarkersAfter
        <5>2. c.branch = b /\ Markers(c.branch, c.id) = {}
          BY <3>1, <4>2, <4>3
        <5> QED
          BY <2>1, <2>2, <4>6, <5>1, <5>2
      <4> QED
        BY <2>2, <4>5, <4>7 DEF Settled
    <3>3. CASE ~\E j \in DOMAIN cs : cs[j] = x
      <4>1. c = d
        BY <2>0, <2>8, <3>1, <3>3 DEF Settles
      <4>2. \A j \in DOMAIN cs : conflicts[cs[j]].id # c.id
        BY <2>3, <2>8, <3>1, <3>3 DEF SettledInv, ConflictIdsDiffer
      <4>3. \A i \in DOMAIN records' : i \notin DOMAIN records => ~Names(records'[i].ops, c.id)
        BY <2>1, <4>2
      <4>4. c = conflicts[x] /\ Settled(c)
        BY <2>8, <3>1, <4>1
      <4> QED
        BY <1>1, <3>1, <4>3, <4>4, SettledStays
    <3> QED
      BY <3>2, <3>3
  <2> QED
    BY <2>5, <2>7, <2>8 DEF SettledInv
<1> QED
  BY <1>4, <1>5, ChainNames

\* Every step keeps what is settled.
LEMMA NextKeepsSettled ==
    IInv /\ KeptInv /\ SettledInv /\ IInv' /\ [Next]_vars => SettledInv'
<1> SUFFICES ASSUME IInv, KeptInv, SettledInv, IInv', [Next]_vars
             PROVE  SettledInv'
  OBVIOUS
<1>0. Len(records) \in Nat /\ DOMAIN records = 1..Len(records)
  BY LenProperties DEF IInv, TypeOK
<1>1. ASSUME UNCHANGED <<records, conflicts>> PROVE SettledInv'
  <2>1. RecordsExtended(0) /\ 0 \in Nat
    BY <1>0, <1>1 DEF RecordsExtended
  <2> QED
    BY <1>1, <2>1, QuietRecordsKeepSettled
<1>2. CASE UNCHANGED vars
  BY <1>1, <1>2 DEF vars
<1>3. CASE WriteStep
  <2>1. PICK b \in Branches, m \in Mutations :
        \E base \in KnownBases(b), ops \in WriteBatches \cup Reverts(b) :
            \/ AcceptWrite(b, m, base, ops)
            \/ ReuseEquivalent(b, m, base, ops)
            \/ CaptureConflict(b, m, base, ops)
    BY <1>3 DEF WriteStep
  <2>2. PICK base \in KnownBases(b), ops \in WriteBatches \cup Reverts(b) :
            \/ AcceptWrite(b, m, base, ops)
            \/ ReuseEquivalent(b, m, base, ops)
            \/ CaptureConflict(b, m, base, ops)
    BY <2>1
  <2>3. CASE AcceptWrite(b, m, base, ops)
    <3>1. PICK new \in [1..1 -> Commit], bases \in [1..1 -> CommitId \cup {None}] :
                /\ Accept(b, new, bases)
                /\ new[1] = [id |-> <<b, m>>, ops |-> ops]
      BY <2>3, WriteGoesThrough
    <3>2. TypeOK /\ sequence = Len(records) /\ 1 \in Nat
      BY DEF IInv, Numbered
    <3>3. RecordsAppended(b, 1, new)
      BY <3>1, <3>2, AcceptAppends
    <3>4. records'[Len(records) + 1] =
            [sequence |-> sequence + 1, branch |-> b, id |-> new[1].id,
             ops |-> new[1].ops, status |-> "accepted"]
      BY <3>3 DEF RecordsAppended
    <3>5. records'[Len(records) + 1].ops = ops
      BY <3>1, <3>4
    <3>6. RecordsExtended(1)
      BY <3>3 DEF RecordsAppended, RecordsExtended
    <3>7. NamesNothing(ops)
      BY BatchNamesNothing
    <3>8. \A i \in DOMAIN records' : i \notin DOMAIN records => i = Len(records) + 1
      BY <3>6 DEF RecordsExtended
    <3>9. \A i \in DOMAIN records' : i \notin DOMAIN records => NamesNothing(records'[i].ops)
      BY <3>5, <3>7, <3>8
    <3>10. conflicts' = conflicts
      BY <2>3 DEF AcceptWrite
    <3> QED
      BY <3>2, <3>6, <3>9, <3>10, QuietRecordsKeepSettled
  <2>4. CASE ReuseEquivalent(b, m, base, ops)
    BY <1>1, <2>4 DEF ReuseEquivalent
  <2>5. CASE CaptureConflict(b, m, base, ops)
    BY <2>5, CaptureKeepsSettled
  <2> QED
    BY <2>2, <2>3, <2>4, <2>5
<1>4. CASE ResolutionStep
  <2>1. PICK b \in Branches, r \in Resolutions, cs \in ConflictLists, n \in Nat \ {0} :
            \E new : Chain(b, r, cs, n, new)
    BY <1>4, ResolutionAcceptsChain DEF ChainStep
  <2> QED
    BY <2>1, ChainKeepsSettled
<1> QED
  BY <1>2, <1>3, <1>4, StepShapes

\* A conflict is settled by exactly one resolution commit, and by none while
\* it is unresolved, also when a resolution breaks off in the middle.
THEOREM ConflictsResolvedOnce == Spec => []ResolvedOnce
<1>1. SettledInv => ResolvedOnce
  BY SettledIsResolvedOnce
<1> QED
  BY <1>1, InitIInv, InitLogInv, InitKeptInv, InitSettledInv, NextPreserves, NextKeepsLog,
     NextKeepsConflicts, NextKeepsSettled, PTL DEF Spec

=============================================================================
