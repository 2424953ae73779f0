--------------------------- MODULE LogicalAuthority ---------------------------
(***************************************************************************)
(* What the durable cloud history promises its callers: one authority that  *)
(* serves commands one after the other, each at most once, and answers each *)
(* with the outcome it had when it was served, however often it is asked.   *)
(***************************************************************************)
EXTENDS HistoryReplay

VARIABLES
    served,     \* the commands that took effect, in the order they did
    answers     \* the answers callers have received

Init == served = <<>> /\ answers = {}

ServeNext(command) ==
    /\ \A i \in DOMAIN served : Identity(served[i]) # Identity(command)
    /\ Servable(Rehydrate(served), command)
    /\ served' = Append(served, command)
    /\ UNCHANGED answers

AnswerTo(i) ==
    [command |-> served[i],
     outcome |-> Outcome(Rehydrate(SubSeq(served, 1, i - 1)), served[i])]

\* Some command that took effect is answered.
Answer ==
    /\ \E i \in DOMAIN served : answers' = answers \cup {AnswerTo(i)}
    /\ UNCHANGED served

Next == Answer \/ \E command \in Commands : ServeNext(command)

Spec == Init /\ [][Next]_<<served, answers>>
=============================================================================
