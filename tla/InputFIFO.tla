----------------------------- MODULE InputFIFO -----------------------------
(* What the callers of agent.input are promised: inputs to one agent are   *)
(* typed in the order in which they were accepted, and every accepted      *)
(* input is answered once, with success only after it was typed.           *)
EXTENDS Naturals, Sequences

CONSTANT Requests

VARIABLES waiting,    \* accepted and not typed, oldest first
          typed,      \* typed into the session, oldest first
          answers     \* [Requests -> Nat]: the answers the callers have got

fifo == <<waiting, typed, answers>>

InSeq(s) == {s[i] : i \in DOMAIN s}

Init == waiting = <<>> /\ typed = <<>> /\ answers = [r \in Requests |-> 0]

Unanswered == {r \in Requests : answers[r] = 0}
Answer(R) == answers' = [r \in Requests |-> IF r \in R THEN 1 ELSE answers[r]]

Accept(r) == /\ r \in Unanswered \ (InSeq(waiting) \cup InSeq(typed))
             /\ waiting' = Append(waiting, r)
             /\ UNCHANGED <<typed, answers>>

Type == /\ waiting # <<>>
        /\ waiting' = Tail(waiting)
        /\ typed' = Append(typed, Head(waiting))
        /\ UNCHANGED answers

Confirm(r) == /\ r \in InSeq(typed) \cap Unanswered
              /\ Answer({r})
              /\ UNCHANGED <<waiting, typed>>

(* The session ended, or the write failed: the callers of neighbouring      *)
(* inputs get an error, and the others keep their places.                  *)
GiveUp(m, n) ==
  LET R == InSeq(SubSeq(waiting, m, n))
  IN /\ m \in 1 .. n /\ n <= Len(waiting) /\ R \subseteq Unanswered
     /\ waiting' = SubSeq(waiting, 1, m - 1) \o SubSeq(waiting, n + 1, Len(waiting))
     /\ Answer(R)
     /\ UNCHANGED typed

Next == \/ \E r \in Requests : Accept(r) \/ Confirm(r)
        \/ Type
        \/ \E n \in 1 .. Len(waiting) : \E m \in 1 .. n : GiveUp(m, n)

Spec == Init /\ [][Next]_fifo
=============================================================================
