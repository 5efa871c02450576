------------------------------ MODULE JobBoard ------------------------------
(***************************************************************************)
(* What the job list promises whoever watches it, without agents or        *)
(* processes: how a developer job moves, and that a job is reported done   *)
(* only when its branch has been merged since it was last queued.          *)
(***************************************************************************)
EXTENDS JobStates

CONSTANT Jobs

VARIABLES jstate,  \* the state of each job
          landed   \* its branch was merged since it was last queued

board == <<jstate, landed>>

Init == /\ jstate = [j \in Jobs |-> "queued"]
        /\ landed = [j \in Jobs |-> FALSE]

\* A job moves from one of the states of From to the state to.
Move(j, From, to) == /\ jstate[j] \in From
                     /\ jstate' = [jstate EXCEPT ![j] = to]
                     /\ landed' = landed

Assign(j)  == Move(j, {"queued"}, "assigned")
Begin(j)   == Move(j, {"assigned"}, "working")
Submit(j)  == Move(j, {"working", "rework"}, "review")
Approve(j) == Move(j, {"review"}, "merging")
Reject(j)  == Move(j, {"review"}, "rework")

\* A failed merge returns the job; a product manager overrules a rejection.
Return(j)   == Move(j, {"merging"}, "review") \/ Move(j, {"merging"}, "rework")
Override(j) == Move(j, {"rework"}, "review")

\* The branch of an approved job is merged, even if it was cancelled meanwhile.
Land(j) == /\ jstate[j] \in {"merging", "cancelled"}
           /\ landed' = [landed EXCEPT ![j] = TRUE]
           /\ jstate' = jstate

\* A job is done from merging only, and only after its branch landed.
Finish(j) == landed[j] /\ Move(j, {"merging"}, "done")

GiveUp(j) == Move(j, {"queued"} \cup LostStates, "failed")
Cancel(j) == Move(j, States \ Terminal, "cancelled")

\* An assignment that cannot start its developer is taken back.
TakeBack(j) == Move(j, {"assigned"}, "queued")

\* Jobs return to the queue: one whose developer died, one that is requeued
\* although it was over, or all active ones when the office restarts.
Requeue(S) ==
  /\ \A j \in S : jstate[j] \notin {"queued", "done"}
  /\ jstate' = [j \in Jobs |-> IF j \in S THEN "queued" ELSE jstate[j]]
  /\ landed' = [j \in Jobs |-> landed[j] /\ j \notin S]

Next == \/ \E j \in Jobs : \/ Assign(j) \/ Begin(j) \/ Submit(j) \/ Approve(j)
                           \/ Reject(j) \/ Return(j) \/ Override(j) \/ Land(j)
                           \/ Finish(j) \/ GiveUp(j) \/ Cancel(j)
                           \/ TakeBack(j)
        \/ \E S \in SUBSET Jobs : Requeue(S)

Spec == Init /\ [][Next]_board
=============================================================================
