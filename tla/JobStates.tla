----------------------------- MODULE JobStates -----------------------------
(***************************************************************************)
(* The job state machine of internal/queue/queue.go: the states of a job   *)
(* row and the edges that Store.Transition and Store.Retry accept.         *)
(***************************************************************************)

States == {"queued", "assigned", "working", "review", "merging",
           "done", "rework", "failed", "cancelled"}

\* The edge table `transitions`; a state that is missing there (done) has no
\* outgoing edge.
Edges == [queued    |-> {"assigned", "failed", "cancelled"},
          assigned  |-> {"working", "queued", "failed", "cancelled"},
          working   |-> {"review", "merging", "queued", "failed", "cancelled"},
          review    |-> {"merging", "rework", "queued", "failed", "cancelled"},
          merging   |-> {"done", "working", "review", "rework", "queued",
                         "cancelled"},
          rework    |-> {"review", "working", "queued", "failed", "cancelled"},
          failed    |-> {"queued"},
          cancelled |-> {"queued"},
          done      |-> {}]

ValidTransition(from, to) == to \in Edges[from]

\* Mutation: the edge table is not consulted.
AfterAnyTransition(from, to) == to

\* The state left in the row by a Transition whose error the caller ignores:
\* an edge that is not in the table changes nothing.
AfterTransition(from, to) == IF ValidTransition(from, to) THEN to ELSE from

\* The states StopAgent and CleanupTerminalWorktrees treat as over.
Terminal == {"done", "failed", "cancelled"}

\* Mutation: handleDeath also takes back a job that is merging.
LostOrMerging == {"assigned", "working", "rework", "review", "merging"}

\* The states handleDeath takes a job back from. Merging is not one of them.
LostStates == {"assigned", "working", "rework", "review"}

\* Mutation: recover() overlooks merging jobs.
ActiveButMerging == LostStates

\* The states recover() requeues when an office starts.
ActiveStates == LostStates \cup {"merging"}
=============================================================================
