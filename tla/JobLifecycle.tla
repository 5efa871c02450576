---------------------------- MODULE JobLifecycle ----------------------------
(***************************************************************************)
(* The supervisor's life cycle of developer jobs: the dispatcher, agent    *)
(* spawning and its handshake, the ready/done/verdict verbs, the merge,    *)
(* the exit watcher, and the management commands (internal/supervisor:     *)
(* dispatch.go, spawn.go, verbs.go, review.go, merge_target.go,            *)
(* management.go; internal/office: recover).                               *)
(*                                                                         *)
(* Granularity.  A handler is one action up to the next point at which it  *)
(* blocks on something other than SQLite: git, a process start, a provider *)
(* query, a channel, a sleep.  There it is cut, and the next action        *)
(* continues from what the handler remembered.  `omo ready' is cut between *)
(* its checks and its write too, where the event "slow" occurs; elsewhere  *)
(* what a handler reads and writes between two such points is one step,    *)
(* handleDeath's read of the job and its transition included.              *)
(*                                                                         *)
(* Agents are numbered in the order in which their rows are inserted, as   *)
(* names are never used twice (names.Pick keeps historical names           *)
(* reserved); 0 stands for the empty name.                                 *)
(***************************************************************************)
EXTENDS JobStates, Integers, FiniteSets

CONSTANTS Jobs,            \* developer jobs
          Children,        \* those of them that a product manager owns
          NoJob,           \* "no job", a model value
          MaxAgents,       \* bound: agent rows of one behaviour
          MaxDevelopers,   \* limits.max_developers
          MaxSpawnRetries, \* agents.max_spawn_retries
          MaxJobRetries,   \* agents.max_job_retries
          MaxFaults,       \* bound: environment events of one behaviour
          Env              \* the kinds of environment event that occur

Agents == 1..MaxAgents

\* exit: a process ends by itself; late: an agent misses the ready deadline;
\* startfail: a profile, worktree or process start fails; conflict: a merge
\* fails; requeue: the user requeues a job that is over; requeueAny: or any
\* other job; reboot: the office stops and starts again; wait: agents call
\* `omo wait'; slow: the office is held up between the checks of `omo ready'
\* and its write.
EnvKinds == {"exit", "late", "startfail", "conflict", "reject", "quit",
             "override", "cancel", "kill", "restart", "requeue",
             "requeueAny", "halt", "reboot", "wait", "slow"}

ASSUME ConstantsAssumption ==
  /\ NoJob \notin Jobs
  /\ Children \subseteq Jobs
  /\ {MaxAgents, MaxDevelopers, MaxSpawnRetries, MaxJobRetries, MaxFaults}
       \subseteq Nat
  /\ Env \subseteq EnvKinds

VARIABLES
  \* the jobs table
  jstate,      \* state column
  assignee,    \* assignee column, 0 when empty
  retries,     \* retries column
  \* the agents table
  role,        \* "none" while the row does not exist
  ajob,        \* job_id column
  astate,      \* state column
  \* the supervisor's memory and goroutines
  sess,        \* session: none, starting, running, or exited and unwatched
  via,         \* which caller is spawning the agent
  attempt,     \* handshake attempt the agent was spawned with
  respawn,     \* a goroutine is about to replace the (killed) agent
  verdict,     \* progress of the agent's merge verdict handler
  seen,        \* the assignee that handler read when it began
  parked,      \* a verb of the agent that will set its row to working:
               \* "wait", "ready" (it has passed its checks) or "no"
  disp,        \* the job the dispatcher is preparing to spawn for
  reviewing,   \* the job spawnReviewer holds reviewMu for
  halted,      \* firefighterPaused or ceoSpawnHalted
  \* the repositories
  landed,      \* the job's branch was merged since it was last queued
  \* bounds
  next,        \* next agent number
  budget       \* environment events left

jobVars   == <<jstate, assignee, retries>>
rowVars   == <<role, ajob, via, attempt, next>>
callVars  == <<verdict, seen>>
spawnVars == <<disp, reviewing>>
vars == <<jobVars, rowVars, callVars, spawnVars, astate, sess, respawn,
          parked, halted, landed, budget>>

LivingStates == {"spawning", "working", "waiting"}
Living(n)    == astate[n] \in LivingStates
OfJob(j, r)  == {n \in Agents : role[n] = r /\ ajob[n] = j}
LivingByJobRole(j, r) == {n \in OfJob(j, r) : Living(n)}
LivingByJob(j)  == {n \in Agents : ajob[n] = j /\ Living(n)}
LivingByRole(r) == {n \in Agents : role[n] = r /\ Living(n)}

\* Mutation: a dead reviewer still counts; one that is not ready does not.
DeadReviewerForJob(j) == OfJob(j, "reviewer")
ReadyReviewerForJob(j) == {n \in LivingByJobRole(j, "reviewer") : astate[n] = "working"}

\* reviewerForJob: the latest living reviewer of the job, as a set.
ReviewerForJob(j) ==
  {n \in LivingByJobRole(j, "reviewer") :
     \A m \in LivingByJobRole(j, "reviewer") : m <= n}

\* The agent may run a verb: its process runs, Auth finds its row living, and
\* it is not blocked in another verb. Agents call ready before anything else,
\* as the rest of their instructions is what ready answers.
Acts(n) == sess[n] = "running" /\ astate[n] = "working" /\ verdict[n] = "idle"

\* One event of kind e happens in the environment.
Event(e) == e \in Env /\ budget > 0 /\ budget' = budget - 1

SetJob(j, to) == jstate' = [jstate EXCEPT ![j] = to]
TryTransition(j, to) == SetJob(j, AfterTransition(jstate[j], to))

\* Mutation: the row dies, and the process goes on.
KillRows(S) ==
  /\ astate' = [n \in Agents |-> IF n \in S THEN "dead" ELSE astate[n]]
  /\ UNCHANGED sess

\* KillAgent(n, true) for every n in S: the row dies, and so does the process
\* of a registered session.  A session that is still being started is not
\* registered, and survives.
Kill(S) ==
  /\ astate' = [n \in Agents |-> IF n \in S THEN "dead" ELSE astate[n]]
  /\ sess' = [n \in Agents |-> IF n \in S /\ sess[n] = "running"
                               THEN "exited" ELSE sess[n]]

\* spawnAttempt up to session.Start: the row of a new agent.
Insert(r, j, k, v) ==
  /\ next \in Agents
  /\ next' = next + 1
  /\ role' = [role EXCEPT ![next] = r]
  /\ ajob' = [ajob EXCEPT ![next] = j]
  /\ attempt' = [attempt EXCEPT ![next] = k]
  /\ via' = [via EXCEPT ![next] = v]
  /\ astate' = [astate EXCEPT ![next] = "spawning"]
  /\ sess' = [sess EXCEPT ![next] = "starting"]

\* Mutation: the dispatcher's turn is never given back.
EverStarting(v) == \E n \in Agents : via[n] = v

\* A spawn for the caller v is between InsertAgent and session.Start.
Starting(v) == \E n \in Agents : sess[n] = "starting" /\ via[n] = v

\* Mutation: the job is not claimed.
NoClaimFor(r, j) == SetJob(j, jstate[j])

\* spawnAttempt claims a queued job for a developer.
ClaimFor(r, j) ==
  SetJob(j, IF r = "developer" /\ jstate[j] = "queued" THEN "assigned"
                                                      ELSE jstate[j])
-----------------------------------------------------------------------------
Init ==
  /\ jstate = [j \in Jobs |-> "queued"]
  /\ assignee = [j \in Jobs |-> 0]
  /\ retries = [j \in Jobs |-> 0]
  /\ role = [n \in Agents |-> "none"]
  /\ ajob = [n \in Agents |-> NoJob]
  /\ astate = [n \in Agents |-> "unborn"]
  /\ sess = [n \in Agents |-> "none"]
  /\ via = [n \in Agents |-> "none"]
  /\ attempt = [n \in Agents |-> 0]
  /\ respawn = [n \in Agents |-> "no"]
  /\ verdict = [n \in Agents |-> "idle"]
  /\ seen = [n \in Agents |-> 0]
  /\ parked = [n \in Agents |-> "no"]
  /\ disp = NoJob
  /\ reviewing = NoJob
  /\ halted = FALSE
  /\ landed = [j \in Jobs |-> FALSE]
  /\ next = 1
  /\ budget = MaxFaults
-----------------------------------------------------------------------------
(* The dispatcher: dispatchOnce and assign.                                *)

\* Mutation: one developer too many.
HasCapacityForOneMore == Cardinality(LivingByRole("developer")) <= MaxDevelopers

\* hasCapacity for a developer job.
HasCapacity == Cardinality(LivingByRole("developer")) < MaxDevelopers

\* A queued job within capacity is taken from the list; preparing its
\* worktree, branch name and profile takes a while.
DispatchPick(j) ==
  /\ ~halted
  /\ disp = NoJob /\ ~Starting("dispatch")
  /\ jstate[j] = "queued"
  /\ HasCapacity
  /\ disp' = j
  /\ UNCHANGED <<jobVars, rowVars, callVars, reviewing, astate, sess, respawn,
                 parked, halted, landed, budget>>

\* The worktree cannot be set up (the job stays queued), or the repository,
\* the branch name or the profile is refused (the job fails).
DispatchPrepFails ==
  /\ disp # NoJob
  /\ Event("startfail")
  /\ disp' = NoJob
  /\ \/ UNCHANGED jstate
     \/ TryTransition(disp, "failed")
  /\ UNCHANGED <<assignee, retries, rowVars, callVars, reviewing, astate, sess,
                 respawn, parked, halted, landed>>

\* spawnAttempt inserts the developer and claims the job if it is still queued.
DispatchSpawn ==
  /\ disp # NoJob
  /\ ~halted
  /\ ClaimFor("developer", disp)
  /\ Insert("developer", disp, 0, "dispatch")
  /\ disp' = NoJob
  /\ UNCHANGED <<assignee, retries, callVars, reviewing, respawn, parked,
                 halted, landed, budget>>

\* spawnAllowed refuses; assign hands an assigned job back to the queue.
DispatchHalted ==
  /\ disp # NoJob
  /\ halted
  /\ disp' = NoJob
  /\ SetJob(disp, IF jstate[disp] = "assigned" THEN "queued" ELSE jstate[disp])
  /\ UNCHANGED <<assignee, retries, rowVars, callVars, reviewing, astate, sess,
                 respawn, parked, halted, landed, budget>>
-----------------------------------------------------------------------------
(* Session start, for every caller of spawnAttempt.                        *)

\* Mutations: assign forgets to record the assignee; spawnReviewer records one.
RecordersWithoutAssign == {"restart"}
RecordersWithReview == {"dispatch", "restart", "review"}

\* The callers of spawnAttempt that record the agent as the job's assignee:
\* assign and StopAgent, but neither the handshake retry nor spawnReviewer.
Recorders == {"dispatch", "restart"}

\* The session is registered.
SessionStart(n) ==
  /\ sess[n] = "starting"
  /\ sess' = [sess EXCEPT ![n] = "running"]
  /\ assignee' = IF via[n] \in Recorders
                 THEN [assignee EXCEPT ![ajob[n]] = n] ELSE assignee
  /\ UNCHANGED <<jstate, retries, rowVars, callVars, spawnVars, astate,
                 respawn, parked, halted, landed, budget>>

\* Mutation: the row of an agent that could not be started stays alive.
SessionStartForgotten(n) ==
  /\ sess[n] = "starting"
  /\ Event("startfail")
  /\ sess' = [sess EXCEPT ![n] = "none"]
  /\ UNCHANGED <<jobVars, rowVars, callVars, spawnVars, astate, respawn, parked,
                 halted, landed>>

\* session.Start fails: the row dies. Only assign returns the job to the queue.
SessionStartFails(n) ==
  /\ sess[n] = "starting"
  /\ Event("startfail")
  /\ sess' = [sess EXCEPT ![n] = "none"]
  /\ astate' = [astate EXCEPT ![n] = "dead"]
  /\ SetJob(ajob[n], IF via[n] = "dispatch" /\ jstate[ajob[n]] = "assigned"
                     THEN "queued" ELSE jstate[ajob[n]])
  /\ UNCHANGED <<assignee, retries, rowVars, callVars, spawnVars, respawn,
                 parked, halted, landed>>
-----------------------------------------------------------------------------
(* Agent verbs.                                                            *)

\* Mutation: Auth does not look at the row of the agent.
MayReadyAnyway(n) == sess[n] = "running" /\ parked[n] = "no"

\* Auth for the ready verb.
MayReady(n) == sess[n] = "running" /\ astate[n] = "spawning" /\ parked[n] = "no"

\* The write of the ready verb, whatever became of the row; an assigned job
\* starts working, whoever it is that is ready.
Greeted(n) ==
  /\ astate' = [astate EXCEPT ![n] = "working"]
  /\ SetJob(ajob[n], IF jstate[ajob[n]] = "assigned" THEN "working"
                                                    ELSE jstate[ajob[n]])
  /\ UNCHANGED <<assignee, retries, rowVars, callVars, spawnVars, sess,
                 respawn, halted, landed, budget>>

\* omo ready: the handshake, when nothing comes between its checks and its
\* write.
Ready(n) == MayReady(n) /\ Greeted(n) /\ UNCHANGED parked

\* Otherwise Auth and ready read the row in statements of their own, and
\* nothing locks it until the write.
ReadyLooks(n) ==
  /\ "slow" \in Env
  /\ MayReady(n)
  /\ parked' = [parked EXCEPT ![n] = "ready"]
  /\ UNCHANGED <<jobVars, rowVars, callVars, spawnVars, astate, sess, respawn,
                 halted, landed, budget>>

ReadyWrites(n) ==
  /\ parked[n] = "ready"
  /\ parked' = [parked EXCEPT ![n] = "no"]
  /\ Greeted(n)

\* Mutation: the reviewer of the rejected round is kept.
NotSuperseded(j) == {}

\* The retained reviewer of a rejected round, which a new review replaces.
Superseded(j) == IF jstate[j] = "rework" THEN ReviewerForJob(j) ELSE {}

\* omo done of a developer: into review. The handler then calls spawnReviewer.
DeveloperDone(n) ==
  /\ Acts(n) /\ role[n] = "developer"
  /\ ~halted
  /\ jstate[ajob[n]] \in {"working", "rework"}
  /\ SetJob(ajob[n], "review")
  /\ Kill(Superseded(ajob[n]))
  /\ UNCHANGED <<assignee, retries, rowVars, callVars, spawnVars, respawn,
                 parked, halted, landed, budget>>

\* spawnReviewer takes reviewMu and looks; the diff and the profile take a
\* while. Called by developerDone, handleReviewerDeath and, every tick, by
\* resumePendingReviews.
ReviewBegin(j) ==
  /\ ~halted
  /\ reviewing = NoJob /\ ~Starting("review")
  /\ jstate[j] = "review"
  /\ ReviewerForJob(j) = {}
  /\ reviewing' = j
  /\ UNCHANGED <<jobVars, rowVars, callVars, disp, astate, sess, respawn,
                 parked, halted, landed, budget>>

ReviewSpawn ==
  /\ reviewing # NoJob
  /\ ~halted
  /\ Insert("reviewer", reviewing, 0, "review")
  /\ reviewing' = NoJob
  /\ UNCHANGED <<jobVars, callVars, disp, respawn, parked, halted, landed,
                 budget>>

ReviewHalted ==
  /\ reviewing # NoJob
  /\ halted
  /\ reviewing' = NoJob
  /\ UNCHANGED <<jobVars, rowVars, callVars, disp, astate, sess, respawn,
                 parked, halted, landed, budget>>

\* job.verdict merge: the job is merging while git runs.
VerdictMerge(n) ==
  /\ Acts(n) /\ role[n] = "reviewer"
  /\ jstate[ajob[n]] = "review"
  /\ SetJob(ajob[n], "merging")
  /\ verdict' = [verdict EXCEPT ![n] = "merging"]
  /\ seen' = [seen EXCEPT ![n] = assignee[ajob[n]]]
  /\ UNCHANGED <<assignee, retries, rowVars, spawnVars, astate, sess, respawn,
                 parked, halted, landed, budget>>

\* git merge succeeds, whatever became of the job meanwhile.
MergeLands(n) ==
  /\ verdict[n] = "merging"
  /\ verdict' = [verdict EXCEPT ![n] = "landed"]
  /\ landed' = [landed EXCEPT ![ajob[n]] = TRUE]
  /\ UNCHANGED <<jobVars, rowVars, seen, spawnVars, astate, sess, respawn,
                 parked, halted, budget>>

\* git merge fails: a conflict of a PM child goes back to its developer, any
\* other failure back to review.
MergeFails(n) ==
  /\ verdict[n] = "merging"
  /\ Event("conflict")
  /\ verdict' = [verdict EXCEPT ![n] = "idle"]
  /\ seen' = [seen EXCEPT ![n] = 0]
  /\ \/ ajob[n] \in Children /\ TryTransition(ajob[n], "rework")
     \/ TryTransition(ajob[n], "review")
  /\ UNCHANGED <<assignee, retries, rowVars, spawnVars, astate, sess, respawn,
                 parked, halted, landed>>

\* finalizeMergingJob: done, and the developer the handler read is retired.
\* A job that is no longer merging is left as it is.
Finalize(n) ==
  /\ verdict[n] = "landed"
  /\ verdict' = [verdict EXCEPT ![n] = "idle"]
  /\ seen' = [seen EXCEPT ![n] = 0]
  /\ TryTransition(ajob[n], "done")
  /\ Kill(IF jstate[ajob[n]] = "merging" THEN {seen[n]} \ {0} ELSE {})
  /\ UNCHANGED <<assignee, retries, rowVars, spawnVars, respawn, parked,
                 halted, landed, budget>>

\* job.verdict reject.
VerdictReject(n) ==
  /\ Acts(n) /\ role[n] = "reviewer"
  /\ jstate[ajob[n]] = "review"
  /\ Event("reject")
  /\ SetJob(ajob[n], "rework")
  /\ UNCHANGED <<assignee, retries, rowVars, callVars, spawnVars, astate, sess,
                 respawn, parked, halted, landed>>

\* job.review_override by the product manager that owns the job.
OverrideReview(j) ==
  /\ j \in Children
  /\ jstate[j] = "rework"
  /\ ReviewerForJob(j) # {}
  /\ Event("override")
  /\ SetJob(j, "review")
  /\ UNCHANGED <<assignee, retries, rowVars, callVars, spawnVars, astate, sess,
                 respawn, parked, halted, landed>>

\* omo done of a reviewer: retained while the job is in rework, retired
\* otherwise (a reviewer that leaves without a verdict is counted).
ReviewerDone(n) ==
  /\ Acts(n) /\ role[n] = "reviewer"
  /\ jstate[ajob[n]] # "rework"
  /\ IF jstate[ajob[n]] = "review" THEN Event("quit") ELSE UNCHANGED budget
  /\ astate' = [astate EXCEPT ![n] = "done"]
  /\ UNCHANGED <<jobVars, rowVars, callVars, spawnVars, sess, respawn, parked,
                 halted, landed>>

\* reapLater ends the process of an agent that is done.
Reap(n) ==
  /\ astate[n] = "done" /\ sess[n] = "running"
  /\ sess' = [sess EXCEPT ![n] = "exited"]
  /\ UNCHANGED <<jobVars, rowVars, callVars, spawnVars, astate, respawn,
                 parked, halted, landed, budget>>

\* omo wait: the row waits, and becomes working whenever the handler returns
\* (mail, a wake-up or its timeout), also when the agent has ended meanwhile.
Wait(n) ==
  /\ "wait" \in Env
  /\ Acts(n) /\ parked[n] = "no"
  /\ parked' = [parked EXCEPT ![n] = "wait"]
  /\ astate' = [astate EXCEPT ![n] = "waiting"]
  /\ UNCHANGED <<jobVars, rowVars, callVars, spawnVars, sess, respawn, halted,
                 landed, budget>>

WaitReturns(n) ==
  /\ parked[n] = "wait"
  /\ parked' = [parked EXCEPT ![n] = "no"]
  /\ astate' = [astate EXCEPT ![n] = "working"]
  /\ UNCHANGED <<jobVars, rowVars, callVars, spawnVars, sess, respawn, halted,
                 landed, budget>>
-----------------------------------------------------------------------------
(* The ends of agents.                                                     *)

\* A process ends by itself.
ProcessExit(n) ==
  /\ sess[n] = "running"
  /\ Event("exit")
  /\ sess' = [sess EXCEPT ![n] = "exited"]
  /\ UNCHANGED <<jobVars, rowVars, callVars, spawnVars, astate, respawn,
                 parked, halted, landed>>

\* Mutations: a reviewer's death takes a merging job back; a developer's death
\* leaves a rejected job, or an assigned one, behind.
LostToMerger(r) == IF r = "reviewer" THEN {"review", "merging"} ELSE LostStates
LostToNotRework(r) == IF r = "reviewer" THEN {"review"} ELSE LostStates \ {"rework"}
LostToNotAssigned(r) ==
  IF r = "reviewer" THEN {"review"} ELSE LostStates \ {"assigned"}

\* The states in which a job needs its agent of role r.
LostTo(r) == IF r = "reviewer" THEN {"review"} ELSE LostStates

\* Mutation: one retry too many.
SpentLate(j) == retries[j] > MaxJobRetries

Spent(j) == retries[j] + 1 > MaxJobRetries

\* handleDeath of a developer and handleReviewerDeath: one more retry, and
\* the job fails, goes back to the queue, or waits for another reviewer.
JobAfterDeath(n) ==
  LET j == ajob[n]
      returns == role[n] = "developer" /\ ~Spent(j)
  IN IF jstate[j] \notin LostTo(role[n]) THEN UNCHANGED <<jobVars, landed>>
     ELSE /\ retries' = [retries EXCEPT ![j] = @ + 1]
          /\ SetJob(j, CASE Spent(j) -> "failed"
                         [] returns  -> "queued"
                         [] OTHER    -> "review")
          /\ assignee' = IF returns THEN [assignee EXCEPT ![j] = 0] ELSE assignee
          /\ landed' = IF returns THEN [landed EXCEPT ![j] = FALSE] ELSE landed

\* watchExit: the end of an agent that is done or dead was expected.
WatchExit(n) ==
  /\ sess[n] = "exited"
  /\ sess' = [sess EXCEPT ![n] = "none"]
  /\ IF Living(n)
     THEN /\ astate' = [astate EXCEPT ![n] = "dead"]
          /\ JobAfterDeath(n)
     ELSE UNCHANGED <<astate, jobVars, landed>>
  /\ UNCHANGED <<rowVars, callVars, spawnVars, respawn, parked, halted, budget>>

\* Mutation: one attempt too many.
MayRetryOnceMore(n) == attempt[n] <= MaxSpawnRetries

MayRetry(n) == attempt[n] < MaxSpawnRetries

\* watchHandshake: an agent that is not ready in time is killed, then
\* replaced or, when its attempts are used up, its job fails.
HandshakeTimeout(n) ==
  /\ astate[n] = "spawning" /\ sess[n] \in {"running", "exited"}
  /\ Event("late")
  /\ Kill({n})
  /\ IF MayRetry(n)
     THEN /\ respawn' = [respawn EXCEPT ![n] = "retry"]
          /\ UNCHANGED jstate
     ELSE /\ TryTransition(ajob[n], "failed")
          /\ UNCHANGED respawn
  /\ UNCHANGED <<assignee, retries, rowVars, callVars, spawnVars, parked,
                 halted, landed>>

\* The handshake goroutine spawns the replacement, during a halt too when the
\* first agent was a management restart. Unlike assign it does not record the
\* replacement as the assignee.
Forced(n) == via[n] \in {"restart", "forced"}

RetrySpawn(n) ==
  /\ respawn[n] = "retry"
  /\ ~halted \/ Forced(n)
  /\ respawn' = [respawn EXCEPT ![n] = "no"]
  /\ ClaimFor(role[n], ajob[n])
  /\ Insert(role[n], ajob[n], attempt[n] + 1,
            IF Forced(n) THEN "forced" ELSE "retry")
  /\ UNCHANGED <<assignee, retries, callVars, spawnVars, parked, halted,
                 landed, budget>>

\* deferJobSpawn: spawning is halted; the developer's job is queued again.
RetryDeferred(n) ==
  /\ respawn[n] = "retry"
  /\ halted /\ ~Forced(n)
  /\ respawn' = [respawn EXCEPT ![n] = "no"]
  /\ IF /\ role[n] = "developer"
        /\ jstate[ajob[n]] \in {"assigned", "working", "rework"}
     THEN /\ assignee' = [assignee EXCEPT ![ajob[n]] = 0]
          /\ SetJob(ajob[n], "queued")
          /\ landed' = [landed EXCEPT ![ajob[n]] = FALSE]
     ELSE UNCHANGED <<assignee, jstate, landed>>
  /\ UNCHANGED <<retries, rowVars, callVars, spawnVars, astate, sess, parked,
                 halted, budget>>
-----------------------------------------------------------------------------
(* Management: CancelJob, RequeueJob, StopAgent, halts, office restart.    *)

CancelJob(j) ==
  /\ ValidTransition(jstate[j], "cancelled")
  /\ SetJob(j, "cancelled")
  /\ Kill(LivingByJob(j))
  /\ UNCHANGED <<assignee, retries, rowVars, callVars, spawnVars, respawn,
                 parked, halted, landed>>

UserCancels(j) == Event("cancel") /\ CancelJob(j)

\* StopAgent(kill): cancels the job when that is still possible.
UserKills(n) ==
  /\ Living(n)
  /\ Event("kill")
  /\ \/ CancelJob(ajob[n])
     \/ /\ ~ValidTransition(jstate[ajob[n]], "cancelled")
        /\ Kill({n})
        /\ UNCHANGED <<jobVars, rowVars, callVars, spawnVars, respawn, parked,
                       halted, landed>>

\* StopAgent(restart) kills, waits for the session to be unregistered, and
\* spawns a replacement unless the job is over.
UserRestarts(n) ==
  /\ Living(n)
  /\ Event("restart")
  /\ Kill({n})
  /\ respawn' = [respawn EXCEPT ![n] = "restart"]
  /\ UNCHANGED <<jobVars, rowVars, callVars, spawnVars, parked, halted, landed>>

RestartSpawn(n) ==
  /\ respawn[n] = "restart" /\ sess[n] \in {"none", "starting"}
  /\ respawn' = [respawn EXCEPT ![n] = "no"]
  /\ IF jstate[ajob[n]] \in Terminal
     THEN UNCHANGED <<jstate, rowVars, astate, sess>>
     ELSE ClaimFor(role[n], ajob[n]) /\ Insert(role[n], ajob[n], 0, "restart")
  /\ UNCHANGED <<assignee, retries, callVars, spawnVars, parked, halted,
                 landed, budget>>

\* Store.Retry takes every edge to queued; "requeue" users only requeue jobs
\* that failed or were cancelled.
UserRequeues(j) ==
  /\ ValidTransition(jstate[j], "queued")
  /\ \/ jstate[j] \in Terminal /\ Event("requeue")
     \/ Event("requeueAny")
  /\ SetJob(j, "queued")
  /\ retries' = [retries EXCEPT ![j] = @ + 1]
  /\ landed' = [landed EXCEPT ![j] = FALSE]
  /\ UNCHANGED <<assignee, rowVars, callVars, spawnVars, astate, sess, respawn,
                 parked, halted>>

\* omo office pause / halt-spawns, and their resumption.
Halt ==
  /\ ~halted /\ Event("halt")
  /\ halted' = TRUE
  /\ UNCHANGED <<jobVars, rowVars, callVars, spawnVars, astate, sess, respawn,
                 parked, landed>>

Resume ==
  /\ halted
  /\ halted' = FALSE
  /\ UNCHANGED <<jobVars, rowVars, callVars, spawnVars, astate, sess, respawn,
                 parked, landed, budget>>

\* The office process ends with everything it holds in memory; recover()
\* marks the agents dead and requeues every active job.
Reboot ==
  /\ Event("reboot")
  /\ astate' = [n \in Agents |-> IF Living(n) THEN "dead" ELSE astate[n]]
  /\ sess' = [n \in Agents |-> "none"]
  /\ respawn' = [n \in Agents |-> "no"]
  /\ verdict' = [n \in Agents |-> "idle"]
  /\ seen' = [n \in Agents |-> 0]
  /\ parked' = [n \in Agents |-> "no"]
  /\ disp' = NoJob /\ reviewing' = NoJob
  /\ halted' = FALSE
  /\ LET active == {j \in Jobs : jstate[j] \in ActiveStates} IN
     /\ jstate' = [j \in Jobs |-> IF j \in active THEN "queued" ELSE jstate[j]]
     /\ assignee' = [j \in Jobs |-> IF j \in active THEN 0 ELSE assignee[j]]
     /\ retries' = [j \in Jobs |-> IF j \in active THEN retries[j] + 1
                                                   ELSE retries[j]]
     /\ landed' = [j \in Jobs |-> IF j \in active THEN FALSE ELSE landed[j]]
  /\ UNCHANGED rowVars
-----------------------------------------------------------------------------
OfficeStep ==
  \/ \E j \in Jobs : DispatchPick(j) \/ ReviewBegin(j)
  \/ DispatchPrepFails \/ DispatchSpawn \/ DispatchHalted
  \/ ReviewSpawn \/ ReviewHalted
  \/ \E n \in Agents : \/ SessionStart(n) \/ SessionStartFails(n)
                       \/ MergeLands(n) \/ MergeFails(n) \/ Finalize(n)
                       \/ Reap(n) \/ WatchExit(n) \/ HandshakeTimeout(n)
                       \/ RetrySpawn(n) \/ RetryDeferred(n) \/ RestartSpawn(n)
                       \/ WaitReturns(n) \/ ReadyWrites(n)

AgentStep ==
  \E n \in Agents : \/ Ready(n) \/ ReadyLooks(n) \/ DeveloperDone(n)
                    \/ VerdictMerge(n) \/ VerdictReject(n) \/ ReviewerDone(n)
                    \/ Wait(n) \/ ProcessExit(n)

UserStep ==
  \/ \E j \in Jobs : UserCancels(j) \/ UserRequeues(j) \/ OverrideReview(j)
  \/ \E n \in Agents : UserKills(n) \/ UserRestarts(n)
  \/ Halt \/ Resume \/ Reboot

Next == OfficeStep \/ AgentStep \/ UserStep

Spec == Init /\ [][Next]_vars

\* Every goroutine, git call and process start of the office eventually takes
\* its next step; its loops tick for ever. Nothing is assumed of the agents,
\* the user and the environment.
OfficeFairness ==
  /\ WF_vars(DispatchSpawn) /\ WF_vars(DispatchHalted)
  /\ WF_vars(ReviewSpawn) /\ WF_vars(ReviewHalted)
  /\ \A j \in Jobs : WF_vars(DispatchPick(j)) /\ WF_vars(ReviewBegin(j))
  /\ \A n \in Agents :
       /\ WF_vars(SessionStart(n)) /\ WF_vars(MergeLands(n))
       /\ WF_vars(Finalize(n)) /\ WF_vars(WatchExit(n)) /\ WF_vars(Reap(n))
       /\ WF_vars(RetrySpawn(n)) /\ WF_vars(RetryDeferred(n))
       /\ WF_vars(RestartSpawn(n)) /\ WF_vars(ReadyWrites(n))

OfficeSpec == Spec /\ OfficeFairness
-----------------------------------------------------------------------------
(* Properties.                                                             *)

TypeOK ==
  /\ jstate \in [Jobs -> States]
  /\ assignee \in [Jobs -> Agents \cup {0}]
  /\ retries \in [Jobs -> Nat]
  /\ role \in [Agents -> {"none", "developer", "reviewer"}]
  /\ ajob \in [Agents -> Jobs \cup {NoJob}]
  /\ astate \in [Agents -> LivingStates \cup {"unborn", "done", "dead"}]
  /\ sess \in [Agents -> {"none", "starting", "running", "exited"}]
  /\ via \in [Agents -> {"none", "dispatch", "review", "retry", "restart",
                         "forced"}]
  /\ attempt \in [Agents -> 0..MaxSpawnRetries]
  /\ respawn \in [Agents -> {"no", "retry", "restart"}]
  /\ verdict \in [Agents -> {"idle", "merging", "landed"}]
  /\ seen \in [Agents -> Agents \cup {0}]
  /\ parked \in [Agents -> {"no", "ready", "wait"}]
  /\ disp \in Jobs \cup {NoJob}
  /\ reviewing \in Jobs \cup {NoJob}
  /\ halted \in BOOLEAN
  /\ landed \in [Jobs -> BOOLEAN]
  /\ next \in Nat \ {0}
  /\ budget \in Nat

\* The process of the agent runs, or is about to.
Process(n) == sess[n] \in {"starting", "running"}

\* A job has one developer at a time: the workers of a job share its worktree.
OneDeveloperPerJob ==
  \A j \in Jobs : Cardinality({n \in OfJob(j, "developer") : Process(n)}) <= 1

\* A job has one reviewer at a time, however it is spawned.
OneReviewerPerJob ==
  \A j \in Jobs :
    Cardinality({n \in LivingByJobRole(j, "reviewer") : Process(n)}) <= 1

\* A job has one worker and one reviewer at a time.
OneAgentPerPost == OneDeveloperPerJob /\ OneReviewerPerJob

\* A developer that hands its work in gets a fresh reviewer: none of an earlier
\* round is still there (developerDone; overrides, which keep theirs, are left
\* out of the runs that check this).
ReviewerIsFresh ==
  [][\A j \in Jobs :
       jstate[j] \in {"working", "rework"} /\ jstate'[j] = "review" =>
         LivingByJobRole(j, "reviewer")' = {}]_vars

\* A living row has a session whose exit will be noticed; otherwise it counts
\* against the limits and blocks its job's next reviewer for ever.
LivingIsWatched == \A n \in Agents : Living(n) => sess[n] # "none"

\* A job that is being worked on has a developer whose process runs, whose
\* exit is still to be handled, or that is about to be replaced.
Attended(j) == \E n \in OfJob(j, "developer") :
                 \/ Living(n) /\ sess[n] # "none"
                 \/ respawn[n] # "no"
ActiveJobAttended ==
  \A j \in Jobs : jstate[j] \in {"assigned", "working", "rework"} => Attended(j)

\* The verdict handlers that are merging the job's branch.
Handling(j) == {n \in Agents : ajob[n] = j /\ verdict[n] # "idle"}

\* A merging job has a verdict handler that will move it on: handleDeath and
\* the watchers leave it alone (mergeVerdict).
MergingIsHandled == \A j \in Jobs : jstate[j] = "merging" => Handling(j) # {}

\* Two handlers never merge the same branch.
OneMergeAtATime ==
  \A j \in Jobs : \A m, n \in Handling(j) : m = n

\* What the board calls done is in the target branch.
DoneMeansLanded == \A j \in Jobs : jstate[j] = "done" => landed[j]

\* When a job is done its developer is retired with it.
MergedRetiresDeveloper ==
  \A j \in Jobs : jstate[j] = "done" /\ Handling(j) = {} =>
    ~\E n \in OfJob(j, "developer") : Living(n) /\ sess[n] = "running"

\* The assignee of a job is a developer of that job: rejections and conflicts
\* are mailed to it, and the merge retires it.
AssigneeIsDeveloper ==
  \A j \in Jobs : assignee[j] # 0 => assignee[j] \in OfJob(j, "developer")

\* The rows that the cap on developers counts and whose process runs, or is
\* about to, are never more than the cap, over every dispatch, retry, restart
\* and death (hasCapacity, assign).  A session that is being started while its
\* row is ended is not counted, neither by the code nor here: it runs on beside
\* the developers that the cap lets in (management.go CancelJob, spawn.go).
DeveloperCap ==
  Cardinality({n \in LivingByRole("developer") : Process(n)}) <= MaxDevelopers

\* Deaths alone requeue a job at most MaxJobRetries times.
RetryBudget == \A j \in Jobs : retries[j] > MaxJobRetries => jstate[j] = "failed"

\* The row of an agent that was ended comes back to life only by a verb that
\* passed its checks before and writes without looking again (waitVerb, ready),
\* and a process that is gone is never there again: what such a row says is all
\* that comes back.
EndedNeverActs ==
  [][\A n \in Agents :
       /\ astate[n] \in {"done", "dead"} /\ Living(n)' =>
            parked[n] # "no" /\ ~Process(n)
       /\ role[n] # "none" /\ ~Process(n) => ~Process(n)']_vars

\* Rows of agents that are done or dead do not come back to life.
EndedStaysEnded ==
  [][\A n \in Agents : astate[n] \in {"done", "dead"} =>
                          astate'[n] \in {"done", "dead"}]_vars

\* A review waits for a reviewer only while spawning is halted.
ReviewIsStaffed ==
  \A j \in Jobs : jstate[j] = "review" ~>
    (jstate[j] # "review" \/ halted \/ LivingByJobRole(j, "reviewer") # {})

\* A job whose developer vanished does not stay as it is.
OrphanIsRescued ==
  \A j \in Jobs :
    ~(<>[](jstate[j] \in {"assigned", "working", "rework"}
           /\ ~\E n \in OfJob(j, "developer") : Living(n) /\ Process(n)))

\* A queued job is started, unless the office is halted or full.
QueuedIsDispatched ==
  \A j \in Jobs : jstate[j] = "queued" ~>
    (jstate[j] # "queued" \/ halted \/ ~HasCapacity)

\* Agents that, unless something happens to them, finish what they are told to
\* do: the handshake, the work, the review.
DiligentAgents ==
  \A n \in Agents : /\ WF_vars(Ready(n)) /\ WF_vars(DeveloperDone(n))
                    /\ WF_vars(VerdictMerge(n)) /\ WF_vars(ReviewerDone(n))

\* With such agents every job is settled in the end, unless nobody resumes a
\* halted office.
JobsSettle ==
  DiligentAgents => \A j \in Jobs : <>[](jstate[j] \in Terminal \/ halted)
=============================================================================
