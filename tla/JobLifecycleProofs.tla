------------------------ MODULE JobLifecycleProofs ------------------------
(***************************************************************************)
(* Proofs about JobLifecycle, for all values of its constants.  Its types; *)
(* from the bookkeeping of agent rows and verdict handlers, that a merging *)
(* job is always being merged, by one handler only, and that a job is done *)
(* only when its branch landed; from what any step may do to the life of   *)
(* one agent, what follows for rows, assignees, the cap on developers and  *)
(* the retries; from how each step may move a job, that it has one         *)
(* developer and one reviewer at a time, that it is not left without its   *)
(* developer while it is worked on, that the merge retires the developer   *)
(* and that work handed in meets a fresh reviewer; and that JobLifecycle   *)
(* implements JobBoard.                                                    *)
(***************************************************************************)
EXTENDS JobLifecycleBoard, FiniteSetTheorems, WellFoundedInduction, TLAPS

\* Rows are inserted in order, with a role and a job; nothing has happened yet
\* to an agent whose row is not inserted.
Unborn(n) == /\ ~Living(n) /\ sess[n] = "none" /\ respawn[n] = "no"
             /\ verdict[n] = "idle" /\ parked[n] = "no"
RowsInOrder ==
  \A n \in Agents : IF n < next
                    THEN ajob[n] \in Jobs /\ role[n] \in {"developer", "reviewer"}
                    ELSE Unborn(n)

\* A handshake is retried only while attempts are left.
RetriesLeft == \A n \in Agents : respawn[n] = "retry" => MayRetry(n)

RowInv == TypeOK /\ RowsInOrder /\ RetriesLeft
-----------------------------------------------------------------------------
(* What the helpers of the actions do to the types.                        *)

\* The types of the columns and places that a new agent fills.
RowTypes ==
  /\ role \in [Agents -> {"none", "developer", "reviewer"}]
  /\ ajob \in [Agents -> Jobs \cup {NoJob}]
  /\ astate \in [Agents -> LivingStates \cup {"unborn", "done", "dead"}]
  /\ sess \in [Agents -> {"none", "starting", "running", "exited"}]
  /\ via \in [Agents -> {"none", "dispatch", "review", "retry", "restart",
                         "forced"}]
  /\ attempt \in [Agents -> 0..MaxSpawnRetries]
  /\ next \in Nat \ {0}

\* The bounds used below are numbers.
LEMMA BoundsType == MaxSpawnRetries \in Nat /\ MaxAgents \in Nat /\ MaxFaults \in Nat
BY ConstantsAssumption

\* Setting a job's state to a state keeps the column's type (Store.Transition).
LEMMA SetJobType ==
  ASSUME TypeOK, NEW j, NEW to \in States, SetJob(j, to)
  PROVE  jstate' \in [Jobs -> States]
BY DEF TypeOK, SetJob

\* So does a transition whose error is ignored.
LEMMA TryTransitionType ==
  ASSUME TypeOK, NEW j, NEW to \in States, TryTransition(j, to)
  PROVE  jstate' \in [Jobs -> States]
BY DEF TypeOK, TryTransition, SetJob, AfterTransition

\* KillAgent keeps the types of rows and sessions.
LEMMA KillType ==
  ASSUME TypeOK, NEW S, Kill(S)
  PROVE  /\ astate' \in [Agents -> LivingStates \cup {"unborn", "done", "dead"}]
         /\ sess' \in [Agents -> {"none", "starting", "running", "exited"}]
BY DEF TypeOK, Kill

\* Counting an environment event keeps the budget a number.
LEMMA EventType ==
  ASSUME TypeOK, NEW e, Event(e)
  PROVE  budget' \in Nat
BY DEF TypeOK, Event

\* Claiming a job for a developer keeps the type of the job states.
LEMMA ClaimForType ==
  ASSUME TypeOK, NEW r, NEW j, ClaimFor(r, j)
  PROVE  jstate' \in [Jobs -> States]
BY DEF TypeOK, ClaimFor, SetJob, States

\* Inserting an agent row keeps the types of its columns (InsertAgent).
LEMMA InsertType ==
  ASSUME TypeOK, NEW r \in {"none", "developer", "reviewer"},
         NEW j \in Jobs \cup {NoJob}, NEW k \in 0..MaxSpawnRetries,
         NEW v \in {"dispatch", "review", "retry", "restart", "forced"},
         Insert(r, j, k, v)
  PROVE  RowTypes'
<1>1. next \in Agents /\ next \in Nat \ {0}
  BY DEF Insert, TypeOK
<1>2. next' \in Nat \ {0}
  BY <1>1 DEF Insert
<1> QED
  BY <1>2 DEF TypeOK, RowTypes, Insert, LivingStates

\* What a death does to its job keeps the types (handleDeath).
LEMMA DeathType ==
  ASSUME TypeOK, NEW n \in Agents, JobAfterDeath(n)
  PROVE  /\ jstate' \in [Jobs -> States]
         /\ assignee' \in [Jobs -> Agents \cup {0}]
         /\ retries' \in [Jobs -> Nat]
         /\ landed' \in [Jobs -> BOOLEAN]
<1> DEFINE j == ajob[n]
<1>1. CASE jstate[j] \notin LostTo(role[n])
  BY <1>1 DEF JobAfterDeath, TypeOK, jobVars
<1>2. CASE jstate[j] \in LostTo(role[n])
  <2>1. jstate' \in [Jobs -> States]
    BY <1>2 DEF JobAfterDeath, TypeOK, SetJob, States
  <2>2. retries' \in [Jobs -> Nat]
    BY <1>2 DEF JobAfterDeath, TypeOK
  <2>3. assignee' \in [Jobs -> Agents \cup {0}]
    BY <1>2 DEF JobAfterDeath, TypeOK
  <2>4. landed' \in [Jobs -> BOOLEAN]
    BY <1>2 DEF JobAfterDeath, TypeOK
  <2> QED  BY <2>1, <2>2, <2>3, <2>4
<1> QED  BY <1>1, <1>2
-----------------------------------------------------------------------------
\* No step leaves the types.
LEMMA TypeStep ==
  ASSUME RowInv, Next
  PROVE  TypeOK'
<1> USE DEF RowInv
<1>1. ASSUME NEW j \in Jobs, DispatchPick(j) PROVE TypeOK'
  <2>1. disp' \in Jobs \cup {NoJob}
    BY <1>1 DEF DispatchPick
  <2>2. UNCHANGED <<jobVars, rowVars, callVars, reviewing, astate, sess,
                    respawn, parked, halted, landed, budget>>
    BY <1>1 DEF DispatchPick
  <2> QED
    BY <2>1, <2>2 DEF TypeOK, RowTypes, jobVars, rowVars, callVars, spawnVars
<1>2. ASSUME NEW j \in Jobs, ReviewBegin(j) PROVE TypeOK'
  <2>1. reviewing' \in Jobs \cup {NoJob}
    BY <1>2 DEF ReviewBegin
  <2>2. UNCHANGED <<jobVars, rowVars, callVars, disp, astate, sess, respawn,
                    parked, halted, landed, budget>>
    BY <1>2 DEF ReviewBegin
  <2> QED
    BY <2>1, <2>2 DEF TypeOK, RowTypes, jobVars, rowVars, callVars, spawnVars
<1>3. ASSUME DispatchPrepFails PROVE TypeOK'
  <2>1. jstate' \in [Jobs -> States]
    BY <1>3, TryTransitionType DEF DispatchPrepFails, TypeOK, States
  <2>2. disp' \in Jobs \cup {NoJob}
    BY <1>3 DEF DispatchPrepFails
  <2>3. budget' \in Nat
    BY <1>3, EventType DEF DispatchPrepFails
  <2>4. UNCHANGED <<assignee, retries, rowVars, callVars, reviewing, astate,
                    sess, respawn, parked, halted, landed>>
    BY <1>3 DEF DispatchPrepFails
  <2> QED
    BY <2>1, <2>2, <2>3, <2>4
    DEF TypeOK, RowTypes, jobVars, rowVars, callVars, spawnVars
<1>4. ASSUME DispatchSpawn PROVE TypeOK'
  <2>1. jstate' \in [Jobs -> States]
    BY <1>4, ClaimForType DEF DispatchSpawn
  <2>2. RowTypes'
    BY <1>4, InsertType, BoundsType DEF DispatchSpawn, TypeOK
  <2>3. disp' \in Jobs \cup {NoJob}
    BY <1>4 DEF DispatchSpawn
  <2>4. UNCHANGED <<assignee, retries, callVars, reviewing, respawn, parked,
                    halted, landed, budget>>
    BY <1>4 DEF DispatchSpawn
  <2> QED
    BY <2>1, <2>2, <2>3, <2>4
    DEF TypeOK, RowTypes, jobVars, rowVars, callVars, spawnVars
<1>5. ASSUME DispatchHalted PROVE TypeOK'
  <2>1. jstate' \in [Jobs -> States]
    BY <1>5 DEF DispatchHalted, TypeOK, SetJob, States
  <2>2. disp' \in Jobs \cup {NoJob}
    BY <1>5 DEF DispatchHalted
  <2>3. UNCHANGED <<assignee, retries, rowVars, callVars, reviewing, astate,
                    sess, respawn, parked, halted, landed, budget>>
    BY <1>5 DEF DispatchHalted
  <2> QED
    BY <2>1, <2>2, <2>3
    DEF TypeOK, RowTypes, jobVars, rowVars, callVars, spawnVars
<1>6. ASSUME ReviewSpawn PROVE TypeOK'
  <2>1. RowTypes'
    BY <1>6, InsertType, BoundsType DEF ReviewSpawn, TypeOK
  <2>2. reviewing' \in Jobs \cup {NoJob}
    BY <1>6 DEF ReviewSpawn
  <2>3. UNCHANGED <<jobVars, callVars, disp, respawn, parked, halted, landed,
                    budget>>
    BY <1>6 DEF ReviewSpawn
  <2> QED
    BY <2>1, <2>2, <2>3
    DEF TypeOK, RowTypes, jobVars, rowVars, callVars, spawnVars
<1>7. ASSUME ReviewHalted PROVE TypeOK'
  <2>1. reviewing' \in Jobs \cup {NoJob}
    BY <1>7 DEF ReviewHalted
  <2>2. UNCHANGED <<jobVars, rowVars, callVars, disp, astate, sess, respawn,
                    parked, halted, landed, budget>>
    BY <1>7 DEF ReviewHalted
  <2> QED
    BY <2>1, <2>2 DEF TypeOK, RowTypes, jobVars, rowVars, callVars, spawnVars
<1>8. ASSUME NEW n \in Agents, SessionStart(n) PROVE TypeOK'
  <2>1. assignee' \in [Jobs -> Agents \cup {0}]
    BY <1>8 DEF TypeOK, SessionStart, Recorders
  <2>2. sess' \in [Agents -> {"none", "starting", "running", "exited"}]
    BY <1>8 DEF TypeOK, SessionStart
  <2>3. UNCHANGED <<jstate, retries, rowVars, callVars, spawnVars, astate,
                    respawn, parked, halted, landed, budget>>
    BY <1>8 DEF SessionStart
  <2> QED
    BY <2>1, <2>2, <2>3
    DEF TypeOK, RowTypes, jobVars, rowVars, callVars, spawnVars
<1>9. ASSUME NEW n \in Agents, SessionStartFails(n) PROVE TypeOK'
  <2>1. jstate' \in [Jobs -> States]
    BY <1>9 DEF TypeOK, SessionStartFails, SetJob, States
  <2>2. astate' \in [Agents -> LivingStates \cup {"unborn", "done", "dead"}]
    BY <1>9 DEF TypeOK, SessionStartFails
  <2>3. sess' \in [Agents -> {"none", "starting", "running", "exited"}]
    BY <1>9 DEF TypeOK, SessionStartFails
  <2>4. budget' \in Nat
    BY <1>9, EventType DEF SessionStartFails
  <2>5. UNCHANGED <<assignee, retries, rowVars, callVars, spawnVars, respawn,
                    parked, halted, landed>>
    BY <1>9 DEF SessionStartFails
  <2> QED
    BY <2>1, <2>2, <2>3, <2>4, <2>5
    DEF TypeOK, RowTypes, jobVars, rowVars, callVars, spawnVars
<1>10. ASSUME NEW n \in Agents, MergeLands(n) PROVE TypeOK'
  <2>1. verdict' \in [Agents -> {"idle", "merging", "landed"}]
    BY <1>10 DEF TypeOK, MergeLands
  <2>2. landed' \in [Jobs -> BOOLEAN]
    BY <1>10 DEF TypeOK, MergeLands
  <2>3. UNCHANGED <<jobVars, rowVars, seen, spawnVars, astate, sess, respawn,
                    parked, halted, budget>>
    BY <1>10 DEF MergeLands
  <2> QED
    BY <2>1, <2>2, <2>3
    DEF TypeOK, RowTypes, jobVars, rowVars, callVars, spawnVars
<1>11. ASSUME NEW n \in Agents, MergeFails(n) PROVE TypeOK'
  <2>1. jstate' \in [Jobs -> States]
    BY <1>11, TryTransitionType DEF MergeFails, States
  <2>2. verdict' \in [Agents -> {"idle", "merging", "landed"}]
    BY <1>11 DEF TypeOK, MergeFails
  <2>3. seen' \in [Agents -> Agents \cup {0}]
    BY <1>11 DEF TypeOK, MergeFails
  <2>4. budget' \in Nat
    BY <1>11, EventType DEF MergeFails
  <2>5. UNCHANGED <<assignee, retries, rowVars, spawnVars, astate, sess,
                    respawn, parked, halted, landed>>
    BY <1>11 DEF MergeFails
  <2> QED
    BY <2>1, <2>2, <2>3, <2>4, <2>5
    DEF TypeOK, RowTypes, jobVars, rowVars, callVars, spawnVars
<1>12. ASSUME NEW n \in Agents, Finalize(n) PROVE TypeOK'
  <2>1. jstate' \in [Jobs -> States]
    BY <1>12, TryTransitionType DEF Finalize, States
  <2>2. /\ astate' \in [Agents -> LivingStates \cup {"unborn", "done", "dead"}]
        /\ sess' \in [Agents -> {"none", "starting", "running", "exited"}]
    BY <1>12, KillType DEF Finalize
  <2>3. verdict' \in [Agents -> {"idle", "merging", "landed"}]
    BY <1>12 DEF TypeOK, Finalize
  <2>4. seen' \in [Agents -> Agents \cup {0}]
    BY <1>12 DEF TypeOK, Finalize
  <2>5. UNCHANGED <<assignee, retries, rowVars, spawnVars, respawn, parked,
                    halted, landed, budget>>
    BY <1>12 DEF Finalize
  <2> QED
    BY <2>1, <2>2, <2>3, <2>4, <2>5
    DEF TypeOK, RowTypes, jobVars, rowVars, callVars, spawnVars
<1>13. ASSUME NEW n \in Agents, Reap(n) PROVE TypeOK'
  <2>1. sess' \in [Agents -> {"none", "starting", "running", "exited"}]
    BY <1>13 DEF TypeOK, Reap
  <2>2. UNCHANGED <<jobVars, rowVars, callVars, spawnVars, astate, respawn,
                    parked, halted, landed, budget>>
    BY <1>13 DEF Reap
  <2> QED
    BY <2>1, <2>2 DEF TypeOK, RowTypes, jobVars, rowVars, callVars, spawnVars
<1>14. ASSUME NEW n \in Agents, WatchExit(n) PROVE TypeOK'
  <2>1. sess' \in [Agents -> {"none", "starting", "running", "exited"}]
    BY <1>14 DEF TypeOK, WatchExit
  <2>2. astate' \in [Agents -> LivingStates \cup {"unborn", "done", "dead"}]
    BY <1>14 DEF TypeOK, WatchExit
  <2>3. /\ jstate' \in [Jobs -> States]
        /\ assignee' \in [Jobs -> Agents \cup {0}]
        /\ retries' \in [Jobs -> Nat]
        /\ landed' \in [Jobs -> BOOLEAN]
    BY <1>14, DeathType DEF WatchExit, TypeOK, jobVars
  <2>4. UNCHANGED <<rowVars, callVars, spawnVars, respawn, parked, halted,
                    budget>>
    BY <1>14 DEF WatchExit
  <2> QED
    BY <2>1, <2>2, <2>3, <2>4
    DEF TypeOK, RowTypes, jobVars, rowVars, callVars, spawnVars
<1>15. ASSUME NEW n \in Agents, HandshakeTimeout(n) PROVE TypeOK'
  <2>1. jstate' \in [Jobs -> States]
    BY <1>15, TryTransitionType DEF HandshakeTimeout, TypeOK, States
  <2>2. /\ astate' \in [Agents -> LivingStates \cup {"unborn", "done", "dead"}]
        /\ sess' \in [Agents -> {"none", "starting", "running", "exited"}]
    BY <1>15, KillType DEF HandshakeTimeout
  <2>3. respawn' \in [Agents -> {"no", "retry", "restart"}]
    BY <1>15 DEF TypeOK, HandshakeTimeout
  <2>4. budget' \in Nat
    BY <1>15, EventType DEF HandshakeTimeout
  <2>5. UNCHANGED <<assignee, retries, rowVars, callVars, spawnVars, parked,
                    halted, landed>>
    BY <1>15 DEF HandshakeTimeout
  <2> QED
    BY <2>1, <2>2, <2>3, <2>4, <2>5
    DEF TypeOK, RowTypes, jobVars, rowVars, callVars, spawnVars
<1>16. ASSUME NEW n \in Agents, RetrySpawn(n) PROVE TypeOK'
  <2>1. jstate' \in [Jobs -> States]
    BY <1>16, ClaimForType DEF RetrySpawn
  <2>2. RowTypes'
    <3>1. Insert(role[n], ajob[n], attempt[n] + 1,
                 IF Forced(n) THEN "forced" ELSE "retry")
      BY <1>16 DEF RetrySpawn
    <3>2. attempt[n] + 1 \in 0..MaxSpawnRetries
      BY <1>16, BoundsType DEF RetrySpawn, RetriesLeft, MayRetry, TypeOK
    <3> QED
      BY <3>1, <3>2, InsertType DEF TypeOK
  <2>3. respawn' \in [Agents -> {"no", "retry", "restart"}]
    BY <1>16 DEF TypeOK, RetrySpawn
  <2>4. UNCHANGED <<assignee, retries, callVars, spawnVars, parked, halted,
                    landed, budget>>
    BY <1>16 DEF RetrySpawn
  <2> QED
    BY <2>1, <2>2, <2>3, <2>4
    DEF TypeOK, RowTypes, jobVars, rowVars, callVars, spawnVars
<1>17. ASSUME NEW n \in Agents, RetryDeferred(n) PROVE TypeOK'
  <2>1. jstate' \in [Jobs -> States]
    BY <1>17 DEF TypeOK, RetryDeferred, SetJob, States
  <2>2. assignee' \in [Jobs -> Agents \cup {0}]
    BY <1>17 DEF TypeOK, RetryDeferred
  <2>3. landed' \in [Jobs -> BOOLEAN]
    BY <1>17 DEF TypeOK, RetryDeferred
  <2>4. respawn' \in [Agents -> {"no", "retry", "restart"}]
    BY <1>17 DEF TypeOK, RetryDeferred
  <2>5. UNCHANGED <<retries, rowVars, callVars, spawnVars, astate, sess,
                    parked, halted, budget>>
    BY <1>17 DEF RetryDeferred
  <2> QED
    BY <2>1, <2>2, <2>3, <2>4, <2>5
    DEF TypeOK, RowTypes, jobVars, rowVars, callVars, spawnVars
<1>18. ASSUME NEW n \in Agents, RestartSpawn(n) PROVE TypeOK'
  <2>1. jstate' \in [Jobs -> States]
    BY <1>18, ClaimForType DEF RestartSpawn, TypeOK
  <2>2. RowTypes'
    <3>1. CASE jstate[ajob[n]] \in Terminal
      BY <1>18, <3>1 DEF RestartSpawn, TypeOK, RowTypes, rowVars
    <3>2. CASE jstate[ajob[n]] \notin Terminal
      <4>1. Insert(role[n], ajob[n], 0, "restart")
        BY <1>18, <3>2 DEF RestartSpawn
      <4>2. 0 \in 0..MaxSpawnRetries
        BY BoundsType
      <4>3. role[n] \in {"none", "developer", "reviewer"}
            /\ ajob[n] \in Jobs \cup {NoJob}
        BY DEF TypeOK
      <4> QED
        BY <4>1, <4>2, <4>3, InsertType
    <3> QED
      BY <3>1, <3>2
  <2>3. respawn' \in [Agents -> {"no", "retry", "restart"}]
    BY <1>18 DEF TypeOK, RestartSpawn
  <2>4. UNCHANGED <<assignee, retries, callVars, spawnVars, parked, halted,
                    landed, budget>>
    BY <1>18 DEF RestartSpawn
  <2> QED
    BY <2>1, <2>2, <2>3, <2>4
    DEF TypeOK, RowTypes, jobVars, rowVars, callVars, spawnVars
<1>19. ASSUME NEW n \in Agents, WaitReturns(n) PROVE TypeOK'
  <2>1. astate' \in [Agents -> LivingStates \cup {"unborn", "done", "dead"}]
    BY <1>19 DEF TypeOK, WaitReturns, LivingStates
  <2>2. parked' \in [Agents -> {"no", "ready", "wait"}]
    BY <1>19 DEF TypeOK, WaitReturns
  <2>3. UNCHANGED <<jobVars, rowVars, callVars, spawnVars, sess, respawn,
                    halted, landed, budget>>
    BY <1>19 DEF WaitReturns
  <2> QED
    BY <2>1, <2>2, <2>3
    DEF TypeOK, RowTypes, jobVars, rowVars, callVars, spawnVars
<1>20. ASSUME NEW n \in Agents, Ready(n) PROVE TypeOK'
  <2>1. jstate' \in [Jobs -> States]
    BY <1>20 DEF TypeOK, Ready, Greeted, SetJob, States
  <2>2. astate' \in [Agents -> LivingStates \cup {"unborn", "done", "dead"}]
    BY <1>20 DEF TypeOK, Ready, Greeted, LivingStates
  <2>3. UNCHANGED <<assignee, retries, rowVars, callVars, spawnVars, sess,
                    respawn, parked, halted, landed, budget>>
    BY <1>20 DEF Ready, Greeted
  <2> QED
    BY <2>1, <2>2, <2>3
    DEF TypeOK, RowTypes, jobVars, rowVars, callVars, spawnVars
<1>21. ASSUME NEW n \in Agents, DeveloperDone(n) PROVE TypeOK'
  <2>1. jstate' \in [Jobs -> States]
    BY <1>21, SetJobType DEF DeveloperDone, States
  <2>2. /\ astate' \in [Agents -> LivingStates \cup {"unborn", "done", "dead"}]
        /\ sess' \in [Agents -> {"none", "starting", "running", "exited"}]
    BY <1>21, KillType DEF DeveloperDone
  <2>3. UNCHANGED <<assignee, retries, rowVars, callVars, spawnVars, respawn,
                    parked, halted, landed, budget>>
    BY <1>21 DEF DeveloperDone
  <2> QED
    BY <2>1, <2>2, <2>3
    DEF TypeOK, RowTypes, jobVars, rowVars, callVars, spawnVars
<1>22. ASSUME NEW n \in Agents, VerdictMerge(n) PROVE TypeOK'
  <2>1. jstate' \in [Jobs -> States]
    BY <1>22, SetJobType DEF VerdictMerge, States
  <2>2. verdict' \in [Agents -> {"idle", "merging", "landed"}]
    BY <1>22 DEF TypeOK, VerdictMerge
  <2>3. ajob[n] \in Jobs
    BY <1>22
    DEF RowInv, RowsInOrder, Unborn, VerdictMerge, Acts, TypeOK, Agents
  <2>4. seen' \in [Agents -> Agents \cup {0}]
    BY <1>22, <2>3 DEF VerdictMerge, TypeOK
  <2>5. UNCHANGED <<assignee, retries, rowVars, spawnVars, astate, sess,
                    respawn, parked, halted, landed, budget>>
    BY <1>22 DEF VerdictMerge
  <2> QED
    BY <2>1, <2>2, <2>3, <2>4, <2>5
    DEF TypeOK, RowTypes, jobVars, rowVars, callVars, spawnVars
<1>23. ASSUME NEW n \in Agents, VerdictReject(n) PROVE TypeOK'
  <2>1. jstate' \in [Jobs -> States]
    BY <1>23, SetJobType DEF VerdictReject, States
  <2>2. budget' \in Nat
    BY <1>23, EventType DEF VerdictReject
  <2>3. UNCHANGED <<assignee, retries, rowVars, callVars, spawnVars, astate,
                    sess, respawn, parked, halted, landed>>
    BY <1>23 DEF VerdictReject
  <2> QED
    BY <2>1, <2>2, <2>3
    DEF TypeOK, RowTypes, jobVars, rowVars, callVars, spawnVars
<1>24. ASSUME NEW n \in Agents, ReviewerDone(n) PROVE TypeOK'
  <2>1. astate' \in [Agents -> LivingStates \cup {"unborn", "done", "dead"}]
    BY <1>24 DEF TypeOK, ReviewerDone
  <2>2. budget' \in Nat
    BY <1>24, EventType DEF ReviewerDone, TypeOK
  <2>3. UNCHANGED <<jobVars, rowVars, callVars, spawnVars, sess, respawn,
                    parked, halted, landed>>
    BY <1>24 DEF ReviewerDone
  <2> QED
    BY <2>1, <2>2, <2>3
    DEF TypeOK, RowTypes, jobVars, rowVars, callVars, spawnVars
<1>25. ASSUME NEW n \in Agents, Wait(n) PROVE TypeOK'
  <2>1. astate' \in [Agents -> LivingStates \cup {"unborn", "done", "dead"}]
    BY <1>25 DEF TypeOK, Wait, LivingStates
  <2>2. parked' \in [Agents -> {"no", "ready", "wait"}]
    BY <1>25 DEF TypeOK, Wait
  <2>3. UNCHANGED <<jobVars, rowVars, callVars, spawnVars, sess, respawn,
                    halted, landed, budget>>
    BY <1>25 DEF Wait
  <2> QED
    BY <2>1, <2>2, <2>3
    DEF TypeOK, RowTypes, jobVars, rowVars, callVars, spawnVars
<1>26. ASSUME NEW n \in Agents, ProcessExit(n) PROVE TypeOK'
  <2>1. sess' \in [Agents -> {"none", "starting", "running", "exited"}]
    BY <1>26 DEF TypeOK, ProcessExit
  <2>2. budget' \in Nat
    BY <1>26, EventType DEF ProcessExit
  <2>3. UNCHANGED <<jobVars, rowVars, callVars, spawnVars, astate, respawn,
                    parked, halted, landed>>
    BY <1>26 DEF ProcessExit
  <2> QED
    BY <2>1, <2>2, <2>3
    DEF TypeOK, RowTypes, jobVars, rowVars, callVars, spawnVars
<1>27. ASSUME NEW j \in Jobs, UserCancels(j) PROVE TypeOK'
  <2>1. /\ jstate' \in [Jobs -> States]
        /\ astate' \in [Agents -> LivingStates \cup {"unborn", "done", "dead"}]
        /\ sess' \in [Agents -> {"none", "starting", "running", "exited"}]
    BY <1>27, SetJobType, KillType DEF UserCancels, CancelJob, States
  <2>2. budget' \in Nat
    BY <1>27, EventType DEF UserCancels
  <2>3. UNCHANGED <<assignee, retries, rowVars, callVars, spawnVars, respawn,
                    parked, halted, landed>>
    BY <1>27 DEF UserCancels, CancelJob, jobVars, rowVars
  <2> QED
    BY <2>1, <2>2, <2>3
    DEF TypeOK, RowTypes, jobVars, rowVars, callVars, spawnVars
<1>28. ASSUME NEW j \in Jobs, UserRequeues(j) PROVE TypeOK'
  <2>1. jstate' \in [Jobs -> States]
    BY <1>28, SetJobType DEF UserRequeues, States
  <2>2. /\ retries' \in [Jobs -> Nat]
        /\ landed' \in [Jobs -> BOOLEAN]
    BY <1>28 DEF TypeOK, UserRequeues
  <2>3. budget' \in Nat
    BY <1>28, EventType DEF UserRequeues
  <2>4. UNCHANGED <<assignee, rowVars, callVars, spawnVars, astate, sess,
                    respawn, parked, halted>>
    BY <1>28 DEF UserRequeues
  <2> QED
    BY <2>1, <2>2, <2>3, <2>4
    DEF TypeOK, RowTypes, jobVars, rowVars, callVars, spawnVars
<1>29. ASSUME NEW j \in Jobs, OverrideReview(j) PROVE TypeOK'
  <2>1. jstate' \in [Jobs -> States]
    BY <1>29, SetJobType DEF OverrideReview, States
  <2>2. budget' \in Nat
    BY <1>29, EventType DEF OverrideReview
  <2>3. UNCHANGED <<assignee, retries, rowVars, callVars, spawnVars, astate,
                    sess, respawn, parked, halted, landed>>
    BY <1>29 DEF OverrideReview
  <2> QED
    BY <2>1, <2>2, <2>3
    DEF TypeOK, RowTypes, jobVars, rowVars, callVars, spawnVars
<1>30. ASSUME NEW n \in Agents, UserKills(n) PROVE TypeOK'
  <2>1. /\ jstate' \in [Jobs -> States]
        /\ astate' \in [Agents -> LivingStates \cup {"unborn", "done", "dead"}]
        /\ sess' \in [Agents -> {"none", "starting", "running", "exited"}]
    BY <1>30, SetJobType, KillType
    DEF UserKills, CancelJob, TypeOK, jobVars, States
  <2>2. budget' \in Nat
    BY <1>30, EventType DEF UserKills
  <2>3. UNCHANGED <<assignee, retries, rowVars, callVars, spawnVars, respawn,
                    parked, halted, landed>>
    BY <1>30 DEF UserKills, CancelJob, jobVars, rowVars
  <2> QED
    BY <2>1, <2>2, <2>3
    DEF TypeOK, RowTypes, jobVars, rowVars, callVars, spawnVars
<1>31. ASSUME NEW n \in Agents, UserRestarts(n) PROVE TypeOK'
  <2>1. /\ astate' \in [Agents -> LivingStates \cup {"unborn", "done", "dead"}]
        /\ sess' \in [Agents -> {"none", "starting", "running", "exited"}]
    BY <1>31, KillType DEF UserRestarts
  <2>2. respawn' \in [Agents -> {"no", "retry", "restart"}]
    BY <1>31 DEF TypeOK, UserRestarts
  <2>3. budget' \in Nat
    BY <1>31, EventType DEF UserRestarts
  <2>4. UNCHANGED <<jobVars, rowVars, callVars, spawnVars, parked, halted,
                    landed>>
    BY <1>31 DEF UserRestarts
  <2> QED
    BY <2>1, <2>2, <2>3, <2>4
    DEF TypeOK, RowTypes, jobVars, rowVars, callVars, spawnVars
<1>32. ASSUME Halt PROVE TypeOK'
  <2>1. halted' \in BOOLEAN
    BY <1>32 DEF Halt
  <2>2. budget' \in Nat
    BY <1>32, EventType DEF Halt
  <2>3. UNCHANGED <<jobVars, rowVars, callVars, spawnVars, astate, sess,
                    respawn, parked, landed>>
    BY <1>32 DEF Halt
  <2> QED
    BY <2>1, <2>2, <2>3
    DEF TypeOK, RowTypes, jobVars, rowVars, callVars, spawnVars
<1>33. ASSUME Resume PROVE TypeOK'
  <2>1. halted' \in BOOLEAN
    BY <1>33 DEF Resume
  <2>2. UNCHANGED <<jobVars, rowVars, callVars, spawnVars, astate, sess,
                    respawn, parked, landed, budget>>
    BY <1>33 DEF Resume
  <2> QED
    BY <2>1, <2>2 DEF TypeOK, RowTypes, jobVars, rowVars, callVars, spawnVars
<1>34. ASSUME Reboot PROVE TypeOK'
  <2>1. budget' \in Nat
    BY <1>34, EventType DEF Reboot
  <2>2. astate' \in [Agents -> LivingStates \cup {"unborn", "done", "dead"}]
    BY <1>34 DEF Reboot, TypeOK
  <2>3. /\ sess' \in [Agents -> {"none", "starting", "running", "exited"}]
        /\ respawn' \in [Agents -> {"no", "retry", "restart"}]
        /\ verdict' \in [Agents -> {"idle", "merging", "landed"}]
        /\ seen' \in [Agents -> Agents \cup {0}]
        /\ parked' \in [Agents -> {"no", "ready", "wait"}]
    BY <1>34 DEF Reboot, TypeOK
  <2>4. /\ disp' \in Jobs \cup {NoJob}
        /\ reviewing' \in Jobs \cup {NoJob}
        /\ halted' \in BOOLEAN
    BY <1>34 DEF Reboot
  <2>5. jstate' \in [Jobs -> States]
    BY <1>34 DEF Reboot, TypeOK, States
  <2>6. /\ assignee' \in [Jobs -> Agents \cup {0}]
        /\ retries' \in [Jobs -> Nat]
    BY <1>34 DEF Reboot, TypeOK
  <2>7. landed' \in [Jobs -> BOOLEAN]
    BY <1>34 DEF Reboot, TypeOK
  <2>8. UNCHANGED rowVars
    BY <1>34 DEF Reboot
  <2> QED
    BY <2>1, <2>2, <2>3, <2>4, <2>5, <2>6, <2>7, <2>8 DEF TypeOK, rowVars
<1>35. ASSUME NEW n \in Agents, ReadyLooks(n) PROVE TypeOK'
  <2>1. astate' \in [Agents -> LivingStates \cup {"unborn", "done", "dead"}]
    BY <1>35 DEF TypeOK, ReadyLooks, LivingStates
  <2>2. parked' \in [Agents -> {"no", "ready", "wait"}]
    BY <1>35 DEF TypeOK, ReadyLooks
  <2>3. UNCHANGED <<jobVars, rowVars, callVars, spawnVars, sess, respawn,
                    halted, landed, budget>>
    BY <1>35 DEF ReadyLooks
  <2> QED
    BY <2>1, <2>2, <2>3
    DEF TypeOK, RowTypes, jobVars, rowVars, callVars, spawnVars
<1>36. ASSUME NEW n \in Agents, ReadyWrites(n) PROVE TypeOK'
  <2>1. jstate' \in [Jobs -> States]
    BY <1>36 DEF TypeOK, ReadyWrites, Greeted, SetJob, States
  <2>2. astate' \in [Agents -> LivingStates \cup {"unborn", "done", "dead"}]
    BY <1>36 DEF TypeOK, ReadyWrites, Greeted, LivingStates
  <2>3. parked' \in [Agents -> {"no", "ready", "wait"}]
    BY <1>36 DEF TypeOK, ReadyWrites
  <2>4. UNCHANGED <<assignee, retries, rowVars, callVars, spawnVars, sess,
                    respawn, halted, landed, budget>>
    BY <1>36 DEF ReadyWrites, Greeted
  <2> QED
    BY <2>1, <2>2, <2>3, <2>4
    DEF TypeOK, RowTypes, jobVars, rowVars, callVars, spawnVars
<1> QED
  BY <1>1, <1>2, <1>3, <1>4, <1>5, <1>6, <1>7, <1>8, <1>9, <1>10, <1>11,
     <1>12, <1>13, <1>14, <1>15, <1>16, <1>17, <1>18, <1>19, <1>20, <1>21,
     <1>22, <1>23, <1>24, <1>25, <1>26, <1>27, <1>28, <1>29, <1>30, <1>31,
     <1>32, <1>33, <1>34, <1>35, <1>36
  DEF Next, OfficeStep, AgentStep, UserStep
-----------------------------------------------------------------------------
(* The bookkeeping of agent rows.                                          *)

\* A step that inserts no row and stirs no agent without one keeps the order,
\* and keeps the attempts if it only plans retries that are left.
LEMMA RowsKept ==
  ASSUME RowInv, UNCHANGED rowVars,
         \A n \in Agents : Unborn(n) => Unborn(n)',
         \A n \in Agents : respawn'[n] = "retry" => respawn[n] = "retry" \/ MayRetry(n)
  PROVE  RowsInOrder' /\ RetriesLeft'
BY DEF RowInv, RowsInOrder, RetriesLeft, MayRetry, rowVars

\* Inserting the next row (InsertAgent) keeps both.
LEMMA RowsExtended ==
  ASSUME RowInv, NEW r \in {"developer", "reviewer"}, NEW j \in Jobs, NEW k, NEW v,
         Insert(r, j, k, v), UNCHANGED <<verdict, parked>>,
         \A n \in Agents : respawn'[n] # "no" => respawn'[n] = respawn[n]
  PROVE  RowsInOrder' /\ RetriesLeft'
<1>1. next \in Agents /\ next' = next + 1 /\ respawn[next] = "no"
  BY DEF RowInv, RowsInOrder, Insert, Unborn, Agents
<1>2. RowsInOrder'
  BY <1>1 DEF RowInv, TypeOK, RowsInOrder, Unborn, Living, Insert, Agents
<1>3. RetriesLeft'
  BY <1>1 DEF RowInv, TypeOK, RetriesLeft, MayRetry, Insert
<1> QED  BY <1>2, <1>3

\* KillAgent does not stir an agent without a row.
LEMMA KillKeepsUnborn ==
  ASSUME TypeOK, NEW S, Kill(S), NEW n \in Agents, ~Living(n), sess[n] = "none"
  PROVE  ~Living(n)' /\ sess'[n] = "none"
BY DEF TypeOK, Kill, Living, LivingStates

\* An agent to which something has happened has a row.
LEMMA HasRow ==
  ASSUME RowInv, NEW n \in Agents, ~Unborn(n)
  PROVE  n < next /\ ajob[n] \in Jobs /\ role[n] \in {"developer", "reviewer"}
BY DEF RowInv, RowsInOrder

\* No step disturbs the order of rows or plans a retry too many.
LEMMA RowStep ==
  ASSUME RowInv, Next
  PROVE  RowsInOrder' /\ RetriesLeft'
<1> DEFINE Kept == RowsInOrder' /\ RetriesLeft'
<1>1. ASSUME NEW j \in Jobs, DispatchPick(j) PROVE Kept
  BY <1>1, RowsKept
  DEF DispatchPick, Unborn, Living, RowInv, TypeOK, callVars, rowVars
<1>2. ASSUME NEW j \in Jobs, ReviewBegin(j) PROVE Kept
  BY <1>2, RowsKept
  DEF ReviewBegin, Unborn, Living, RowInv, TypeOK, callVars, rowVars
<1>3. ASSUME DispatchPrepFails PROVE Kept
  BY <1>3, RowsKept
  DEF DispatchPrepFails, Unborn, Living, RowInv, TypeOK, callVars, rowVars
<1>4. ASSUME DispatchSpawn PROVE Kept
  <2>1. Insert("developer", disp, 0, "dispatch") /\ disp \in Jobs
    BY <1>4 DEF DispatchSpawn, RowInv, TypeOK
  <2> QED
    BY <1>4, <2>1, RowsExtended DEF DispatchSpawn, callVars
<1>5. ASSUME DispatchHalted PROVE Kept
  BY <1>5, RowsKept
  DEF DispatchHalted, Unborn, Living, RowInv, TypeOK, callVars, rowVars
<1>6. ASSUME ReviewSpawn PROVE Kept
  <2>1. Insert("reviewer", reviewing, 0, "review") /\ reviewing \in Jobs
    BY <1>6 DEF ReviewSpawn, RowInv, TypeOK
  <2> QED
    BY <1>6, <2>1, RowsExtended DEF ReviewSpawn, callVars
<1>7. ASSUME ReviewHalted PROVE Kept
  BY <1>7, RowsKept
  DEF ReviewHalted, Unborn, Living, RowInv, TypeOK, callVars, rowVars
<1>8. ASSUME NEW n \in Agents, SessionStart(n) PROVE Kept
  BY <1>8, RowsKept
  DEF SessionStart, Unborn, Living, RowInv, TypeOK, callVars, rowVars
<1>9. ASSUME NEW n \in Agents, SessionStartFails(n) PROVE Kept
  BY <1>9, RowsKept
  DEF SessionStartFails, Unborn, Living, RowInv, TypeOK, callVars, rowVars
<1>10. ASSUME NEW n \in Agents, MergeLands(n) PROVE Kept
  BY <1>10, RowsKept
  DEF MergeLands, Unborn, Living, RowInv, TypeOK, callVars, rowVars
<1>11. ASSUME NEW n \in Agents, MergeFails(n) PROVE Kept
  BY <1>11, RowsKept
  DEF MergeFails, Unborn, Living, RowInv, TypeOK, callVars, rowVars
<1>12. ASSUME NEW n \in Agents, Finalize(n) PROVE Kept
  <2>1. \A m \in Agents : Unborn(m) => ~Living(m)' /\ sess'[m] = "none"
    BY <1>12, KillKeepsUnborn DEF Finalize, RowInv, Unborn
  <2> QED
    BY <1>12, <2>1, RowsKept DEF Finalize, Unborn, RowInv, TypeOK
<1>13. ASSUME NEW n \in Agents, Reap(n) PROVE Kept
  BY <1>13, RowsKept
  DEF Reap, Unborn, Living, RowInv, TypeOK, callVars, rowVars
<1>14. ASSUME NEW n \in Agents, WatchExit(n) PROVE Kept
  BY <1>14, RowsKept
  DEF WatchExit, Unborn, Living, RowInv, TypeOK, callVars, rowVars
<1>15. ASSUME NEW n \in Agents, HandshakeTimeout(n) PROVE Kept
  BY <1>15, RowsKept
  DEF HandshakeTimeout, Kill, Unborn, Living, RowInv, TypeOK, callVars, rowVars
<1>16. ASSUME NEW n \in Agents, RetrySpawn(n) PROVE Kept
  <2>1. ajob[n] \in Jobs /\ role[n] \in {"developer", "reviewer"}
    BY <1>16, HasRow DEF RetrySpawn, Unborn
  <2> QED
    BY <1>16, <2>1, RowsExtended DEF RetrySpawn, callVars
<1>17. ASSUME NEW n \in Agents, RetryDeferred(n) PROVE Kept
  BY <1>17, RowsKept
  DEF RetryDeferred, Unborn, Living, RowInv, TypeOK, callVars, rowVars
<1>18. ASSUME NEW n \in Agents, RestartSpawn(n) PROVE Kept
  <2>1. ajob[n] \in Jobs /\ role[n] \in {"developer", "reviewer"}
    BY <1>18, HasRow DEF RestartSpawn, Unborn
  <2>2. CASE jstate[ajob[n]] \in Terminal
    BY <1>18, <2>2, RowsKept
    DEF RestartSpawn, Unborn, Living, RowInv, TypeOK, rowVars, callVars
  <2>3. CASE jstate[ajob[n]] \notin Terminal
    BY <1>18, <2>1, <2>3, RowsExtended DEF RestartSpawn, callVars
  <2> QED
    BY <2>2, <2>3
<1>19. ASSUME NEW n \in Agents, WaitReturns(n) PROVE Kept
  BY <1>19, RowsKept
  DEF WaitReturns, Unborn, Living, RowInv, TypeOK, callVars, rowVars
<1>20. ASSUME NEW n \in Agents, Ready(n) PROVE Kept
  BY <1>20, RowsKept
  DEF Ready, Greeted, MayReady, Unborn, Living, RowInv, TypeOK, callVars, rowVars
<1>21. ASSUME NEW n \in Agents, DeveloperDone(n) PROVE Kept
  <2>1. \A m \in Agents : Unborn(m) => ~Living(m)' /\ sess'[m] = "none"
    BY <1>21, KillKeepsUnborn DEF DeveloperDone, RowInv, Unborn
  <2> QED
    BY <1>21, <2>1, RowsKept DEF DeveloperDone, Unborn, callVars
<1>22. ASSUME NEW n \in Agents, VerdictMerge(n) PROVE Kept
  BY <1>22, RowsKept
  DEF VerdictMerge, Acts, Unborn, Living, RowInv, TypeOK, callVars, rowVars
<1>23. ASSUME NEW n \in Agents, VerdictReject(n) PROVE Kept
  BY <1>23, RowsKept
  DEF VerdictReject, Unborn, Living, RowInv, TypeOK, callVars, rowVars
<1>24. ASSUME NEW n \in Agents, ReviewerDone(n) PROVE Kept
  BY <1>24, RowsKept
  DEF ReviewerDone, Acts, Unborn, Living, RowInv, TypeOK, callVars, rowVars
<1>25. ASSUME NEW n \in Agents, Wait(n) PROVE Kept
  BY <1>25, RowsKept
  DEF Wait, Acts, Unborn, Living, RowInv, TypeOK, callVars, rowVars
<1>26. ASSUME NEW n \in Agents, ProcessExit(n) PROVE Kept
  BY <1>26, RowsKept
  DEF ProcessExit, Unborn, Living, RowInv, TypeOK, callVars, rowVars
<1>27. ASSUME NEW j \in Jobs, UserCancels(j) PROVE Kept
  <2>1. \A m \in Agents : Unborn(m) => ~Living(m)' /\ sess'[m] = "none"
    BY <1>27, KillKeepsUnborn DEF UserCancels, CancelJob, RowInv, Unborn
  <2> QED
    BY <1>27, <2>1, RowsKept DEF UserCancels, CancelJob, Unborn, callVars
<1>28. ASSUME NEW j \in Jobs, UserRequeues(j) PROVE Kept
  BY <1>28, RowsKept
  DEF UserRequeues, Unborn, Living, RowInv, TypeOK, callVars, rowVars
<1>29. ASSUME NEW j \in Jobs, OverrideReview(j) PROVE Kept
  BY <1>29, RowsKept
  DEF OverrideReview, Unborn, Living, RowInv, TypeOK, callVars, rowVars
<1>30. ASSUME NEW n \in Agents, UserKills(n) PROVE Kept
  <2>1. PICK S : Kill(S)
    BY <1>30 DEF UserKills, CancelJob
  <2>2. \A m \in Agents : Unborn(m) => ~Living(m)' /\ sess'[m] = "none"
    BY <2>1, KillKeepsUnborn DEF RowInv, Unborn
  <2>3. UNCHANGED <<rowVars, callVars, respawn, parked>>
    BY <1>30 DEF UserKills, CancelJob
  <2> QED
    BY <2>2, <2>3, RowsKept DEF Unborn, callVars
<1>31. ASSUME NEW n \in Agents, UserRestarts(n) PROVE Kept
  BY <1>31, RowsKept
  DEF UserRestarts, Kill, Unborn, Living, RowInv, TypeOK, callVars, rowVars
<1>32. ASSUME Halt PROVE Kept
  BY <1>32, RowsKept
  DEF Halt, Unborn, Living, RowInv, TypeOK, callVars, rowVars
<1>33. ASSUME Resume PROVE Kept
  BY <1>33, RowsKept
  DEF Resume, Unborn, Living, RowInv, TypeOK, callVars, rowVars
<1>34. ASSUME Reboot PROVE Kept
  BY <1>34, RowsKept
  DEF Reboot, Unborn, Living, RowInv, TypeOK, callVars, rowVars
<1>35. ASSUME NEW n \in Agents, ReadyLooks(n) PROVE Kept
  BY <1>35, RowsKept
  DEF ReadyLooks, MayReady, Unborn, Living, RowInv, TypeOK, callVars, rowVars
<1>36. ASSUME NEW n \in Agents, ReadyWrites(n) PROVE Kept
  BY <1>36, RowsKept
  DEF ReadyWrites, Greeted, MayReady, Unborn, Living, RowInv, TypeOK, callVars, rowVars
<1> QED
  BY <1>1, <1>2, <1>3, <1>4, <1>5, <1>6, <1>7, <1>8, <1>9, <1>10, <1>11,
     <1>12, <1>13, <1>14, <1>15, <1>16, <1>17, <1>18, <1>19, <1>20, <1>21,
     <1>22, <1>23, <1>24, <1>25, <1>26, <1>27, <1>28, <1>29, <1>30, <1>31,
     <1>32, <1>33, <1>34, <1>35, <1>36
  DEF Next, OfficeStep, AgentStep, UserStep
-----------------------------------------------------------------------------
\* Rows, attempts and types hold from the start and through every step.
LEMMA RowsCorrect == Spec => []RowInv
<1>1. Init => RowInv
  <2> SUFFICES ASSUME Init PROVE RowInv
    OBVIOUS
  <2>1. TypeOK
    <3>1. 0 \in 0..MaxSpawnRetries
      BY BoundsType
    <3>2. attempt \in [Agents -> 0..MaxSpawnRetries]
      BY <3>1 DEF Init
    <3>3. next \in Nat \ {0} /\ budget \in Nat
      BY BoundsType DEF Init
    <3>4. /\ jstate \in [Jobs -> States]
          /\ assignee \in [Jobs -> Agents \cup {0}]
          /\ retries \in [Jobs -> Nat]
          /\ landed \in [Jobs -> BOOLEAN]
      BY DEF Init, States
    <3>5. astate \in [Agents -> LivingStates \cup {"unborn", "done", "dead"}]
      BY DEF Init
    <3>6. /\ role \in [Agents -> {"none", "developer", "reviewer"}]
          /\ ajob \in [Agents -> Jobs \cup {NoJob}]
          /\ sess \in [Agents -> {"none", "starting", "running", "exited"}]
          /\ respawn \in [Agents -> {"no", "retry", "restart"}]
      BY DEF Init
    <3>7. /\ via \in [Agents -> {"none", "dispatch", "review", "retry",
                                 "restart", "forced"}]
          /\ verdict \in [Agents -> {"idle", "merging", "landed"}]
          /\ seen \in [Agents -> Agents \cup {0}]
          /\ parked \in [Agents -> {"no", "ready", "wait"}]
      BY DEF Init
    <3>8. /\ disp \in Jobs \cup {NoJob}
          /\ reviewing \in Jobs \cup {NoJob}
          /\ halted \in BOOLEAN
      BY DEF Init
    <3> QED
      BY <3>2, <3>3, <3>4, <3>5, <3>6, <3>7, <3>8 DEF TypeOK
  <2>2. RowsInOrder /\ RetriesLeft
    BY DEF Init, RowsInOrder, RetriesLeft, Unborn, Living, LivingStates, Agents
  <2> QED
    BY <2>1, <2>2 DEF RowInv
<1>2. RowInv /\ [Next]_vars => RowInv'
  <2> SUFFICES ASSUME RowInv, [Next]_vars PROVE RowInv'
    OBVIOUS
  <2>1. CASE Next
    BY <2>1, TypeStep, RowStep DEF RowInv
  <2>2. CASE UNCHANGED vars
    <3>1. UNCHANGED <<jobVars, rowVars, callVars, spawnVars>>
          /\ UNCHANGED <<astate, sess, respawn, parked, halted, landed,
                         budget>>
      BY <2>2 DEF vars
    <3>2. TypeOK'
      BY <3>1 DEF RowInv, TypeOK, jobVars, rowVars, callVars, spawnVars
    <3>3. RowsInOrder' /\ RetriesLeft'
      BY <3>1, RowsKept DEF Unborn, Living, callVars
    <3> QED
      BY <3>2, <3>3 DEF RowInv
  <2> QED
    BY <2>1, <2>2
<1> QED
  BY <1>1, <1>2, PTL DEF Spec

\* Every variable keeps its type, for any jobs, bounds and environment. In
\* particular no agent is ever spawned beyond agents.max_spawn_retries and no
\* verdict handler reads the assignee of a job that is not there.
THEOREM TypeCorrect == Spec => []TypeOK
<1>1. RowInv => TypeOK
  BY DEF RowInv
<1> QED
  BY RowsCorrect, <1>1, PTL
-----------------------------------------------------------------------------
(***************************************************************************)
(* The verdict handlers (mergeVerdict and finalizeMergingJob): a merging   *)
(* job is always being merged, by one handler only, and a job is done only *)
(* when its branch landed.                                                 *)
(***************************************************************************)

\* Five actions touch the handlers, and a user's requeue is unlike any other
\* change of a job. Every other step leaves the handlers and their rows alone,
\* and lets no job into or out of merging, cancelled or done, except that it
\* may cancel one.
Cancelled(j) == /\ jstate[j] # "done" /\ jstate'[j] = "cancelled"
                /\ landed'[j] = landed[j]
                /\ {"cancel", "kill"} \cap Env # {}
QuietJob(j) ==
  \/ jstate'[j] = jstate[j] /\ landed'[j] = landed[j]
  \/ Cancelled(j)
  \/ /\ jstate[j] \notin {"merging", "cancelled", "done"}
     /\ jstate'[j] \notin {"merging", "cancelled", "done"}
QuietHandlers ==
  /\ verdict' = verdict
  /\ \A n \in Agents : verdict[n] # "idle" => ajob'[n] = ajob[n]
Quiet == QuietHandlers /\ \A j \in Jobs : QuietJob(j)

Loud == \/ \E n \in Agents : \/ VerdictMerge(n) \/ MergeLands(n)
                             \/ MergeFails(n) \/ Finalize(n)
        \/ \E j \in Jobs : UserRequeues(j)
        \/ Reboot

\* Inserting a row touches no handler: the new agent has none.
LEMMA InsertIsQuiet ==
  ASSUME RowInv, NEW r, NEW j, NEW k, NEW v, Insert(r, j, k, v),
         verdict' = verdict
  PROVE  QuietHandlers
BY DEF RowInv, RowsInOrder, Unborn, Insert, QuietHandlers, TypeOK

\* Claiming a queued job for its developer is quiet.
LEMMA ClaimIsQuiet ==
  ASSUME RowInv, NEW r, NEW i, ClaimFor(r, i), landed' = landed
  PROVE  \A j \in Jobs : QuietJob(j)
BY DEF RowInv, TypeOK, ClaimFor, SetJob, QuietJob

\* A job that is merging, cancelled or done cannot fail.
LEMMA FailIsQuiet ==
  ASSUME RowInv, NEW i, TryTransition(i, "failed"), landed' = landed
  PROVE  \A j \in Jobs : QuietJob(j)
BY DEF RowInv, TypeOK, States, TryTransition, SetJob, AfterTransition,
       ValidTransition, Edges, QuietJob

\* A death takes no merging, cancelled or done job back (handleDeath).
LEMMA DeathIsQuiet ==
  ASSUME RowInv, NEW n \in Agents, JobAfterDeath(n)
  PROVE  \A j \in Jobs : QuietJob(j)
<1>1. CASE jstate[ajob[n]] \notin LostTo(role[n])
  BY <1>1 DEF JobAfterDeath, jobVars, QuietJob
<1>2. CASE jstate[ajob[n]] \in LostTo(role[n])
  <2>1. jstate[ajob[n]] \notin {"merging", "cancelled", "done"}
    BY <1>2 DEF LostTo, LostStates
  <2>2. PICK to \in {"failed", "queued", "review"} : SetJob(ajob[n], to)
    BY <1>2 DEF JobAfterDeath
  <2>3. \A j \in Jobs : j # ajob[n] => landed'[j] = landed[j]
    BY <1>2 DEF JobAfterDeath, RowInv, TypeOK
  <2> QED
    BY <2>1, <2>2, <2>3 DEF RowInv, TypeOK, SetJob, QuietJob
<1> QED
  BY <1>1, <1>2

\* So does cancelling a job (CancelJob).
LEMMA CancelIsQuiet ==
  ASSUME RowInv, NEW i, CancelJob(i), {"cancel", "kill"} \cap Env # {}
  PROVE  Quiet
<1>1. QuietHandlers
  BY DEF CancelJob, callVars, rowVars, QuietHandlers
<1>2. jstate[i] # "done"
  BY DEF CancelJob, ValidTransition, Edges
<1>3. \A j \in Jobs : QuietJob(j)
  BY <1>2 DEF CancelJob, SetJob, RowInv, TypeOK, QuietJob, Cancelled
<1> QED
  BY <1>1, <1>3 DEF Quiet
-----------------------------------------------------------------------------
\* Every step is quiet, or one of the six kinds that the theorems look at.
LEMMA QuietStep ==
  ASSUME RowInv, Next
  PROVE  Quiet \/ Loud
<1>1. ASSUME NEW j \in Jobs, DispatchPick(j) PROVE Quiet
  BY <1>1 DEF DispatchPick, Quiet, QuietHandlers, QuietJob,
              jobVars, rowVars, callVars
<1>2. ASSUME NEW j \in Jobs, ReviewBegin(j) PROVE Quiet
  BY <1>2 DEF ReviewBegin, Quiet, QuietHandlers, QuietJob,
              jobVars, rowVars, callVars
<1>3. ASSUME DispatchPrepFails PROVE Quiet
  <2>1. QuietHandlers
    BY <1>3 DEF DispatchPrepFails, QuietHandlers, rowVars, callVars
  <2>2. \A j \in Jobs : QuietJob(j)
    <3>1. CASE UNCHANGED jstate
      BY <1>3, <3>1 DEF DispatchPrepFails, QuietJob
    <3>2. CASE TryTransition(disp, "failed")
      BY <1>3, <3>2, FailIsQuiet DEF DispatchPrepFails
    <3> QED
      BY <1>3, <3>1, <3>2 DEF DispatchPrepFails
  <2> QED
    BY <2>1, <2>2 DEF Quiet
<1>4. ASSUME DispatchSpawn PROVE Quiet
  <2>1. QuietHandlers
    BY <1>4, InsertIsQuiet DEF DispatchSpawn, callVars
  <2>2. \A j \in Jobs : QuietJob(j)
    BY <1>4, ClaimIsQuiet DEF DispatchSpawn
  <2> QED
    BY <2>1, <2>2 DEF Quiet
<1>5. ASSUME DispatchHalted PROVE Quiet
  <2>1. QuietHandlers
    BY <1>5 DEF DispatchHalted, QuietHandlers, rowVars, callVars
  <2>2. \A j \in Jobs : QuietJob(j)
    BY <1>5 DEF DispatchHalted, SetJob, RowInv, TypeOK, QuietJob
  <2> QED
    BY <2>1, <2>2 DEF Quiet
<1>6. ASSUME ReviewSpawn PROVE Quiet
  <2>1. QuietHandlers
    BY <1>6, InsertIsQuiet DEF ReviewSpawn, callVars
  <2>2. \A j \in Jobs : QuietJob(j)
    BY <1>6 DEF ReviewSpawn, jobVars, QuietJob
  <2> QED
    BY <2>1, <2>2 DEF Quiet
<1>7. ASSUME ReviewHalted PROVE Quiet
  BY <1>7 DEF ReviewHalted, Quiet, QuietHandlers, QuietJob,
              jobVars, rowVars, callVars
<1>8. ASSUME NEW n \in Agents, SessionStart(n) PROVE Quiet
  BY <1>8 DEF SessionStart, Quiet, QuietHandlers, QuietJob,
              jobVars, rowVars, callVars
<1>9. ASSUME NEW n \in Agents, SessionStartFails(n) PROVE Quiet
  <2>1. QuietHandlers
    BY <1>9 DEF SessionStartFails, QuietHandlers, rowVars, callVars
  <2>2. \A j \in Jobs : QuietJob(j)
    BY <1>9 DEF SessionStartFails, SetJob, RowInv, TypeOK, QuietJob
  <2> QED
    BY <2>1, <2>2 DEF Quiet
<1>10. ASSUME NEW n \in Agents, Reap(n) PROVE Quiet
  BY <1>10 DEF Reap, Quiet, QuietHandlers, QuietJob,
              jobVars, rowVars, callVars
<1>11. ASSUME NEW n \in Agents, WatchExit(n) PROVE Quiet
  <2>1. QuietHandlers
    BY <1>11 DEF WatchExit, QuietHandlers, rowVars, callVars
  <2>2. CASE Living(n)
    BY <1>11, <2>1, <2>2, DeathIsQuiet DEF WatchExit, Quiet
  <2>3. CASE ~Living(n)
    BY <1>11, <2>1, <2>3 DEF WatchExit, jobVars, Quiet, QuietJob
  <2> QED
    BY <2>2, <2>3
<1>12. ASSUME NEW n \in Agents, HandshakeTimeout(n) PROVE Quiet
  <2>1. QuietHandlers
    BY <1>12 DEF HandshakeTimeout, QuietHandlers, rowVars, callVars
  <2>2. \A j \in Jobs : QuietJob(j)
    <3>1. CASE MayRetry(n)
      BY <1>12, <3>1 DEF HandshakeTimeout, QuietJob
    <3>2. CASE ~MayRetry(n)
      BY <1>12, <3>2, FailIsQuiet DEF HandshakeTimeout
    <3> QED
      BY <3>1, <3>2
  <2> QED
    BY <2>1, <2>2 DEF Quiet
<1>13. ASSUME NEW n \in Agents, RetrySpawn(n) PROVE Quiet
  <2>1. QuietHandlers
    BY <1>13, InsertIsQuiet DEF RetrySpawn, callVars
  <2>2. \A j \in Jobs : QuietJob(j)
    BY <1>13, ClaimIsQuiet DEF RetrySpawn
  <2> QED
    BY <2>1, <2>2 DEF Quiet
<1>14. ASSUME NEW n \in Agents, RetryDeferred(n) PROVE Quiet
  <2>1. QuietHandlers
    BY <1>14 DEF RetryDeferred, QuietHandlers, rowVars, callVars
  <2>2. \A j \in Jobs : QuietJob(j)
    BY <1>14 DEF RetryDeferred, SetJob, RowInv, TypeOK, QuietJob
  <2> QED
    BY <2>1, <2>2 DEF Quiet
<1>15. ASSUME NEW n \in Agents, RestartSpawn(n) PROVE Quiet
  <2>1. CASE jstate[ajob[n]] \in Terminal
    BY <1>15, <2>1 DEF RestartSpawn, Quiet, QuietHandlers, QuietJob,
                      rowVars, callVars
  <2>2. CASE jstate[ajob[n]] \notin Terminal
    <3>1. QuietHandlers
      BY <1>15, <2>2, InsertIsQuiet DEF RestartSpawn, callVars
    <3>2. \A j \in Jobs : QuietJob(j)
      BY <1>15, <2>2, ClaimIsQuiet DEF RestartSpawn
    <3> QED
      BY <3>1, <3>2 DEF Quiet
  <2> QED
    BY <2>1, <2>2
<1>16. ASSUME NEW n \in Agents, WaitReturns(n) PROVE Quiet
  BY <1>16 DEF WaitReturns, Quiet, QuietHandlers, QuietJob,
              jobVars, rowVars, callVars
<1>17. ASSUME NEW n \in Agents, Ready(n) PROVE Quiet
  <2>1. QuietHandlers
    BY <1>17 DEF Ready, Greeted, QuietHandlers, rowVars, callVars
  <2>2. \A j \in Jobs : QuietJob(j)
    BY <1>17 DEF Ready, Greeted, SetJob, RowInv, TypeOK, QuietJob
  <2> QED
    BY <2>1, <2>2 DEF Quiet
<1>18. ASSUME NEW n \in Agents, DeveloperDone(n) PROVE Quiet
  <2>1. QuietHandlers
    BY <1>18 DEF DeveloperDone, QuietHandlers, rowVars, callVars
  <2>2. \A j \in Jobs : QuietJob(j)
    BY <1>18 DEF DeveloperDone, SetJob, RowInv, TypeOK, QuietJob
  <2> QED
    BY <2>1, <2>2 DEF Quiet
<1>19. ASSUME NEW n \in Agents, VerdictReject(n) PROVE Quiet
  <2>1. QuietHandlers
    BY <1>19 DEF VerdictReject, QuietHandlers, rowVars, callVars
  <2>2. \A j \in Jobs : QuietJob(j)
    BY <1>19 DEF VerdictReject, SetJob, RowInv, TypeOK, QuietJob
  <2> QED
    BY <2>1, <2>2 DEF Quiet
<1>20. ASSUME NEW n \in Agents, ReviewerDone(n) PROVE Quiet
  BY <1>20 DEF ReviewerDone, Quiet, QuietHandlers, QuietJob,
              jobVars, rowVars, callVars
<1>21. ASSUME NEW n \in Agents, Wait(n) PROVE Quiet
  BY <1>21 DEF Wait, Quiet, QuietHandlers, QuietJob,
              jobVars, rowVars, callVars
<1>22. ASSUME NEW n \in Agents, ProcessExit(n) PROVE Quiet
  BY <1>22 DEF ProcessExit, Quiet, QuietHandlers, QuietJob,
              jobVars, rowVars, callVars
<1>23. ASSUME NEW j \in Jobs, UserCancels(j) PROVE Quiet
  BY <1>23, CancelIsQuiet DEF UserCancels, Event
<1>24. ASSUME NEW i \in Jobs, OverrideReview(i) PROVE Quiet
  <2>1. QuietHandlers
    BY <1>24 DEF OverrideReview, QuietHandlers, rowVars, callVars
  <2>2. \A j \in Jobs : QuietJob(j)
    BY <1>24 DEF OverrideReview, SetJob, RowInv, TypeOK, QuietJob
  <2> QED
    BY <2>1, <2>2 DEF Quiet
<1>25. ASSUME NEW n \in Agents, UserKills(n) PROVE Quiet
  <2>1. CASE CancelJob(ajob[n])
    BY <1>25, <2>1, CancelIsQuiet DEF UserKills, Event
  <2>2. CASE ~CancelJob(ajob[n])
    BY <1>25, <2>2 DEF UserKills, Quiet, QuietHandlers, QuietJob,
                      jobVars, rowVars, callVars
  <2> QED
    BY <2>1, <2>2
<1>26. ASSUME NEW n \in Agents, UserRestarts(n) PROVE Quiet
  BY <1>26 DEF UserRestarts, Quiet, QuietHandlers, QuietJob,
              jobVars, rowVars, callVars
<1>27. ASSUME Halt PROVE Quiet
  BY <1>27 DEF Halt, Quiet, QuietHandlers, QuietJob,
              jobVars, rowVars, callVars
<1>28. ASSUME Resume PROVE Quiet
  BY <1>28 DEF Resume, Quiet, QuietHandlers, QuietJob,
              jobVars, rowVars, callVars
<1>29. ASSUME NEW n \in Agents, ReadyLooks(n) PROVE Quiet
  BY <1>29 DEF ReadyLooks, Quiet, QuietHandlers, QuietJob,
              jobVars, rowVars, callVars
<1>30. ASSUME NEW n \in Agents, ReadyWrites(n) PROVE Quiet
  <2>1. QuietHandlers
    BY <1>30 DEF ReadyWrites, Greeted, QuietHandlers, rowVars, callVars
  <2>2. \A j \in Jobs : QuietJob(j)
    BY <1>30 DEF ReadyWrites, Greeted, SetJob, RowInv, TypeOK, QuietJob
  <2> QED
    BY <2>1, <2>2 DEF Quiet
<1> QED
  BY <1>1, <1>2, <1>3, <1>4, <1>5, <1>6, <1>7, <1>8, <1>9, <1>10, <1>11,
     <1>12, <1>13, <1>14, <1>15, <1>16, <1>17, <1>18, <1>19, <1>20, <1>21,
     <1>22, <1>23, <1>24, <1>25, <1>26, <1>27, <1>28, <1>29, <1>30
  DEF Next, OfficeStep, AgentStep, UserStep, Loud
-----------------------------------------------------------------------------
\* A stuttering step is quiet.
LEMMA StutterIsQuiet == UNCHANGED vars => Quiet
BY DEF vars, jobVars, rowVars, callVars, Quiet, QuietHandlers, QuietJob

\* The invariant behind the first theorem needs nothing but the rows.
MergingInv == RowInv /\ MergingIsHandled

\* A merging job keeps a handler: a handler ends only by moving its job on, and
\* nobody but a handler, a requeue or recover() moves a job from merging.
LEMMA MergingStep ==
  ASSUME MergingInv, RowInv', Quiet \/ Loud
  PROVE  MergingIsHandled'
<1> USE DEF MergingInv
<1>1. CASE Quiet
  BY <1>1 DEF Quiet, QuietHandlers, QuietJob, Cancelled, MergingIsHandled,
              Handling
<1>2. ASSUME NEW n \in Agents, VerdictMerge(n) PROVE MergingIsHandled'
  BY <1>2 DEF VerdictMerge, rowVars, SetJob, RowInv, TypeOK,
              MergingIsHandled, Handling
<1>3. ASSUME NEW n \in Agents, MergeLands(n) PROVE MergingIsHandled'
  BY <1>3 DEF MergeLands, jobVars, rowVars, RowInv, TypeOK,
              MergingIsHandled, Handling
<1>4. ASSUME NEW n \in Agents, MergeFails(n) PROVE MergingIsHandled'
  <2>1. ajob' = ajob /\ \A m \in Agents \ {n} : verdict'[m] = verdict[m]
    BY <1>4 DEF MergeFails, rowVars, RowInv, TypeOK
  <2>2. PICK to \in {"rework", "review"} : TryTransition(ajob[n], to)
    BY <1>4 DEF MergeFails
  <2>3. \A j \in Jobs : jstate'[j] = "merging" =>
                          jstate[j] = "merging" /\ j # ajob[n]
    BY <2>2 DEF TryTransition, SetJob, AfterTransition, ValidTransition,
                Edges, RowInv, TypeOK
  <2> QED
    BY <2>1, <2>3 DEF MergingIsHandled, Handling
<1>5. ASSUME NEW n \in Agents, Finalize(n) PROVE MergingIsHandled'
  <2>1. ajob' = ajob /\ \A m \in Agents \ {n} : verdict'[m] = verdict[m]
    BY <1>5 DEF Finalize, rowVars, RowInv, TypeOK
  <2>2. \A j \in Jobs : jstate'[j] = "merging" =>
                          jstate[j] = "merging" /\ j # ajob[n]
    BY <1>5 DEF Finalize, TryTransition, SetJob, AfterTransition,
                ValidTransition, Edges, RowInv, TypeOK
  <2> QED
    BY <2>1, <2>2 DEF MergingIsHandled, Handling
<1>6. ASSUME NEW j \in Jobs, UserRequeues(j) PROVE MergingIsHandled'
  BY <1>6 DEF UserRequeues, SetJob, rowVars, callVars, RowInv, TypeOK,
              MergingIsHandled, Handling
<1>7. ASSUME Reboot PROVE MergingIsHandled'
  <2>1. \A j \in Jobs : jstate'[j] # "merging"
    BY <1>7 DEF Reboot, ActiveStates
  <2> QED
    BY <2>1 DEF MergingIsHandled
<1> QED
  BY <1>1, <1>2, <1>3, <1>4, <1>5, <1>6, <1>7 DEF Loud

\* No job is stuck in merging (mergeVerdict): handleDeath, the handshake and
\* resumePendingReviews all skip merging jobs, so that one without a verdict
\* handler would stay there until the office restarts. This holds in every
\* environment, whatever users requeue.
THEOREM MergingHandled == Spec => []MergingIsHandled
<1>1. Init => MergingIsHandled
  BY DEF Init, MergingIsHandled
<1>2. RowInv /\ RowInv' /\ MergingIsHandled /\ [Next]_vars => MergingIsHandled'
  BY MergingStep, QuietStep, StutterIsQuiet DEF MergingInv
<1> QED
  BY RowsCorrect, <1>1, <1>2, PTL DEF Spec
-----------------------------------------------------------------------------
(* Done means landed.                                                      *)

\* Users requeue only jobs that are over; and where they requeue at all they do
\* not cancel: a job that is cancelled and requeued while its merge still runs
\* can be merged a second time and be called done by the first handler.
SafeEnv == /\ "requeueAny" \notin Env
           /\ "requeue" \in Env => {"cancel", "kill"} \cap Env = {}

\* A handler's job is merging, or was cancelled under it.
HandlersHoldJobs ==
  \A n \in Agents : verdict[n] # "idle" => jstate[ajob[n]] \in {"merging", "cancelled"}

\* A handler that merged the branch can vouch for it.
HandlersLanded == \A n \in Agents : verdict[n] = "landed" => landed[ajob[n]]

\* Where jobs are requeued none is cancelled.
NoneCancelled == "requeue" \in Env => \A j \in Jobs : jstate[j] # "cancelled"

HandlerInv == /\ RowInv /\ SafeEnv /\ OneMergeAtATime /\ DoneMeansLanded
              /\ HandlersHoldJobs /\ HandlersLanded /\ NoneCancelled

\* Quiet steps keep all of it.
LEMMA HandlerQuiet ==
  ASSUME HandlerInv, Quiet
  PROVE  /\ OneMergeAtATime' /\ DoneMeansLanded' /\ HandlersHoldJobs'
         /\ HandlersLanded' /\ NoneCancelled'
<1>1. verdict' = verdict
  BY DEF Quiet, QuietHandlers
<1>2. \A n \in Agents : verdict[n] # "idle" => ajob'[n] = ajob[n] /\ ajob[n] \in Jobs
  BY HasRow DEF HandlerInv, Quiet, QuietHandlers, Unborn
<1>3. OneMergeAtATime'
  <2> SUFFICES ASSUME NEW j \in Jobs, NEW m \in Handling(j)', NEW n \in Handling(j)'
               PROVE  m = n
    BY DEF OneMergeAtATime
  <2>1. m \in Handling(j) /\ n \in Handling(j)
    BY <1>1, <1>2 DEF Handling
  <2> QED
    BY <2>1 DEF HandlerInv, OneMergeAtATime
<1>4. HandlersHoldJobs' /\ HandlersLanded'
  <2> SUFFICES ASSUME NEW n \in Agents, verdict'[n] # "idle"
               PROVE  /\ jstate'[ajob'[n]] \in {"merging", "cancelled"}
                      /\ verdict'[n] = "landed" => landed'[ajob'[n]]
    BY DEF HandlersHoldJobs, HandlersLanded
  <2>1. ajob'[n] = ajob[n] /\ ajob[n] \in Jobs /\ QuietJob(ajob[n])
    BY <1>1, <1>2 DEF Quiet
  <2>2. jstate[ajob[n]] \in {"merging", "cancelled"}
    BY <1>1 DEF HandlerInv, HandlersHoldJobs
  <2>3. verdict[n] = "landed" => landed[ajob[n]]
    BY DEF HandlerInv, HandlersLanded
  <2>4. landed'[ajob[n]] = landed[ajob[n]]
    BY <2>1, <2>2 DEF QuietJob, Cancelled
  <2>5. jstate'[ajob[n]] \in {"merging", "cancelled"}
    BY <2>1, <2>2 DEF QuietJob, Cancelled
  <2> QED
    BY <1>1, <2>1, <2>3, <2>4, <2>5
<1>5. DoneMeansLanded'
  BY DEF HandlerInv, DoneMeansLanded, Quiet, QuietJob, Cancelled
<1>6. NoneCancelled'
  BY DEF HandlerInv, SafeEnv, NoneCancelled, Quiet, QuietJob, Cancelled
<1> QED
  BY <1>3, <1>4, <1>5, <1>6

\* So do the six others.
LEMMA HandlerLoud ==
  ASSUME HandlerInv, Loud
  PROVE  /\ OneMergeAtATime' /\ DoneMeansLanded' /\ HandlersHoldJobs'
         /\ HandlersLanded' /\ NoneCancelled'
<1> DEFINE Kept == /\ OneMergeAtATime' /\ DoneMeansLanded'
                   /\ HandlersHoldJobs' /\ HandlersLanded' /\ NoneCancelled'
<1>0. \A n \in Agents : verdict[n] # "idle" => ajob[n] \in Jobs
  BY HasRow DEF HandlerInv, Unborn
<1>1. ASSUME NEW n \in Agents, VerdictMerge(n) PROVE Kept
  <2>1. ajob' = ajob /\ landed' = landed
    BY <1>1 DEF VerdictMerge, rowVars
  <2>2. \A m \in Agents : verdict'[m] = IF m = n THEN "merging" ELSE verdict[m]
    BY <1>1 DEF VerdictMerge, HandlerInv, RowInv, TypeOK
  <2>3. \A j \in Jobs : jstate'[j] = IF j = ajob[n] THEN "merging" ELSE jstate[j]
    BY <1>1 DEF VerdictMerge, SetJob, HandlerInv, RowInv, TypeOK
  <2>4. ajob[n] \in Jobs /\ jstate[ajob[n]] = "review"
    BY <1>1, HasRow DEF VerdictMerge, Acts, HandlerInv, Unborn
  <2>5. \A m \in Agents : verdict[m] # "idle" => ajob[m] # ajob[n]
    BY <2>4 DEF HandlerInv, HandlersHoldJobs
  <2>6. OneMergeAtATime'
    BY <2>1, <2>2, <2>5 DEF HandlerInv, OneMergeAtATime, Handling
  <2>7. HandlersHoldJobs' /\ HandlersLanded'
    BY <1>0, <2>1, <2>2, <2>3, <2>4
    DEF HandlerInv, HandlersHoldJobs, HandlersLanded
  <2>8. DoneMeansLanded' /\ NoneCancelled'
    BY <2>1, <2>3 DEF HandlerInv, DoneMeansLanded, NoneCancelled
  <2> QED
    BY <2>6, <2>7, <2>8
<1>2. ASSUME NEW n \in Agents, MergeLands(n) PROVE Kept
  <2>1. ajob' = ajob /\ jstate' = jstate
    BY <1>2 DEF MergeLands, rowVars, jobVars
  <2>2. \A m \in Agents : verdict'[m] = IF m = n THEN "landed" ELSE verdict[m]
    BY <1>2 DEF MergeLands, HandlerInv, RowInv, TypeOK
  <2>8. verdict[n] # "idle"
    BY <1>2 DEF MergeLands
  <2>3. ajob[n] \in Jobs
    BY <1>0, <1>2 DEF MergeLands
  <2>4. landed'[ajob[n]] /\ \A j \in Jobs : landed[j] => landed'[j]
    BY <1>2, <2>3 DEF MergeLands, HandlerInv, RowInv, TypeOK
  <2>5. HandlersLanded'
    <3> SUFFICES ASSUME NEW m \in Agents, verdict'[m] = "landed"
                 PROVE  landed'[ajob[m]]
      BY <2>1 DEF HandlersLanded
    <3>1. CASE m = n
      BY <2>4, <3>1
    <3>2. CASE m # n
      <4>1. verdict[m] = "landed"
        BY <2>2, <3>2
      <4>2. landed[ajob[m]] /\ ajob[m] \in Jobs
        BY <1>0, <4>1 DEF HandlerInv, HandlersLanded
      <4> QED
        BY <2>4, <4>2
    <3> QED
      BY <3>1, <3>2
  <2>6. DoneMeansLanded' /\ NoneCancelled'
    BY <2>1, <2>4 DEF HandlerInv, DoneMeansLanded, NoneCancelled
  <2>7. OneMergeAtATime'
    BY <2>1, <2>2, <2>8 DEF HandlerInv, OneMergeAtATime, Handling
  <2>9. HandlersHoldJobs'
    BY <2>1, <2>2, <2>8 DEF HandlerInv, HandlersHoldJobs
  <2> QED
    BY <2>5, <2>6, <2>7, <2>9
<1>3. ASSUME NEW n \in Agents, MergeFails(n) PROVE Kept
  <2>1. ajob' = ajob /\ landed' = landed
    BY <1>3 DEF MergeFails, rowVars
  <2>2. \A m \in Agents : verdict'[m] = IF m = n THEN "idle" ELSE verdict[m]
    BY <1>3 DEF MergeFails, HandlerInv, RowInv, TypeOK
  <2>3. \A m \in Agents \ {n} : verdict[m] # "idle" => ajob[m] # ajob[n]
    BY <1>0, <1>3 DEF MergeFails, HandlerInv, OneMergeAtATime, Handling
  <2>4. \A j \in Jobs : \/ jstate'[j] = jstate[j]
                        \/ j = ajob[n] /\ jstate'[j] \in {"rework", "review"}
    <3>1. PICK to \in {"rework", "review"} : TryTransition(ajob[n], to)
      BY <1>3 DEF MergeFails
    <3> QED
      BY <3>1 DEF TryTransition, SetJob, AfterTransition, HandlerInv, RowInv,
                  TypeOK
  <2>5. OneMergeAtATime'
    BY <2>1, <2>2 DEF HandlerInv, OneMergeAtATime, Handling
  <2>6. HandlersHoldJobs' /\ HandlersLanded'
    BY <1>0, <2>1, <2>2, <2>3, <2>4
    DEF HandlerInv, HandlersHoldJobs, HandlersLanded
  <2>7. DoneMeansLanded' /\ NoneCancelled'
    BY <2>1, <2>4 DEF HandlerInv, DoneMeansLanded, NoneCancelled
  <2> QED
    BY <2>5, <2>6, <2>7
<1>4. ASSUME NEW n \in Agents, Finalize(n) PROVE Kept
  <2>1. ajob' = ajob /\ landed' = landed
    BY <1>4 DEF Finalize, rowVars
  <2>2. \A m \in Agents : verdict'[m] = IF m = n THEN "idle" ELSE verdict[m]
    BY <1>4 DEF Finalize, HandlerInv, RowInv, TypeOK
  <2>3. \A m \in Agents \ {n} : verdict[m] # "idle" => ajob[m] # ajob[n]
    BY <1>0, <1>4 DEF Finalize, HandlerInv, OneMergeAtATime, Handling
  <2>4. \A j \in Jobs : \/ jstate'[j] = jstate[j]
                        \/ j = ajob[n] /\ jstate'[j] = "done"
    <3>1. TryTransition(ajob[n], "done")
      BY <1>4 DEF Finalize
    <3> QED
      BY <3>1 DEF TryTransition, SetJob, AfterTransition, HandlerInv, RowInv,
                  TypeOK
  <2>8. landed[ajob[n]]
    BY <1>4 DEF Finalize, HandlerInv, HandlersLanded
  <2>5. OneMergeAtATime'
    BY <2>1, <2>2 DEF HandlerInv, OneMergeAtATime, Handling
  <2>6. HandlersHoldJobs' /\ HandlersLanded'
    BY <1>0, <2>1, <2>2, <2>3, <2>4
    DEF HandlerInv, HandlersHoldJobs, HandlersLanded
  <2>7. DoneMeansLanded' /\ NoneCancelled'
    BY <2>1, <2>4, <2>8 DEF HandlerInv, DoneMeansLanded, NoneCancelled
  <2> QED
    BY <2>5, <2>6, <2>7
<1>5. ASSUME NEW j \in Jobs, UserRequeues(j) PROVE Kept
  <2>1. verdict' = verdict /\ ajob' = ajob
    BY <1>5 DEF UserRequeues, callVars, rowVars
  <2>2. jstate[j] \in {"failed", "cancelled"} /\ "requeue" \in Env
    BY <1>5 DEF UserRequeues, ValidTransition, Edges, Terminal, Event,
                HandlerInv, SafeEnv
  <2>3. jstate[j] = "failed"
    BY <2>2 DEF HandlerInv, NoneCancelled
  <2>4. \A i \in Jobs : IF i = j THEN jstate'[i] = "queued"
                       ELSE jstate'[i] = jstate[i] /\ landed'[i] = landed[i]
    BY <1>5 DEF UserRequeues, SetJob, HandlerInv, RowInv, TypeOK
  <2>5. \A n \in Agents : verdict[n] # "idle" => ajob[n] \in Jobs \ {j}
    BY <1>0, <2>3 DEF HandlerInv, HandlersHoldJobs
  <2>6. OneMergeAtATime' /\ HandlersHoldJobs' /\ HandlersLanded'
    BY <2>1, <2>4, <2>5
    DEF HandlerInv, OneMergeAtATime, Handling, HandlersHoldJobs, HandlersLanded
  <2>7. DoneMeansLanded' /\ NoneCancelled'
    BY <2>4 DEF HandlerInv, DoneMeansLanded, NoneCancelled
  <2> QED
    BY <2>6, <2>7
<1>6. ASSUME Reboot PROVE Kept
  <2>1. \A n \in Agents : verdict'[n] = "idle"
    BY <1>6 DEF Reboot
  <2>2. \A j \in Jobs : \/ jstate'[j] = "queued"
                        \/ jstate'[j] = jstate[j] /\ landed'[j] = landed[j]
    BY <1>6 DEF Reboot, HandlerInv, RowInv, TypeOK
  <2>3. OneMergeAtATime' /\ HandlersHoldJobs' /\ HandlersLanded'
    BY <2>1 DEF OneMergeAtATime, Handling, HandlersHoldJobs, HandlersLanded
  <2>4. DoneMeansLanded' /\ NoneCancelled'
    BY <2>2 DEF HandlerInv, DoneMeansLanded, NoneCancelled
  <2> QED
    BY <2>3, <2>4
<1> QED
  BY <1>1, <1>2, <1>3, <1>4, <1>5, <1>6 DEF Loud

\* The handler invariant holds in every environment that is safe.
LEMMA HandlersCorrect ==
  ASSUME SafeEnv
  PROVE  Spec => []HandlerInv
<1>1. Init /\ RowInv => HandlerInv
  BY SafeEnv
  DEF Init, HandlerInv, OneMergeAtATime, Handling, DoneMeansLanded,
      HandlersHoldJobs, HandlersLanded, NoneCancelled
<1>2. HandlerInv /\ RowInv' /\ [Next]_vars => HandlerInv'
  <2> SUFFICES ASSUME HandlerInv, RowInv', [Next]_vars PROVE HandlerInv'
    OBVIOUS
  <2>1. Quiet \/ Loud
    BY QuietStep, StutterIsQuiet DEF HandlerInv
  <2>2. /\ OneMergeAtATime' /\ DoneMeansLanded' /\ HandlersHoldJobs'
        /\ HandlersLanded' /\ NoneCancelled'
    BY <2>1, HandlerQuiet, HandlerLoud
  <2> QED
    BY <2>2, SafeEnv DEF HandlerInv, SafeEnv
<1> QED
  BY RowsCorrect, <1>1, <1>2, PTL DEF Spec

\* What the job list calls done is in the target branch (finalizeMergingJob):
\* no death, timeout, cancellation or restart makes it say so too early.
THEOREM DoneLanded ==
  ASSUME SafeEnv
  PROVE  Spec => []DoneMeansLanded
<1>1. HandlerInv => DoneMeansLanded
  BY DEF HandlerInv
<1> QED
  BY HandlersCorrect, <1>1, PTL

\* Two verdict handlers never merge the branch of one job (mergeVerdict),
\* however many reviewers it has.
THEOREM OneMerge ==
  ASSUME SafeEnv
  PROVE  Spec => []OneMergeAtATime
<1>1. HandlerInv => OneMergeAtATime
  BY DEF HandlerInv
<1> QED
  BY HandlersCorrect, <1>1, PTL
-----------------------------------------------------------------------------
(***************************************************************************)
(* The agents: what any step may do to the life of one agent, and what     *)
(* follows for rows, assignees, the cap on developers and the retries.     *)
(***************************************************************************)

\* What is not inserted has no role and was never alive; every name that a job
\* or a verdict handler knows is the name of an inserted agent (or empty).
FreshRows ==
  \A n \in Agents : n >= next => role[n] = "none" /\ astate[n] = "unborn"
NamesKnown == /\ \A j \in Jobs : assignee[j] < next
              /\ \A n \in Agents : seen[n] < next

LifeInv == RowInv /\ FreshRows /\ NamesKnown
-----------------------------------------------------------------------------
(* What can happen to an agent in one step.                                *)

Row(n)  == <<role[n], ajob[n], via[n]>>
Idle(n) == UNCHANGED <<astate[n], sess[n], respawn[n], parked[n]>>

\* SessionStart; SessionStartFails.
Started(n) == /\ sess[n] = "starting" /\ sess'[n] = "running"
              /\ UNCHANGED <<astate[n], respawn[n], parked[n]>>
Refused(n) == /\ "startfail" \in Env
              /\ sess[n] = "starting" /\ sess'[n] = "none" /\ astate'[n] = "dead"
              /\ UNCHANGED <<respawn[n], parked[n]>>

\* The agent's own verbs: ready at once, its checks alone, done, wait, and the
\* return from a wait or from those checks.
Readied(n) == /\ MayReady(n) /\ astate'[n] = "working"
              /\ UNCHANGED <<sess[n], respawn[n], parked[n]>>
Greets(n) == /\ "slow" \in Env /\ MayReady(n) /\ parked'[n] = "ready"
             /\ UNCHANGED <<astate[n], sess[n], respawn[n]>>
Finished(n) == /\ Acts(n) /\ role[n] = "reviewer" /\ astate'[n] = "done"
               /\ UNCHANGED <<sess[n], respawn[n], parked[n]>>
Waits(n) == /\ "wait" \in Env /\ Acts(n)
            /\ astate'[n] = "waiting" /\ parked'[n] = "wait"
            /\ UNCHANGED <<sess[n], respawn[n]>>
Returns(n) == /\ parked[n] # "no" /\ parked'[n] = "no" /\ astate'[n] = "working"
              /\ UNCHANGED <<sess[n], respawn[n]>>

\* Its process ends, by itself or reaped; watchExit notices.
Ended(n) == /\ "exit" \in Env \/ astate[n] = "done"
            /\ sess[n] = "running" /\ sess'[n] = "exited"
            /\ UNCHANGED <<astate[n], respawn[n], parked[n]>>
Noticed(n) == /\ sess[n] = "exited" /\ sess'[n] = "none"
              /\ astate'[n] = (IF Living(n) THEN "dead" ELSE astate[n])
              /\ UNCHANGED <<respawn[n], parked[n]>>

\* KillAgent of an agent that has a row, and what else is done to it.
Dies(n) == /\ n < next /\ astate'[n] = "dead"
           /\ sess'[n] = (IF sess[n] = "running" THEN "exited" ELSE sess[n])
           /\ UNCHANGED parked[n]
Killed(n) == Dies(n) /\ UNCHANGED respawn[n]
TooLate(n) == /\ "late" \in Env
              /\ astate[n] = "spawning" /\ sess[n] \in {"running", "exited"}
              /\ Dies(n) /\ respawn'[n] \in {respawn[n], "retry"}
Restarting(n) == /\ "restart" \in Env
                 /\ Living(n) /\ Dies(n) /\ respawn'[n] = "restart"

\* The goroutine that was to replace it has done so, or given up.
Replaced(n) == /\ respawn[n] # "no" /\ respawn'[n] = "no"
               /\ UNCHANGED <<astate[n], sess[n], parked[n]>>

\* The office stops and starts again.
Rebooted(n) == /\ "reboot" \in Env
               /\ astate'[n] = (IF Living(n) THEN "dead" ELSE astate[n])
               /\ sess'[n] = "none" /\ respawn'[n] = "no" /\ parked'[n] = "no"

Life(n) == \/ Idle(n) \/ Started(n) \/ Refused(n) \/ Readied(n) \/ Greets(n)
           \/ Finished(n) \/ Waits(n) \/ Returns(n) \/ Ended(n) \/ Noticed(n) \/ Killed(n)
           \/ TooLate(n) \/ Restarting(n) \/ Replaced(n) \/ Rebooted(n)

\* An agent is inserted by the dispatcher, for a review, or in place of another.
Dispatched(n) == /\ disp # NoJob /\ disp' = NoJob
                 /\ Row(n)' = <<"developer", disp, "dispatch">>
ForReview(n) == /\ reviewing # NoJob /\ reviewing' = NoJob
                /\ Row(n)' = <<"reviewer", reviewing, "review">>
Replaces(n, m) == /\ m # n /\ Replaced(m)
                  /\ role'[n] = role[m] /\ ajob'[n] = ajob[m]
                  /\ via'[n] = IF respawn[m] = "restart" THEN "restart"
                               ELSE IF Forced(m) THEN "forced" ELSE "retry"
Born(n) == /\ n = next /\ next' = next + 1
           /\ astate'[n] = "spawning" /\ sess'[n] = "starting"
           /\ UNCHANGED <<respawn[n], parked[n]>>
           /\ Dispatched(n) \/ ForReview(n) \/ \E m \in Agents : Replaces(n, m)

Lives(n) == UNCHANGED Row(n) /\ Life(n)
\* The others, when one is born.
Besides(n) == UNCHANGED Row(n) /\ (Idle(n) \/ Replaced(n))

LifeStep == \/ UNCHANGED next /\ \A n \in Agents : Lives(n)
            \/ \E n \in Agents : Born(n) /\ \A m \in Agents \ {n} : Besides(m)
-----------------------------------------------------------------------------
\* KillAgent kills those it is asked to and leaves the others alone.
LEMMA KillLife ==
  ASSUME LifeInv, NEW S, Kill(S), UNCHANGED <<respawn, parked>>,
         \A m \in Agents : m \in S => m < next,
         NEW n \in Agents
  PROVE  Killed(n) \/ Idle(n)
BY DEF LifeInv, RowInv, TypeOK, Kill, Killed, Dies, Idle

\* InsertAgent writes the next row and no other.
LEMMA InsertLife ==
  ASSUME LifeInv, NEW r, NEW j, NEW k, NEW v, Insert(r, j, k, v),
         NEW n \in Agents
  PROVE  IF n = next
         THEN Row(n)' = <<r, j, v>> /\ astate'[n] = "spawning" /\ sess'[n] = "starting"
         ELSE UNCHANGED <<Row(n), astate[n], sess[n]>>
BY DEF LifeInv, RowInv, TypeOK, Insert, Row

\* A living agent, one with a session, a respawn or a wait has a row.
LEMMA HasLife ==
  ASSUME LifeInv, NEW n \in Agents, ~Unborn(n)
  PROVE  n < next /\ ajob[n] \in Jobs /\ role[n] \in {"developer", "reviewer"}
BY HasRow DEF LifeInv

\* Every step does to every agent one of the things listed above.
LEMMA LivesStep ==
  ASSUME LifeInv, Next
  PROVE  LifeStep
<1>1. ASSUME NEW j \in Jobs, DispatchPick(j) PROVE LifeStep
  BY <1>1 DEF DispatchPick, LifeStep, Lives, Life, Idle, Row, rowVars
<1>2. ASSUME NEW j \in Jobs, ReviewBegin(j) PROVE LifeStep
  BY <1>2 DEF ReviewBegin, LifeStep, Lives, Life, Idle, Row, rowVars
<1>3. ASSUME DispatchPrepFails PROVE LifeStep
  BY <1>3 DEF DispatchPrepFails, LifeStep, Lives, Life, Idle, Row, rowVars
<1>4. ASSUME DispatchSpawn PROVE LifeStep
  <2>1. PICK n \in Agents : n = next
    BY <1>4 DEF DispatchSpawn, Insert
  <2>2. Insert("developer", disp, 0, "dispatch")
    BY <1>4 DEF DispatchSpawn
  <2>5. Dispatched(n)
    BY <1>4, <2>1, <2>2, InsertLife DEF DispatchSpawn, Dispatched
  <2>3. Born(n)
    BY <1>4, <2>1, <2>2, <2>5, InsertLife DEF DispatchSpawn, Insert, Born
  <2>4. \A m \in Agents \ {n} : Besides(m)
    BY <1>4, <2>1, <2>2, InsertLife DEF DispatchSpawn, Besides, Idle
  <2> QED
    BY <2>3, <2>4 DEF LifeStep
<1>5. ASSUME DispatchHalted PROVE LifeStep
  BY <1>5 DEF DispatchHalted, LifeStep, Lives, Life, Idle, Row, rowVars
<1>6. ASSUME ReviewSpawn PROVE LifeStep
  <2>1. PICK n \in Agents : n = next
    BY <1>6 DEF ReviewSpawn, Insert
  <2>2. Insert("reviewer", reviewing, 0, "review")
    BY <1>6 DEF ReviewSpawn
  <2>5. ForReview(n)
    BY <1>6, <2>1, <2>2, InsertLife DEF ReviewSpawn, ForReview
  <2>3. Born(n)
    BY <1>6, <2>1, <2>2, <2>5, InsertLife DEF ReviewSpawn, Insert, Born
  <2>4. \A m \in Agents \ {n} : Besides(m)
    BY <1>6, <2>1, <2>2, InsertLife DEF ReviewSpawn, Besides, Idle
  <2> QED
    BY <2>3, <2>4 DEF LifeStep
<1>7. ASSUME ReviewHalted PROVE LifeStep
  BY <1>7 DEF ReviewHalted, LifeStep, Lives, Life, Idle, Row, rowVars
<1>8. ASSUME NEW m \in Agents, SessionStart(m) PROVE LifeStep
  <2> SUFFICES ASSUME NEW n \in Agents PROVE Lives(n)
    BY <1>8 DEF SessionStart, LifeStep, rowVars
  <2>1. n = m => Started(n)
    BY <1>8 DEF SessionStart, Started, LifeInv, RowInv, TypeOK
  <2>2. n # m => Idle(n)
    BY <1>8 DEF SessionStart, Idle, LifeInv, RowInv, TypeOK
  <2> QED
    BY <1>8, <2>1, <2>2 DEF SessionStart, Lives, Life, Row, rowVars
<1>9. ASSUME NEW m \in Agents, SessionStartFails(m) PROVE LifeStep
  <2> SUFFICES ASSUME NEW n \in Agents PROVE Lives(n)
    BY <1>9 DEF SessionStartFails, LifeStep, rowVars
  <2>1. n = m => Refused(n)
    BY <1>9 DEF SessionStartFails, Refused, LifeInv, RowInv, TypeOK, Event
  <2>2. n # m => Idle(n)
    BY <1>9 DEF SessionStartFails, Idle, LifeInv, RowInv, TypeOK, Event
  <2> QED
    BY <1>9, <2>1, <2>2 DEF SessionStartFails, Lives, Life, Row, rowVars
<1>10. ASSUME NEW m \in Agents, MergeLands(m) PROVE LifeStep
  BY <1>10 DEF MergeLands, LifeStep, Lives, Life, Idle, Row, rowVars
<1>11. ASSUME NEW m \in Agents, MergeFails(m) PROVE LifeStep
  BY <1>11 DEF MergeFails, LifeStep, Lives, Life, Idle, Row, rowVars
<1>12. ASSUME NEW m \in Agents, Finalize(m) PROVE LifeStep
  <2> SUFFICES ASSUME NEW n \in Agents PROVE Lives(n)
    BY <1>12 DEF Finalize, LifeStep, rowVars
  <2>1. PICK S \in {{seen[m]} \ {0}, {}} : Kill(S)
    BY <1>12 DEF Finalize
  <2>2. Killed(n) \/ Idle(n)
    BY <1>12, <2>1, KillLife DEF Finalize, LifeInv, NamesKnown
  <2> QED
    BY <1>12, <2>2 DEF Finalize, Lives, Life, Row, rowVars
<1>13. ASSUME NEW m \in Agents, Reap(m) PROVE LifeStep
  <2> SUFFICES ASSUME NEW n \in Agents PROVE Lives(n)
    BY <1>13 DEF Reap, LifeStep, rowVars
  <2>1. n = m => Ended(n)
    BY <1>13 DEF Reap, Ended, LifeInv, RowInv, TypeOK
  <2>2. n # m => Idle(n)
    BY <1>13 DEF Reap, Idle, LifeInv, RowInv, TypeOK
  <2> QED
    BY <1>13, <2>1, <2>2 DEF Reap, Lives, Life, Row, rowVars
<1>14. ASSUME NEW m \in Agents, WatchExit(m) PROVE LifeStep
  <2> SUFFICES ASSUME NEW n \in Agents PROVE Lives(n)
    BY <1>14 DEF WatchExit, LifeStep, rowVars
  <2>1. n = m => Noticed(n)
    BY <1>14 DEF WatchExit, Noticed, LifeInv, RowInv, TypeOK
  <2>2. n # m => Idle(n)
    BY <1>14 DEF WatchExit, Idle, LifeInv, RowInv, TypeOK
  <2> QED
    BY <1>14, <2>1, <2>2 DEF WatchExit, Lives, Life, Row, rowVars
<1>15. ASSUME NEW m \in Agents, HandshakeTimeout(m) PROVE LifeStep
  <2> SUFFICES ASSUME NEW n \in Agents PROVE Lives(n)
    BY <1>15 DEF HandshakeTimeout, LifeStep, rowVars
  <2>0. m < next
    BY <1>15, HasLife DEF HandshakeTimeout, Unborn
  <2>1. n = m => TooLate(n)
    BY <1>15, <2>0 DEF HandshakeTimeout, Event, Kill, TooLate, Dies, LifeInv,
                      RowInv, TypeOK
  <2>2. n # m => Idle(n)
    BY <1>15 DEF HandshakeTimeout, Kill, Idle, LifeInv, RowInv, TypeOK
  <2> QED
    BY <1>15, <2>1, <2>2 DEF HandshakeTimeout, Lives, Life, Row, rowVars
<1>16. ASSUME NEW m \in Agents, RetrySpawn(m) PROVE LifeStep
  <2>1. PICK n \in Agents : n = next
    BY <1>16 DEF RetrySpawn, Insert
  <2>2. PICK v : /\ v = IF Forced(m) THEN "forced" ELSE "retry"
                 /\ Insert(role[m], ajob[m], attempt[m] + 1, v)
    BY <1>16 DEF RetrySpawn
  <2>3. m # n
    BY <1>16, <2>1, HasLife DEF RetrySpawn, Unborn, LifeInv, RowInv, TypeOK
  <2>4. \A i \in Agents : IF i = m THEN respawn[i] = "retry" /\ respawn'[i] = "no"
                          ELSE respawn'[i] = respawn[i]
    BY <1>16 DEF RetrySpawn, LifeInv, RowInv, TypeOK
  <2>5. parked' = parked
    BY <1>16 DEF RetrySpawn
  <2>6. \A i \in Agents \ {n} : UNCHANGED <<Row(i), astate[i], sess[i]>>
    BY <2>1, <2>2, InsertLife
  <2>7. Replaces(n, m)
    <3>1. Replaced(m)
      BY <2>3, <2>4, <2>5, <2>6 DEF Replaced
    <3>2. Row(n)' = <<role[m], ajob[m], v>>
      BY <2>1, <2>2, InsertLife
    <3> QED
      BY <2>2, <2>3, <2>4, <3>1, <3>2 DEF Replaces, Row
  <2>8. Born(n)
    BY <2>1, <2>2, <2>3, <2>4, <2>5, <2>7, InsertLife DEF Insert, Born
  <2>9. \A i \in Agents \ {n} : Besides(i)
    BY <2>4, <2>5, <2>6 DEF Besides, Idle, Replaced
  <2> QED
    BY <2>8, <2>9 DEF LifeStep
<1>17. ASSUME NEW m \in Agents, RetryDeferred(m) PROVE LifeStep
  <2> SUFFICES ASSUME NEW n \in Agents PROVE Lives(n)
    BY <1>17 DEF RetryDeferred, LifeStep, rowVars
  <2>1. n = m => Replaced(n)
    BY <1>17 DEF RetryDeferred, Replaced, LifeInv, RowInv, TypeOK
  <2>2. n # m => Idle(n)
    BY <1>17 DEF RetryDeferred, Idle, LifeInv, RowInv, TypeOK
  <2> QED
    BY <1>17, <2>1, <2>2 DEF RetryDeferred, Lives, Life, Row, rowVars
<1>18. ASSUME NEW m \in Agents, RestartSpawn(m) PROVE LifeStep
  <2>4. \A i \in Agents : IF i = m THEN respawn[i] = "restart" /\ respawn'[i] = "no"
                          ELSE respawn'[i] = respawn[i]
    BY <1>18 DEF RestartSpawn, LifeInv, RowInv, TypeOK
  <2>5. parked' = parked
    BY <1>18 DEF RestartSpawn
  <2>a. CASE jstate[ajob[m]] \in Terminal
    <3>1. UNCHANGED <<rowVars, astate, sess>>
      BY <1>18, <2>a DEF RestartSpawn
    <3>2. \A n \in Agents : Replaced(n) \/ Idle(n)
      BY <2>4, <2>5, <3>1 DEF Replaced, Idle
    <3> QED
      BY <3>1, <3>2 DEF LifeStep, Lives, Life, Row, rowVars
  <2>b. CASE jstate[ajob[m]] \notin Terminal
    <3>2. Insert(role[m], ajob[m], 0, "restart")
      BY <1>18, <2>b DEF RestartSpawn
    <3>1. PICK n \in Agents : n = next
      BY <3>2 DEF Insert
    <3>3. m # n
      BY <1>18, <3>1, HasLife DEF RestartSpawn, Unborn, LifeInv, RowInv, TypeOK
    <3>6. \A i \in Agents \ {n} : UNCHANGED <<Row(i), astate[i], sess[i]>>
      BY <3>1, <3>2, InsertLife
    <3>7. Replaces(n, m)
      <4>1. Replaced(m)
        BY <2>4, <2>5, <3>3, <3>6 DEF Replaced
      <4>2. Row(n)' = <<role[m], ajob[m], "restart">>
        BY <3>1, <3>2, InsertLife
      <4> QED
        BY <2>4, <3>3, <4>1, <4>2 DEF Replaces, Row
    <3>8. Born(n)
      BY <2>4, <2>5, <3>1, <3>2, <3>3, <3>7, InsertLife DEF Insert, Born
    <3>9. \A i \in Agents \ {n} : Besides(i)
      BY <2>4, <2>5, <3>6 DEF Besides, Idle, Replaced
    <3> QED
      BY <3>8, <3>9 DEF LifeStep
  <2> QED
    BY <2>a, <2>b
<1>19. ASSUME NEW m \in Agents, WaitReturns(m) PROVE LifeStep
  <2> SUFFICES ASSUME NEW n \in Agents PROVE Lives(n)
    BY <1>19 DEF WaitReturns, LifeStep, rowVars
  <2>1. n = m => Returns(n)
    BY <1>19 DEF WaitReturns, Returns, LifeInv, RowInv, TypeOK
  <2>2. n # m => Idle(n)
    BY <1>19 DEF WaitReturns, Idle, LifeInv, RowInv, TypeOK
  <2> QED
    BY <1>19, <2>1, <2>2 DEF WaitReturns, Lives, Life, Row, rowVars
<1>20. ASSUME NEW m \in Agents, Ready(m) PROVE LifeStep
  <2> SUFFICES ASSUME NEW n \in Agents PROVE Lives(n)
    BY <1>20 DEF Ready, Greeted, LifeStep, rowVars
  <2>1. n = m => Readied(n)
    BY <1>20 DEF Ready, Greeted, Readied, LifeInv, RowInv, TypeOK
  <2>2. n # m => Idle(n)
    BY <1>20 DEF Ready, Greeted, Idle, LifeInv, RowInv, TypeOK
  <2> QED
    BY <1>20, <2>1, <2>2 DEF Ready, Greeted, Lives, Life, Row, rowVars
<1>21. ASSUME NEW m \in Agents, DeveloperDone(m) PROVE LifeStep
  <2> SUFFICES ASSUME NEW n \in Agents PROVE Lives(n)
    BY <1>21 DEF DeveloperDone, LifeStep, rowVars
  <2>1. \A i \in Agents : i \in Superseded(ajob[m]) => i < next
    BY HasLife DEF Superseded, ReviewerForJob, LivingByJobRole, OfJob, Unborn
  <2>2. Killed(n) \/ Idle(n)
    BY <1>21, <2>1, KillLife DEF DeveloperDone
  <2> QED
    BY <1>21, <2>2 DEF DeveloperDone, Lives, Life, Row, rowVars
<1>22. ASSUME NEW m \in Agents, VerdictMerge(m) PROVE LifeStep
  BY <1>22 DEF VerdictMerge, LifeStep, Lives, Life, Idle, Row, rowVars
<1>23. ASSUME NEW m \in Agents, VerdictReject(m) PROVE LifeStep
  BY <1>23 DEF VerdictReject, LifeStep, Lives, Life, Idle, Row, rowVars
<1>24. ASSUME NEW m \in Agents, ReviewerDone(m) PROVE LifeStep
  <2> SUFFICES ASSUME NEW n \in Agents PROVE Lives(n)
    BY <1>24 DEF ReviewerDone, LifeStep, rowVars
  <2>1. n = m => Finished(n)
    BY <1>24 DEF ReviewerDone, Finished, LifeInv, RowInv, TypeOK
  <2>2. n # m => Idle(n)
    BY <1>24 DEF ReviewerDone, Idle, LifeInv, RowInv, TypeOK
  <2> QED
    BY <1>24, <2>1, <2>2 DEF ReviewerDone, Lives, Life, Row, rowVars
<1>25. ASSUME NEW m \in Agents, Wait(m) PROVE LifeStep
  <2> SUFFICES ASSUME NEW n \in Agents PROVE Lives(n)
    BY <1>25 DEF Wait, LifeStep, rowVars
  <2>1. n = m => Waits(n)
    BY <1>25 DEF Wait, Waits, LifeInv, RowInv, TypeOK
  <2>2. n # m => Idle(n)
    BY <1>25 DEF Wait, Idle, LifeInv, RowInv, TypeOK
  <2> QED
    BY <1>25, <2>1, <2>2 DEF Wait, Lives, Life, Row, rowVars
<1>26. ASSUME NEW m \in Agents, ProcessExit(m) PROVE LifeStep
  <2> SUFFICES ASSUME NEW n \in Agents PROVE Lives(n)
    BY <1>26 DEF ProcessExit, LifeStep, rowVars
  <2>1. n = m => Ended(n)
    BY <1>26 DEF ProcessExit, Ended, LifeInv, RowInv, TypeOK, Event
  <2>2. n # m => Idle(n)
    BY <1>26 DEF ProcessExit, Idle, LifeInv, RowInv, TypeOK, Event
  <2> QED
    BY <1>26, <2>1, <2>2 DEF ProcessExit, Lives, Life, Row, rowVars
<1>27. ASSUME NEW j \in Jobs, UserCancels(j) PROVE LifeStep
  <2> SUFFICES ASSUME NEW n \in Agents PROVE Lives(n)
    BY <1>27 DEF UserCancels, CancelJob, LifeStep, rowVars
  <2>1. \A i \in Agents : i \in LivingByJob(j) => i < next
    BY HasLife DEF LivingByJob, Unborn
  <2>2. Killed(n) \/ Idle(n)
    BY <1>27, <2>1, KillLife DEF UserCancels, CancelJob
  <2> QED
    BY <1>27, <2>2 DEF UserCancels, CancelJob, Lives, Life, Row, rowVars
<1>28. ASSUME NEW j \in Jobs, UserRequeues(j) PROVE LifeStep
  BY <1>28 DEF UserRequeues, LifeStep, Lives, Life, Idle, Row, rowVars
<1>29. ASSUME NEW j \in Jobs, OverrideReview(j) PROVE LifeStep
  BY <1>29 DEF OverrideReview, LifeStep, Lives, Life, Idle, Row, rowVars
<1>30. ASSUME NEW m \in Agents, UserKills(m) PROVE LifeStep
  <2> SUFFICES ASSUME NEW n \in Agents PROVE Lives(n)
    BY <1>30 DEF UserKills, CancelJob, LifeStep, rowVars
  <2>0. PICK S \in {LivingByJob(ajob[m]), {m}} : Kill(S)
    BY <1>30 DEF UserKills, CancelJob
  <2>1. \A i \in Agents : i \in S => i < next
    BY <1>30, <2>0, HasLife DEF UserKills, LivingByJob, Unborn
  <2>3. UNCHANGED <<rowVars, respawn, parked>>
    BY <1>30 DEF UserKills, CancelJob
  <2>2. Killed(n) \/ Idle(n)
    BY <2>0, <2>1, <2>3, KillLife
  <2> QED
    BY <2>2, <2>3 DEF Lives, Life, Row, rowVars
<1>31. ASSUME NEW m \in Agents, UserRestarts(m) PROVE LifeStep
  <2> SUFFICES ASSUME NEW n \in Agents PROVE Lives(n)
    BY <1>31 DEF UserRestarts, LifeStep, rowVars
  <2>0. m < next
    BY <1>31, HasLife DEF UserRestarts, Unborn
  <2>1. n = m => Restarting(n)
    BY <1>31, <2>0 DEF UserRestarts, Event, Kill, Restarting, Dies, LifeInv,
                      RowInv, TypeOK
  <2>2. n # m => Idle(n)
    BY <1>31 DEF UserRestarts, Kill, Idle, LifeInv, RowInv, TypeOK
  <2> QED
    BY <1>31, <2>1, <2>2 DEF UserRestarts, Lives, Life, Row, rowVars
<1>32. ASSUME Halt PROVE LifeStep
  BY <1>32 DEF Halt, LifeStep, Lives, Life, Idle, Row, rowVars
<1>33. ASSUME Resume PROVE LifeStep
  BY <1>33 DEF Resume, LifeStep, Lives, Life, Idle, Row, rowVars
<1>34. ASSUME Reboot PROVE LifeStep
  <2> SUFFICES ASSUME NEW n \in Agents PROVE Lives(n)
    BY <1>34 DEF Reboot, LifeStep, rowVars
  <2>1. Rebooted(n)
    BY <1>34 DEF Reboot, Event, Rebooted
  <2> QED
    BY <1>34, <2>1 DEF Reboot, Lives, Life, Row, rowVars
<1>35. ASSUME NEW m \in Agents, ReadyLooks(m) PROVE LifeStep
  <2> SUFFICES ASSUME NEW n \in Agents PROVE Lives(n)
    BY <1>35 DEF ReadyLooks, LifeStep, rowVars
  <2>1. n = m => Greets(n)
    BY <1>35 DEF ReadyLooks, Greets, LifeInv, RowInv, TypeOK
  <2>2. n # m => Idle(n)
    BY <1>35 DEF ReadyLooks, Idle, LifeInv, RowInv, TypeOK
  <2> QED
    BY <1>35, <2>1, <2>2 DEF ReadyLooks, Lives, Life, Row, rowVars
<1>36. ASSUME NEW m \in Agents, ReadyWrites(m) PROVE LifeStep
  <2> SUFFICES ASSUME NEW n \in Agents PROVE Lives(n)
    BY <1>36 DEF ReadyWrites, Greeted, LifeStep, rowVars
  <2>1. n = m => Returns(n)
    BY <1>36 DEF ReadyWrites, Greeted, Returns, LifeInv, RowInv, TypeOK
  <2>2. n # m => Idle(n)
    BY <1>36 DEF ReadyWrites, Greeted, Idle, LifeInv, RowInv, TypeOK
  <2> QED
    BY <1>36, <2>1, <2>2 DEF ReadyWrites, Greeted, Lives, Life, Row, rowVars
<1> QED
  BY <1>1, <1>2, <1>3, <1>4, <1>5, <1>6, <1>7, <1>8, <1>9, <1>10, <1>11,
     <1>12, <1>13, <1>14, <1>15, <1>16, <1>17, <1>18, <1>19, <1>20, <1>21,
     <1>22, <1>23, <1>24, <1>25, <1>26, <1>27, <1>28, <1>29, <1>30, <1>31,
     <1>32, <1>33, <1>34, <1>35, <1>36
  DEF Next, OfficeStep, AgentStep, UserStep
-----------------------------------------------------------------------------
(* Which names jobs and handlers know.                                     *)

\* A job's assignee is recorded when a session starts, and forgotten when the
\* job returns to the queue; a verdict handler reads it once.
Recorded(n, j) == /\ Started(n) /\ via[n] \in Recorders
                  /\ ajob[n] = j /\ assignee'[j] = n
AssigneeMove(j) == \/ assignee'[j] = assignee[j]
                   \/ assignee'[j] = 0 /\ jstate'[j] = "queued"
                   \/ \E n \in Agents : Recorded(n, j)
SeenMove(n) == \/ seen'[n] = seen[n] /\ (verdict'[n] # "idle" => verdict[n] # "idle")
               \/ seen'[n] = 0 /\ verdict'[n] = "idle"
               \/ VerdictMerge(n)
NamesMove == /\ \A j \in Jobs : AssigneeMove(j)
             /\ \A n \in Agents : /\ SeenMove(n)
                                  /\ Started(n) => SessionStart(n)

\* No step names an agent in any other way.
LEMMA NamesStep ==
  ASSUME LifeInv, Next
  PROVE  NamesMove
<1>1. ASSUME NEW j \in Jobs, DispatchPick(j) PROVE NamesMove
  BY <1>1 DEF DispatchPick, NamesMove, AssigneeMove, SeenMove, Started, jobVars,
         callVars
<1>2. ASSUME NEW j \in Jobs, ReviewBegin(j) PROVE NamesMove
  BY <1>2 DEF ReviewBegin, NamesMove, AssigneeMove, SeenMove, Started, jobVars,
         callVars
<1>3. ASSUME DispatchPrepFails PROVE NamesMove
  BY <1>3 DEF DispatchPrepFails, NamesMove, AssigneeMove, SeenMove, Started, jobVars,
         callVars
<1>4. ASSUME DispatchSpawn PROVE NamesMove
  BY <1>4 DEF DispatchSpawn, NamesMove, AssigneeMove, SeenMove, Started, jobVars,
         callVars,
         Insert, LifeInv, RowInv, TypeOK
<1>5. ASSUME DispatchHalted PROVE NamesMove
  BY <1>5 DEF DispatchHalted, NamesMove, AssigneeMove, SeenMove, Started, jobVars,
         callVars
<1>6. ASSUME ReviewSpawn PROVE NamesMove
  BY <1>6 DEF ReviewSpawn, NamesMove, AssigneeMove, SeenMove, Started, jobVars,
         callVars,
         Insert, LifeInv, RowInv, TypeOK
<1>7. ASSUME ReviewHalted PROVE NamesMove
  BY <1>7 DEF ReviewHalted, NamesMove, AssigneeMove, SeenMove, Started, jobVars,
         callVars
<1>8. ASSUME NEW m \in Agents, SessionStart(m) PROVE NamesMove
  <2>1. \A j \in Jobs : AssigneeMove(j)
    BY <1>8 DEF SessionStart, AssigneeMove, Started, Recorded, LifeInv, RowInv, TypeOK
  <2>2. \A n \in Agents : SeenMove(n) /\ (Started(n) => SessionStart(n))
    BY <1>8 DEF SessionStart, SeenMove, Started, callVars, LifeInv, RowInv, TypeOK
  <2> QED
    BY <2>1, <2>2 DEF NamesMove
<1>9. ASSUME NEW m \in Agents, SessionStartFails(m) PROVE NamesMove
  BY <1>9 DEF SessionStartFails, NamesMove, AssigneeMove, SeenMove, Started, jobVars,
         callVars
<1>10. ASSUME NEW m \in Agents, MergeLands(m) PROVE NamesMove
  BY <1>10 DEF MergeLands, NamesMove, AssigneeMove, SeenMove, Started, jobVars,
         callVars
<1>11. ASSUME NEW m \in Agents, MergeFails(m) PROVE NamesMove
  BY <1>11 DEF MergeFails, NamesMove, AssigneeMove, SeenMove, Started, jobVars,
         callVars, LifeInv, RowInv, TypeOK
<1>12. ASSUME NEW m \in Agents, Finalize(m) PROVE NamesMove
  BY <1>12 DEF Finalize, NamesMove, AssigneeMove, SeenMove, Started, jobVars,
         callVars,
         Kill, LifeInv, RowInv, TypeOK
<1>13. ASSUME NEW m \in Agents, Reap(m) PROVE NamesMove
  BY <1>13 DEF Reap, NamesMove, AssigneeMove, SeenMove, Started, jobVars, callVars
<1>14. ASSUME NEW m \in Agents, WatchExit(m) PROVE NamesMove
  BY <1>14 DEF WatchExit, NamesMove, AssigneeMove, SeenMove, Started, jobVars,
         callVars,
         JobAfterDeath, SetJob, LifeInv, RowInv, TypeOK
<1>15. ASSUME NEW m \in Agents, HandshakeTimeout(m) PROVE NamesMove
  BY <1>15 DEF HandshakeTimeout, NamesMove, AssigneeMove, SeenMove, Started, jobVars,
         callVars,
         Kill, LifeInv, RowInv, TypeOK
<1>16. ASSUME NEW m \in Agents, RetrySpawn(m) PROVE NamesMove
  BY <1>16 DEF RetrySpawn, NamesMove, AssigneeMove, SeenMove, Started, jobVars,
         callVars,
         Insert, LifeInv, RowInv, TypeOK
<1>17. ASSUME NEW m \in Agents, RetryDeferred(m) PROVE NamesMove
  BY <1>17 DEF RetryDeferred, NamesMove, AssigneeMove, SeenMove, Started, jobVars,
         callVars,
         SetJob, LifeInv, RowInv, TypeOK
<1>18. ASSUME NEW m \in Agents, RestartSpawn(m) PROVE NamesMove
  BY <1>18 DEF RestartSpawn, NamesMove, AssigneeMove, SeenMove, Started, jobVars,
         callVars,
         Insert, LifeInv, RowInv, TypeOK
<1>19. ASSUME NEW m \in Agents, WaitReturns(m) PROVE NamesMove
  BY <1>19 DEF WaitReturns, NamesMove, AssigneeMove, SeenMove, Started, jobVars,
         callVars
<1>20. ASSUME NEW m \in Agents, Ready(m) PROVE NamesMove
  BY <1>20 DEF Ready, Greeted, NamesMove, AssigneeMove, SeenMove, Started, jobVars, callVars
<1>21. ASSUME NEW m \in Agents, DeveloperDone(m) PROVE NamesMove
  BY <1>21 DEF DeveloperDone, NamesMove, AssigneeMove, SeenMove, Started, jobVars,
         callVars,
         Kill, LifeInv, RowInv, TypeOK
<1>22. ASSUME NEW m \in Agents, VerdictMerge(m) PROVE NamesMove
  <2>1. \A j \in Jobs : AssigneeMove(j)
    BY <1>22 DEF VerdictMerge, AssigneeMove
  <2>2. \A n \in Agents : SeenMove(n)
    <3>1. /\ seen \in [Agents -> Agents \cup {0}]
          /\ DOMAIN verdict = Agents
      BY DEF LifeInv, RowInv, TypeOK
    <3>2. \A n \in Agents \ {m} : seen'[n] = seen[n] /\ verdict'[n] = verdict[n]
      BY <1>22, <3>1 DEF VerdictMerge
    <3> QED  BY <1>22, <3>2 DEF SeenMove
  <2>3. \A n \in Agents : ~Started(n)
    BY <1>22 DEF VerdictMerge, Started
  <2> QED  BY <2>1, <2>2, <2>3 DEF NamesMove
<1>23. ASSUME NEW m \in Agents, VerdictReject(m) PROVE NamesMove
  BY <1>23 DEF VerdictReject, NamesMove, AssigneeMove, SeenMove, Started, jobVars,
         callVars
<1>24. ASSUME NEW m \in Agents, ReviewerDone(m) PROVE NamesMove
  BY <1>24 DEF ReviewerDone, NamesMove, AssigneeMove, SeenMove, Started, jobVars,
         callVars
<1>25. ASSUME NEW m \in Agents, Wait(m) PROVE NamesMove
  BY <1>25 DEF Wait, NamesMove, AssigneeMove, SeenMove, Started, jobVars, callVars
<1>26. ASSUME NEW m \in Agents, ProcessExit(m) PROVE NamesMove
  BY <1>26 DEF ProcessExit, NamesMove, AssigneeMove, SeenMove, Started, jobVars,
         callVars
<1>27. ASSUME NEW j \in Jobs, UserCancels(j) PROVE NamesMove
  BY <1>27 DEF UserCancels, NamesMove, AssigneeMove, SeenMove, Started, jobVars,
         callVars,
         CancelJob, Kill, LifeInv, RowInv, TypeOK
<1>28. ASSUME NEW j \in Jobs, UserRequeues(j) PROVE NamesMove
  BY <1>28 DEF UserRequeues, NamesMove, AssigneeMove, SeenMove, Started, jobVars,
         callVars
<1>29. ASSUME NEW j \in Jobs, OverrideReview(j) PROVE NamesMove
  BY <1>29 DEF OverrideReview, NamesMove, AssigneeMove, SeenMove, Started, jobVars,
         callVars
<1>30. ASSUME NEW m \in Agents, UserKills(m) PROVE NamesMove
  BY <1>30 DEF UserKills, NamesMove, AssigneeMove, SeenMove, Started, jobVars,
         callVars,
         CancelJob, Kill, LifeInv, RowInv, TypeOK
<1>31. ASSUME NEW m \in Agents, UserRestarts(m) PROVE NamesMove
  BY <1>31 DEF UserRestarts, NamesMove, AssigneeMove, SeenMove, Started, jobVars,
         callVars,
         Kill, LifeInv, RowInv, TypeOK
<1>32. ASSUME Halt PROVE NamesMove
  BY <1>32 DEF Halt, NamesMove, AssigneeMove, SeenMove, Started, jobVars, callVars
<1>33. ASSUME Resume PROVE NamesMove
  BY <1>33 DEF Resume, NamesMove, AssigneeMove, SeenMove, Started, jobVars, callVars
<1>34. ASSUME Reboot PROVE NamesMove
  BY <1>34 DEF Reboot, NamesMove, AssigneeMove, SeenMove, Started, jobVars, callVars,
         LifeInv, RowInv, TypeOK
<1>35. ASSUME NEW m \in Agents, ReadyLooks(m) PROVE NamesMove
  BY <1>35 DEF ReadyLooks, NamesMove, AssigneeMove, SeenMove, Started, jobVars,
         callVars
<1>36. ASSUME NEW m \in Agents, ReadyWrites(m) PROVE NamesMove
  BY <1>36 DEF ReadyWrites, Greeted, NamesMove, AssigneeMove, SeenMove, Started, jobVars, callVars
<1> QED
  BY <1>1, <1>2, <1>3, <1>4, <1>5, <1>6, <1>7, <1>8, <1>9, <1>10, <1>11,
     <1>12, <1>13, <1>14, <1>15, <1>16, <1>17, <1>18, <1>19, <1>20, <1>21,
     <1>22, <1>23, <1>24, <1>25, <1>26, <1>27, <1>28, <1>29, <1>30, <1>31,
     <1>32, <1>33, <1>34, <1>35, <1>36
  DEF Next, OfficeStep, AgentStep, UserStep

\* The step lemmas of this module hold of stuttering steps too.
LEMMA StutterLives ==
  ASSUME UNCHANGED vars
  PROVE  LifeStep /\ NamesMove
BY DEF vars, jobVars, rowVars, callVars, LifeStep, Lives, Life, Idle, Row,
       NamesMove, AssigneeMove, SeenMove, Started

\* The invariant of this section holds in every behaviour.
LEMMA LifeCorrect == Spec => []LifeInv
<1>1. Init /\ RowInv => LifeInv
  BY DEF Init, LifeInv, FreshRows, NamesKnown
<1>2. LifeInv /\ RowInv' /\ [Next]_vars => LifeInv'
  <2> SUFFICES ASSUME LifeInv, RowInv', [Next]_vars PROVE LifeInv'
    OBVIOUS
  <2>1. LifeStep /\ NamesMove
    BY LivesStep, NamesStep, StutterLives
  <2>2. next \in Nat /\ next' \in {next, next + 1}
    BY <2>1 DEF LifeStep, Lives, Born, LifeInv, RowInv, TypeOK
  <2>3. FreshRows'
    <3> SUFFICES ASSUME NEW n \in Agents, n >= next'
                 PROVE  role'[n] = "none" /\ astate'[n] = "unborn"
      BY DEF FreshRows
    <3>1. n >= next /\ n \in Nat /\ role[n] = "none" /\ astate[n] = "unborn" /\ Unborn(n)
      BY <2>2 DEF LifeInv, FreshRows, RowInv, RowsInOrder, Agents
    <3>2. CASE Lives(n)
      BY <3>1, <3>2, <2>2
      DEF Lives, Row, Life, Idle, Started, Refused, Readied, MayReady, Greets, Finished,
          Acts, Waits, Returns, Ended, Noticed, Killed, TooLate, Restarting,
          Dies, Replaced, Rebooted, Unborn, Living, LivingStates
    <3>3. CASE Besides(n)
      BY <3>1, <3>3 DEF Besides, Row, Idle, Replaced
    <3>4. CASE Born(n)
      BY <3>1, <3>4, <2>2 DEF Born
    <3> QED
      BY <2>1, <3>2, <3>3, <3>4 DEF LifeStep
  <2>4. NamesKnown'
    <3>1. ASSUME NEW j \in Jobs PROVE assignee'[j] < next'
      <4>0. assignee[j] < next /\ assignee[j] \in Nat
        BY DEF LifeInv, NamesKnown, RowInv, TypeOK, Agents
      <4>1. CASE assignee'[j] \in {assignee[j], 0}
        BY <2>2, <4>0, <4>1 DEF LifeInv, RowInv, TypeOK
      <4>2. ASSUME NEW n \in Agents, Recorded(n, j) PROVE assignee'[j] < next'
        BY <2>2, <4>2, HasLife DEF Recorded, Started, Unborn, Agents
      <4> QED
        BY <2>1, <4>1, <4>2 DEF NamesMove, AssigneeMove
    <3>2. ASSUME NEW n \in Agents PROVE seen'[n] < next'
      <4>0. seen[n] < next /\ seen[n] \in Agents \cup {0}
        BY DEF LifeInv, NamesKnown, RowInv, TypeOK
      <4>1. CASE seen'[n] \in {seen[n], 0}
        BY <2>2, <4>0, <4>1 DEF LifeInv, RowInv, TypeOK, Agents
      <4>2. CASE VerdictMerge(n)
        <5>1. ajob[n] \in Jobs
          BY <4>2, HasLife DEF VerdictMerge, Acts, Unborn
        <5>2. seen'[n] = assignee[ajob[n]]
          BY <4>2 DEF VerdictMerge, LifeInv, RowInv, TypeOK
        <5>3. assignee[ajob[n]] < next /\ assignee[ajob[n]] \in Nat
          BY <5>1 DEF LifeInv, NamesKnown, RowInv, TypeOK, Agents
        <5> QED
          BY <2>2, <5>2, <5>3
      <4> QED
        BY <2>1, <4>1, <4>2 DEF NamesMove, SeenMove
    <3> QED
      BY <3>1, <3>2 DEF NamesKnown
  <2> QED
    BY <2>3, <2>4 DEF LifeInv
<1> QED
  BY RowsCorrect, <1>1, <1>2, PTL DEF Spec
-----------------------------------------------------------------------------
(* Living rows are watched.                                                *)

\* Where agents do not wait and ready is not held up, none is parked.
NobodyParked == \A n \in Agents : parked[n] = "no"
WatchInv == LifeInv /\ NobodyParked /\ LivingIsWatched

\* Then no agent lives without a session.
LEMMA LifeWithoutWaits ==
  ASSUME LifeInv, NobodyParked, LifeStep, {"wait", "slow"} \cap Env = {},
         NEW n \in Agents
  PROVE  /\ parked'[n] = "no"
         /\ (Living(n) => sess[n] # "none") => (Living(n)' => sess'[n] # "none")
<1>1. parked[n] = "no" /\ sess[n] \in {"none", "starting", "running", "exited"}
  BY DEF NobodyParked, LifeInv, RowInv, TypeOK
<1>2. CASE Lives(n)
  BY <1>1, <1>2
  DEF Lives, Life, Idle, Started, Refused, Readied, MayReady, Greets, Finished,
      Acts, Waits, Returns, Ended, Noticed, Killed, TooLate, Restarting,
      Dies, Replaced, Rebooted, Living, LivingStates
<1>3. CASE Besides(n)
  BY <1>1, <1>3 DEF Besides, Idle, Replaced, Living
<1>4. CASE Born(n)
  <2>1. astate[n] = "unborn"
    BY <1>4 DEF Born, LifeInv, FreshRows, RowInv, TypeOK
  <2> QED
    BY <1>1, <1>4, <2>1 DEF Born
<1> QED
  BY <1>2, <1>3, <1>4 DEF LifeStep

\* The invariant behind the theorem.
LEMMA WatchCorrect ==
  ASSUME {"wait", "slow"} \cap Env = {}
  PROVE  Spec => []WatchInv
<1>1. Init /\ LifeInv => WatchInv
  BY DEF Init, WatchInv, NobodyParked, LivingIsWatched, Living, LivingStates
<1>2. WatchInv /\ LifeInv' /\ [Next]_vars => WatchInv'
  <2> SUFFICES ASSUME WatchInv, LifeInv', [Next]_vars PROVE WatchInv'
    OBVIOUS
  <2>1. LifeStep
    BY LivesStep, StutterLives DEF WatchInv
  <2>2. \A n \in Agents : parked'[n] = "no" /\ (Living(n)' => sess'[n] # "none")
    BY <2>1, LifeWithoutWaits DEF WatchInv, LivingIsWatched
  <2> QED
    BY <2>2 DEF WatchInv, NobodyParked, LivingIsWatched
<1> QED
  BY LifeCorrect, <1>1, <1>2, PTL DEF Spec

\* A living row has a session that watchExit watches, so that it never counts
\* against the limits or as its job's reviewer for ever. Where agents wait or
\* are slow to be ready this fails: the handler writes `working` into the row of
\* a dead agent.
THEOREM LivingWatched ==
  ASSUME {"wait", "slow"} \cap Env = {}
  PROVE  Spec => []LivingIsWatched
<1>1. WatchInv => LivingIsWatched
  BY DEF WatchInv
<1> QED
  BY WatchCorrect, <1>1, PTL

-----------------------------------------------------------------------------
(* The assignee of a job is a developer of it.                             *)

\* Only the dispatcher inserts agents that will be recorded as assignees, where
\* users do not restart agents; handlers read what was recorded.
NeverRestarted == \A n \in Agents : /\ respawn[n] # "restart"
                                    /\ via[n] \notin {"restart", "forced"}
DispatchedDevelop == \A n \in Agents : via[n] = "dispatch" => role[n] = "developer"
SeenIsDeveloper ==
  \A n \in Agents : verdict[n] # "idle" /\ seen[n] # 0 =>
                      seen[n] \in OfJob(ajob[n], "developer")

AssigneeInv == /\ LifeInv /\ NeverRestarted /\ DispatchedDevelop
               /\ AssigneeIsDeveloper /\ SeenIsDeveloper

\* An inserted agent keeps its row.
LEMMA RowsStay ==
  ASSUME LifeInv, LifeStep, NEW n \in Agents, n < next
  PROVE  UNCHANGED Row(n)
BY DEF LifeStep, Lives, Besides, Born, LifeInv, RowInv, TypeOK

\* Where nobody restarts agents, no agent is inserted for a restart.
LEMMA CallersStep ==
  ASSUME LifeInv, LifeStep, NeverRestarted, DispatchedDevelop, "restart" \notin Env
  PROVE  NeverRestarted' /\ DispatchedDevelop'
<1> SUFFICES ASSUME NEW n \in Agents
             PROVE  /\ respawn'[n] # "restart" /\ via'[n] \notin {"restart", "forced"}
                    /\ via'[n] = "dispatch" => role'[n] = "developer"
  BY DEF NeverRestarted, DispatchedDevelop
<1>1. /\ respawn[n] # "restart" /\ via[n] \notin {"restart", "forced"}
      /\ via[n] = "dispatch" => role[n] = "developer"
  BY DEF NeverRestarted, DispatchedDevelop
<1>2. CASE Lives(n)
  BY <1>1, <1>2
  DEF Lives, Row, Life, Idle, Started, Refused, Readied, Greets, Finished, Waits,
      Returns, Ended, Noticed, Killed, TooLate, Restarting, Replaced, Rebooted
<1>3. CASE Besides(n)
  BY <1>1, <1>3 DEF Besides, Row, Idle, Replaced
<1>4. CASE Born(n)
  <2>1. CASE Dispatched(n) \/ ForReview(n)
    BY <1>1, <1>4, <2>1 DEF Born, Dispatched, ForReview, Row
  <2>2. ASSUME NEW m \in Agents, Replaces(n, m) PROVE via'[n] = "retry"
    BY <2>2 DEF Replaces, Forced, NeverRestarted
  <2> QED
    BY <1>1, <1>4, <2>1, <2>2 DEF Born
<1> QED
  BY <1>2, <1>3, <1>4 DEF LifeStep

\* Nor is anybody but a developer of the job recorded as its assignee.
LEMMA AssigneeStep ==
  ASSUME AssigneeInv, LifeStep, NamesMove
  PROVE  AssigneeIsDeveloper' /\ SeenIsDeveloper'
<1>1. \A n \in Agents, j \in Jobs :
        n \in OfJob(j, "developer") => n \in OfJob(j, "developer")'
  <2> SUFFICES ASSUME NEW n \in Agents, NEW j \in Jobs, n \in OfJob(j, "developer")
               PROVE  n \in OfJob(j, "developer")'
    OBVIOUS
  <2>1. n < next
    BY DEF OfJob, AssigneeInv, LifeInv, FreshRows, RowInv, TypeOK, Agents
  <2> QED
    BY <2>1, RowsStay DEF AssigneeInv, Row, OfJob
<1>2. AssigneeIsDeveloper'
  <2> SUFFICES ASSUME NEW j \in Jobs, assignee'[j] # 0
               PROVE  assignee'[j] \in OfJob(j, "developer")'
    BY DEF AssigneeIsDeveloper
  <2>1. CASE assignee'[j] = assignee[j]
    BY <1>1, <2>1 DEF AssigneeInv, AssigneeIsDeveloper, LifeInv, RowInv, TypeOK
  <2>2. ASSUME NEW n \in Agents, Recorded(n, j)
        PROVE  assignee'[j] \in OfJob(j, "developer")'
    <3>1. n \in OfJob(j, "developer")
      BY <2>2 DEF Recorded, Recorders, OfJob, AssigneeInv, NeverRestarted,
                  DispatchedDevelop
    <3> QED
      BY <1>1, <2>2, <3>1 DEF Recorded
  <2> QED
    BY <2>1, <2>2 DEF NamesMove, AssigneeMove
<1>3. SeenIsDeveloper'
  <2> SUFFICES ASSUME NEW n \in Agents, verdict'[n] # "idle", seen'[n] # 0
               PROVE  seen'[n] \in OfJob(ajob[n], "developer")'
    BY DEF SeenIsDeveloper, OfJob
  <2>1. CASE seen'[n] = seen[n] /\ verdict[n] # "idle"
    <3>1. PICK j \in Jobs : j = ajob[n] /\ ajob'[n] = j
      BY <2>1, HasLife, RowsStay DEF AssigneeInv, Unborn, Row
    <3>2. seen[n] \in OfJob(j, "developer") /\ seen[n] \in Agents
      BY <2>1, <3>1 DEF AssigneeInv, SeenIsDeveloper, OfJob
    <3> QED
      BY <1>1, <2>1, <3>1, <3>2 DEF OfJob
  <2>2. CASE VerdictMerge(n)
    <3>1. PICK j \in Jobs : j = ajob[n] /\ ajob'[n] = j
      BY <2>2, HasLife, RowsStay DEF VerdictMerge, Acts, AssigneeInv, Unborn, Row
    <3>2. seen'[n] = assignee[ajob[n]]
      BY <2>2 DEF VerdictMerge, AssigneeInv, LifeInv, RowInv, TypeOK
    <3>3. seen'[n] \in OfJob(j, "developer") /\ seen'[n] \in Agents
      BY <3>1, <3>2 DEF AssigneeInv, AssigneeIsDeveloper, OfJob
    <3> QED
      BY <1>1, <3>1, <3>3 DEF OfJob
  <2> QED
    BY <2>1, <2>2 DEF NamesMove, SeenMove
<1> QED
  BY <1>2, <1>3

\* The invariant behind the next theorem.
LEMMA AssigneeInvCorrect ==
  ASSUME "restart" \notin Env
  PROVE  Spec => []AssigneeInv
<1>1. Init /\ LifeInv => AssigneeInv
  BY DEF Init, AssigneeInv, NeverRestarted, DispatchedDevelop,
         AssigneeIsDeveloper, SeenIsDeveloper
<1>2. AssigneeInv /\ LifeInv' /\ [Next]_vars => AssigneeInv'
  <2> SUFFICES ASSUME AssigneeInv, LifeInv', [Next]_vars PROVE AssigneeInv'
    OBVIOUS
  <2>1. LifeStep /\ NamesMove
    BY LivesStep, NamesStep, StutterLives DEF AssigneeInv
  <2>2. NeverRestarted' /\ DispatchedDevelop'
    BY <2>1, CallersStep DEF AssigneeInv
  <2> QED
    BY <2>1, <2>2, AssigneeStep DEF AssigneeInv
<1> QED
  BY LifeCorrect, <1>1, <1>2, PTL DEF Spec

\* The assignee column names a developer of that very job (assign, handleDeath,
\* deferJobSpawn, recover): rejections and conflicts are mailed to it and the
\* merge retires it. Where users restart reviewers it fails, as StopAgent
\* records whoever it restarts.
THEOREM AssigneesDevelop ==
  ASSUME "restart" \notin Env
  PROVE  Spec => []AssigneeIsDeveloper
<1>1. AssigneeInv => AssigneeIsDeveloper
  BY DEF AssigneeInv
<1> QED
  BY AssigneeInvCorrect, <1>1, PTL
-----------------------------------------------------------------------------
(* Retries.                                                                *)

\* A failed job stays failed, and a job whose retries are spent by a death
\* fails with it, where neither users nor a new office requeue jobs.
RetryMove(j) ==
  \/ retries'[j] = retries[j] /\ (jstate[j] = "failed" => jstate'[j] = "failed")
  \/ /\ jstate[j] # "failed"
     /\ retries'[j] = retries[j] + 1
     /\ Spent(j) => jstate'[j] = "failed"
RetryMoves == \A j \in Jobs : RetryMove(j)

\* The only edge out of failed leads back to the queue.
LEMMA FailedStays ==
  ASSUME RowInv, NEW i, NEW to, to # "queued", TryTransition(i, to),
         retries' = retries
  PROVE  RetryMoves
BY DEF RowInv, TypeOK, TryTransition, SetJob, AfterTransition, ValidTransition,
       Edges, RetryMoves, RetryMove

\* handleDeath and handleReviewerDeath count, and fail the job at the limit.
LEMMA DeathCounts ==
  ASSUME RowInv, NEW n \in Agents, JobAfterDeath(n)
  PROVE  RetryMoves
<1>1. CASE jstate[ajob[n]] \notin LostTo(role[n])
  BY <1>1 DEF JobAfterDeath, jobVars, RetryMoves, RetryMove
<1>2. CASE jstate[ajob[n]] \in LostTo(role[n])
  <2>1. jstate[ajob[n]] # "failed"
    BY <1>2 DEF LostTo, LostStates
  <2>2. \A j \in Jobs :
          IF j = ajob[n] THEN /\ retries'[j] = retries[j] + 1
                              /\ Spent(j) => jstate'[j] = "failed"
          ELSE retries'[j] = retries[j] /\ jstate'[j] = jstate[j]
    BY <1>2 DEF JobAfterDeath, SetJob, RowInv, TypeOK
  <2> QED
    BY <2>1, <2>2 DEF RetryMoves, RetryMove
<1> QED
  BY <1>1, <1>2

\* Every step treats every job like that.
LEMMA RetryStep ==
  ASSUME RowInv, Next, {"reboot", "requeue", "requeueAny"} \cap Env = {}
  PROVE  RetryMoves
<1>1. ASSUME NEW j \in Jobs, DispatchPick(j) PROVE RetryMoves
  BY <1>1 DEF DispatchPick, RetryMoves, RetryMove, jobVars
<1>2. ASSUME NEW j \in Jobs, ReviewBegin(j) PROVE RetryMoves
  BY <1>2 DEF ReviewBegin, RetryMoves, RetryMove, jobVars
<1>3. ASSUME DispatchPrepFails PROVE RetryMoves
  BY <1>3, FailedStays DEF DispatchPrepFails, RetryMoves, RetryMove, jobVars
<1>4. ASSUME DispatchSpawn PROVE RetryMoves
  BY <1>4 DEF DispatchSpawn, RetryMoves, RetryMove, jobVars, ClaimFor,
         SetJob, RowInv, TypeOK
<1>5. ASSUME DispatchHalted PROVE RetryMoves
  BY <1>5 DEF DispatchHalted, RetryMoves, RetryMove, jobVars, SetJob, RowInv,
         TypeOK
<1>6. ASSUME ReviewSpawn PROVE RetryMoves
  BY <1>6 DEF ReviewSpawn, RetryMoves, RetryMove, jobVars
<1>7. ASSUME ReviewHalted PROVE RetryMoves
  BY <1>7 DEF ReviewHalted, RetryMoves, RetryMove, jobVars
<1>8. ASSUME NEW m \in Agents, SessionStart(m) PROVE RetryMoves
  BY <1>8 DEF SessionStart, RetryMoves, RetryMove, jobVars
<1>9. ASSUME NEW m \in Agents, SessionStartFails(m) PROVE RetryMoves
  BY <1>9 DEF SessionStartFails, RetryMoves, RetryMove, jobVars, SetJob,
         RowInv, TypeOK
<1>10. ASSUME NEW m \in Agents, MergeLands(m) PROVE RetryMoves
  BY <1>10 DEF MergeLands, RetryMoves, RetryMove, jobVars
<1>11. ASSUME NEW m \in Agents, MergeFails(m) PROVE RetryMoves
  BY <1>11, FailedStays DEF MergeFails, RetryMoves, RetryMove, jobVars
<1>12. ASSUME NEW m \in Agents, Finalize(m) PROVE RetryMoves
  BY <1>12, FailedStays DEF Finalize, RetryMoves, RetryMove, jobVars
<1>13. ASSUME NEW m \in Agents, Reap(m) PROVE RetryMoves
  BY <1>13 DEF Reap, RetryMoves, RetryMove, jobVars
<1>14. ASSUME NEW m \in Agents, WatchExit(m) PROVE RetryMoves
  BY <1>14, DeathCounts DEF WatchExit, RetryMoves, RetryMove, jobVars
<1>15. ASSUME NEW m \in Agents, HandshakeTimeout(m) PROVE RetryMoves
  BY <1>15, FailedStays DEF HandshakeTimeout, RetryMoves, RetryMove, jobVars
<1>16. ASSUME NEW m \in Agents, RetrySpawn(m) PROVE RetryMoves
  BY <1>16 DEF RetrySpawn, RetryMoves, RetryMove, jobVars, ClaimFor, SetJob,
         RowInv, TypeOK
<1>17. ASSUME NEW m \in Agents, RetryDeferred(m) PROVE RetryMoves
  BY <1>17 DEF RetryDeferred, RetryMoves, RetryMove, jobVars, SetJob, RowInv,
         TypeOK
<1>18. ASSUME NEW m \in Agents, RestartSpawn(m) PROVE RetryMoves
  BY <1>18 DEF RestartSpawn, RetryMoves, RetryMove, jobVars, ClaimFor,
         SetJob, RowInv, TypeOK
<1>19. ASSUME NEW m \in Agents, WaitReturns(m) PROVE RetryMoves
  BY <1>19 DEF WaitReturns, RetryMoves, RetryMove, jobVars
<1>20. ASSUME NEW m \in Agents, Ready(m) PROVE RetryMoves
  BY <1>20 DEF Ready, Greeted, RetryMoves, RetryMove, jobVars, SetJob, RowInv, TypeOK
<1>21. ASSUME NEW m \in Agents, DeveloperDone(m) PROVE RetryMoves
  BY <1>21 DEF DeveloperDone, RetryMoves, RetryMove, jobVars, SetJob, RowInv,
         TypeOK
<1>22. ASSUME NEW m \in Agents, VerdictMerge(m) PROVE RetryMoves
  BY <1>22 DEF VerdictMerge, RetryMoves, RetryMove, jobVars, SetJob, RowInv,
         TypeOK
<1>23. ASSUME NEW m \in Agents, VerdictReject(m) PROVE RetryMoves
  BY <1>23 DEF VerdictReject, RetryMoves, RetryMove, jobVars, SetJob, RowInv,
         TypeOK
<1>24. ASSUME NEW m \in Agents, ReviewerDone(m) PROVE RetryMoves
  BY <1>24 DEF ReviewerDone, RetryMoves, RetryMove, jobVars
<1>25. ASSUME NEW m \in Agents, Wait(m) PROVE RetryMoves
  BY <1>25 DEF Wait, RetryMoves, RetryMove, jobVars
<1>26. ASSUME NEW m \in Agents, ProcessExit(m) PROVE RetryMoves
  BY <1>26 DEF ProcessExit, RetryMoves, RetryMove, jobVars
<1>27. ASSUME NEW j \in Jobs, UserCancels(j) PROVE RetryMoves
  BY <1>27 DEF UserCancels, RetryMoves, RetryMove, jobVars, CancelJob,
         ValidTransition, Edges, SetJob, RowInv, TypeOK
<1>28. ASSUME NEW j \in Jobs, UserRequeues(j) PROVE RetryMoves
  BY <1>28 DEF UserRequeues, RetryMoves, RetryMove, jobVars, Event
<1>29. ASSUME NEW j \in Jobs, OverrideReview(j) PROVE RetryMoves
  BY <1>29 DEF OverrideReview, RetryMoves, RetryMove, jobVars, SetJob,
         RowInv, TypeOK
<1>30. ASSUME NEW m \in Agents, UserKills(m) PROVE RetryMoves
  BY <1>30 DEF UserKills, RetryMoves, RetryMove, jobVars, CancelJob,
         ValidTransition, Edges, SetJob, RowInv, TypeOK
<1>31. ASSUME NEW m \in Agents, UserRestarts(m) PROVE RetryMoves
  BY <1>31 DEF UserRestarts, RetryMoves, RetryMove, jobVars
<1>32. ASSUME Halt PROVE RetryMoves
  BY <1>32 DEF Halt, RetryMoves, RetryMove, jobVars
<1>33. ASSUME Resume PROVE RetryMoves
  BY <1>33 DEF Resume, RetryMoves, RetryMove, jobVars
<1>34. ASSUME Reboot PROVE RetryMoves
  BY <1>34 DEF Reboot, RetryMoves, RetryMove, jobVars, Event
<1>35. ASSUME NEW m \in Agents, ReadyLooks(m) PROVE RetryMoves
  BY <1>35 DEF ReadyLooks, RetryMoves, RetryMove, jobVars
<1>36. ASSUME NEW m \in Agents, ReadyWrites(m) PROVE RetryMoves
  BY <1>36 DEF ReadyWrites, Greeted, RetryMoves, RetryMove, jobVars, SetJob, RowInv, TypeOK
<1> QED
  BY <1>1, <1>2, <1>3, <1>4, <1>5, <1>6, <1>7, <1>8, <1>9, <1>10, <1>11,
     <1>12, <1>13, <1>14, <1>15, <1>16, <1>17, <1>18, <1>19, <1>20, <1>21,
     <1>22, <1>23, <1>24, <1>25, <1>26, <1>27, <1>28, <1>29, <1>30, <1>31,
     <1>32, <1>33, <1>34, <1>35, <1>36
  DEF Next, OfficeStep, AgentStep, UserStep

\* A job survives agents.max_job_retries deaths at most; the next one fails it
\* (handleDeath, handleReviewerDeath), whatever timeouts, halts, restarts,
\* merges and cancellations happen in between.
THEOREM RetriesBounded ==
  ASSUME {"reboot", "requeue", "requeueAny"} \cap Env = {}
  PROVE  Spec => []RetryBudget
<1>0. MaxJobRetries \in Nat
  BY ConstantsAssumption
<1>1. Init => RetryBudget
  BY <1>0 DEF Init, RetryBudget
<1>2. RowInv /\ RetryBudget /\ [Next]_vars => RetryBudget'
  <2> SUFFICES ASSUME RowInv, RetryBudget, [Next]_vars PROVE RetryBudget'
    OBVIOUS
  <2>1. RetryMoves
    BY RetryStep DEF vars, jobVars, RetryMoves, RetryMove
  <2> QED
    BY <1>0, <2>1 DEF RetryMoves, RetryMove, Spent, RetryBudget, RowInv, TypeOK
<1> QED
  BY RowsCorrect, <1>1, <1>2, PTL DEF Spec
-----------------------------------------------------------------------------
(* What the dispatcher and spawnReviewer prepare, and the cap.             *)

SpawnMove ==
  /\ disp' \in {disp, NoJob} \/ \E j \in Jobs : DispatchPick(j)
  /\ reviewing' \in {reviewing, NoJob} \/ \E j \in Jobs : ReviewBegin(j)

\* A spawn is prepared by DispatchPick and ReviewBegin only.
LEMMA SpawnStep ==
  ASSUME Next
  PROVE  SpawnMove
<1>1. ASSUME NEW j \in Jobs, DispatchPick(j) PROVE SpawnMove
  BY <1>1 DEF DispatchPick, SpawnMove, spawnVars
<1>2. ASSUME NEW j \in Jobs, ReviewBegin(j) PROVE SpawnMove
  BY <1>2 DEF ReviewBegin, SpawnMove, spawnVars
<1>3. ASSUME DispatchPrepFails PROVE SpawnMove
  BY <1>3 DEF DispatchPrepFails, SpawnMove, spawnVars
<1>4. ASSUME DispatchSpawn PROVE SpawnMove
  BY <1>4 DEF DispatchSpawn, SpawnMove, spawnVars
<1>5. ASSUME DispatchHalted PROVE SpawnMove
  BY <1>5 DEF DispatchHalted, SpawnMove, spawnVars
<1>6. ASSUME ReviewSpawn PROVE SpawnMove
  BY <1>6 DEF ReviewSpawn, SpawnMove, spawnVars
<1>7. ASSUME ReviewHalted PROVE SpawnMove
  BY <1>7 DEF ReviewHalted, SpawnMove, spawnVars
<1>8. ASSUME NEW m \in Agents, SessionStart(m) PROVE SpawnMove
  BY <1>8 DEF SessionStart, SpawnMove, spawnVars
<1>9. ASSUME NEW m \in Agents, SessionStartFails(m) PROVE SpawnMove
  BY <1>9 DEF SessionStartFails, SpawnMove, spawnVars
<1>10. ASSUME NEW m \in Agents, MergeLands(m) PROVE SpawnMove
  BY <1>10 DEF MergeLands, SpawnMove, spawnVars
<1>11. ASSUME NEW m \in Agents, MergeFails(m) PROVE SpawnMove
  BY <1>11 DEF MergeFails, SpawnMove, spawnVars
<1>12. ASSUME NEW m \in Agents, Finalize(m) PROVE SpawnMove
  BY <1>12 DEF Finalize, SpawnMove, spawnVars
<1>13. ASSUME NEW m \in Agents, Reap(m) PROVE SpawnMove
  BY <1>13 DEF Reap, SpawnMove, spawnVars
<1>14. ASSUME NEW m \in Agents, WatchExit(m) PROVE SpawnMove
  BY <1>14 DEF WatchExit, SpawnMove, spawnVars
<1>15. ASSUME NEW m \in Agents, HandshakeTimeout(m) PROVE SpawnMove
  BY <1>15 DEF HandshakeTimeout, SpawnMove, spawnVars
<1>16. ASSUME NEW m \in Agents, RetrySpawn(m) PROVE SpawnMove
  BY <1>16 DEF RetrySpawn, SpawnMove, spawnVars
<1>17. ASSUME NEW m \in Agents, RetryDeferred(m) PROVE SpawnMove
  BY <1>17 DEF RetryDeferred, SpawnMove, spawnVars
<1>18. ASSUME NEW m \in Agents, RestartSpawn(m) PROVE SpawnMove
  BY <1>18 DEF RestartSpawn, SpawnMove, spawnVars
<1>19. ASSUME NEW m \in Agents, WaitReturns(m) PROVE SpawnMove
  BY <1>19 DEF WaitReturns, SpawnMove, spawnVars
<1>20. ASSUME NEW m \in Agents, Ready(m) PROVE SpawnMove
  BY <1>20 DEF Ready, Greeted, SpawnMove, spawnVars
<1>21. ASSUME NEW m \in Agents, DeveloperDone(m) PROVE SpawnMove
  BY <1>21 DEF DeveloperDone, SpawnMove, spawnVars
<1>22. ASSUME NEW m \in Agents, VerdictMerge(m) PROVE SpawnMove
  BY <1>22 DEF VerdictMerge, SpawnMove, spawnVars
<1>23. ASSUME NEW m \in Agents, VerdictReject(m) PROVE SpawnMove
  BY <1>23 DEF VerdictReject, SpawnMove, spawnVars
<1>24. ASSUME NEW m \in Agents, ReviewerDone(m) PROVE SpawnMove
  BY <1>24 DEF ReviewerDone, SpawnMove, spawnVars
<1>25. ASSUME NEW m \in Agents, Wait(m) PROVE SpawnMove
  BY <1>25 DEF Wait, SpawnMove, spawnVars
<1>26. ASSUME NEW m \in Agents, ProcessExit(m) PROVE SpawnMove
  BY <1>26 DEF ProcessExit, SpawnMove, spawnVars
<1>27. ASSUME NEW j \in Jobs, UserCancels(j) PROVE SpawnMove
  BY <1>27 DEF UserCancels, CancelJob, SpawnMove, spawnVars
<1>28. ASSUME NEW j \in Jobs, UserRequeues(j) PROVE SpawnMove
  BY <1>28 DEF UserRequeues, SpawnMove, spawnVars
<1>29. ASSUME NEW j \in Jobs, OverrideReview(j) PROVE SpawnMove
  BY <1>29 DEF OverrideReview, SpawnMove, spawnVars
<1>30. ASSUME NEW m \in Agents, UserKills(m) PROVE SpawnMove
  BY <1>30 DEF UserKills, CancelJob, SpawnMove, spawnVars
<1>31. ASSUME NEW m \in Agents, UserRestarts(m) PROVE SpawnMove
  BY <1>31 DEF UserRestarts, SpawnMove, spawnVars
<1>32. ASSUME Halt PROVE SpawnMove
  BY <1>32 DEF Halt, SpawnMove, spawnVars
<1>33. ASSUME Resume PROVE SpawnMove
  BY <1>33 DEF Resume, SpawnMove, spawnVars
<1>34. ASSUME Reboot PROVE SpawnMove
  BY <1>34 DEF Reboot, SpawnMove, spawnVars
<1>35. ASSUME NEW m \in Agents, ReadyLooks(m) PROVE SpawnMove
  BY <1>35 DEF ReadyLooks, SpawnMove, spawnVars
<1>36. ASSUME NEW m \in Agents, ReadyWrites(m) PROVE SpawnMove
  BY <1>36 DEF ReadyWrites, Greeted, SpawnMove, spawnVars
<1> QED
  BY <1>1, <1>2, <1>3, <1>4, <1>5, <1>6, <1>7, <1>8, <1>9, <1>10, <1>11,
     <1>12, <1>13, <1>14, <1>15, <1>16, <1>17, <1>18, <1>19, <1>20, <1>21,
     <1>22, <1>23, <1>24, <1>25, <1>26, <1>27, <1>28, <1>29, <1>30, <1>31,
     <1>32, <1>33, <1>34, <1>35, <1>36
  DEF Next, OfficeStep, AgentStep, UserStep

\* An agent that is parked waits with its process, or is still to be ready, or
\* it was killed and its process has ended.
ParkedWith(n, state) ==
  \/ astate[n] = state /\ sess[n] \in {"running", "exited"}
  \/ astate[n] = "dead" /\ sess[n] \in {"exited", "none"}
ParkedInv ==
  \A n \in Agents : /\ parked[n] = "wait" => ParkedWith(n, "waiting")
                    /\ parked[n] = "ready" => "slow" \in Env /\ ParkedWith(n, "spawning")

\* Every step keeps it so.
LEMMA ParkedStep ==
  ASSUME LifeInv, ParkedInv, LifeStep
  PROVE  ParkedInv'
<1> SUFFICES ASSUME NEW n \in Agents
             PROVE  /\ parked'[n] = "wait" => ParkedWith(n, "waiting")'
                    /\ parked'[n] = "ready" =>
                         "slow" \in Env /\ ParkedWith(n, "spawning")'
  BY DEF ParkedInv
<1>1. /\ parked[n] = "wait" => ParkedWith(n, "waiting")
      /\ parked[n] = "ready" => "slow" \in Env /\ ParkedWith(n, "spawning")
      /\ parked[n] \in {"no", "ready", "wait"}
      /\ sess[n] \in {"none", "starting", "running", "exited"}
  BY DEF ParkedInv, LifeInv, RowInv, TypeOK
<1>2. CASE Lives(n)
  BY <1>1, <1>2
  DEF Lives, Life, Idle, Started, Refused, Readied, MayReady, Greets, Finished,
      Acts, Waits, Returns, Ended, Noticed, Killed, TooLate, Restarting,
      Dies, Replaced, Rebooted, Living, LivingStates,
      ParkedWith
<1>3. CASE Besides(n)
  BY <1>1, <1>3 DEF Besides, Idle, Replaced, ParkedWith
<1>4. CASE Born(n)
  <2>1. parked[n] = "no"
    BY <1>4 DEF Born, LifeInv, RowInv, RowsInOrder, Unborn, TypeOK
  <2> QED
    BY <1>4, <2>1 DEF Born
<1> QED
  BY <1>2, <1>3, <1>4 DEF LifeStep

\* No living agent with a process appears but a newly inserted one: one that
\* comes back from waiting after its end has no process any more.
LEMMA PresentStep ==
  ASSUME LifeInv, ParkedInv, LifeStep, NEW n \in Agents, Living(n)', Process(n)'
  PROVE  \/ Living(n) /\ Process(n) /\ UNCHANGED Row(n)
         \/ Born(n)
<1>1. CASE Lives(n)
  BY <1>1
  DEF Lives, Life, Idle, Started, Refused, Readied, MayReady, Greets, Finished,
      Acts, Waits, Returns, Ended, Noticed, Killed, TooLate, Restarting,
      Dies, Replaced, Rebooted, Living, LivingStates, Process, ParkedInv,
      ParkedWith, LifeInv, RowInv, TypeOK
<1>2. CASE Besides(n)
  BY <1>2 DEF Besides, Idle, Replaced, Living, Process
<1> QED
  BY <1>1, <1>2 DEF LifeStep

\* What is parked stays true in every behaviour.
LEMMA ParkedCorrect == Spec => [](LifeInv /\ ParkedInv)
<1>1. Init => ParkedInv
  BY DEF Init, ParkedInv
<1>2. LifeInv /\ ParkedInv /\ [Next]_vars => ParkedInv'
  BY ParkedStep, LivesStep, StutterLives
<1> QED
  BY LifeCorrect, <1>1, <1>2, PTL DEF Spec

\* Whatever dispatcher, watchers, users, reboots and agents do, the row of an
\* agent that ended (KillAgent, watchExit, reviewer done) comes back to life
\* only by the late write of a wait or a ready, and never with a process; nor
\* is a process that is gone there again.
THEOREM EndedStays == Spec => EndedNeverActs
<1> DEFINE Ends == \A n \in Agents :
                     /\ astate[n] \in {"done", "dead"} /\ Living(n)' =>
                          parked[n] # "no" /\ ~Process(n)
                     /\ role[n] # "none" /\ ~Process(n) => ~Process(n)'
<1>1. LifeInv /\ ParkedInv /\ [Next]_vars => [Ends]_vars
  <2> SUFFICES ASSUME LifeInv, ParkedInv, LifeStep, NEW n \in Agents
               PROVE  /\ astate[n] \in {"done", "dead"} /\ Living(n)' =>
                           parked[n] # "no" /\ ~Process(n)
                      /\ role[n] # "none" /\ ~Process(n) => ~Process(n)'
    BY LivesStep
  <2>1. CASE Lives(n)
    BY <2>1
    DEF Lives, Life, Idle, Started, Refused, Readied, MayReady, Greets, Finished,
        Acts, Waits, Returns, Ended, Noticed, Killed, TooLate, Restarting,
        Dies, Replaced, Rebooted, Living, LivingStates, Process, ParkedInv,
        ParkedWith, LifeInv, RowInv, TypeOK
  <2>2. CASE Besides(n)
    BY <2>2 DEF Besides, Idle, Replaced, Living, LivingStates, Process
  <2>3. CASE Born(n)
    BY <2>3 DEF Born, LifeInv, FreshRows, RowInv, TypeOK
  <2> QED
    BY <2>1, <2>2, <2>3 DEF LifeStep
<1> QED
  BY ParkedCorrect, <1>1, PTL DEF Spec, EndedNeverActs

\* The developers that count: their rows live and their processes run.
Developing == {n \in LivingByRole("developer") : Process(n)}

\* Nobody joins them but a newly inserted developer.
LEMMA DevelopingStep ==
  ASSUME LifeInv, ParkedInv, LifeStep, NEW n \in Developing'
  PROVE  n \in Developing \/ (Born(n) /\ role'[n] = "developer")
<1>1. n \in Agents /\ role'[n] = "developer" /\ Living(n)' /\ Process(n)'
  BY DEF Developing, LivingByRole
<1>2. \/ Living(n) /\ Process(n) /\ UNCHANGED Row(n)
      \/ Born(n)
  BY <1>1, PresentStep
<1> QED
  BY <1>1, <1>2 DEF Row, Developing, LivingByRole

\* While the dispatcher prepares a spawn there is room for one more.
CapInv == /\ LifeInv /\ ParkedInv /\ DeveloperCap
          /\ \A n \in Agents : respawn[n] = "no"
          /\ disp # NoJob => Cardinality(Developing) < MaxDevelopers

\* The set is finite.
LEMMA DevelopingFinite ==
  IsFiniteSet(Developing) /\ IsFiniteSet(Developing') /\ IsFiniteSet(LivingByRole("developer"))
<1>1. IsFiniteSet(Agents)
  BY FS_Interval, BoundsType DEF Agents
<1> QED
  BY <1>1, FS_Subset DEF Developing, LivingByRole

\* One step keeps the cap.
LEMMA CapStep ==
  ASSUME CapInv, LifeInv', LifeStep, SpawnMove, {"late", "restart"} \cap Env = {}
  PROVE  CapInv'
<1>0. MaxDevelopers \in Nat /\ Cardinality(Developing) \in Nat
      /\ Cardinality(Developing') \in Nat
  BY DevelopingFinite, FS_CardinalityType, ConstantsAssumption
<1>1. \A n \in Agents : respawn'[n] = "no"
  BY DEF CapInv, LifeStep, Lives, Life, Idle, Started, Refused, Readied, Greets, Finished,
         Waits, Returns, Ended, Noticed, Killed, TooLate, Restarting, Replaced,
         Rebooted, Besides, Born
<1>2. CASE Developing' \subseteq Developing
  <2>1. Cardinality(Developing') <= Cardinality(Developing)
    BY <1>2, DevelopingFinite, FS_Subset
  <2>2. Cardinality(Developing') <= MaxDevelopers
    BY <1>0, <2>1 DEF CapInv, DeveloperCap, Developing
  <2>3. disp' # NoJob => Cardinality(Developing') < MaxDevelopers
    <3>1. CASE disp' \in {disp, NoJob}
      BY <1>0, <2>1, <3>1 DEF CapInv
    <3>2. ASSUME NEW j \in Jobs, DispatchPick(j)
          PROVE  Cardinality(Developing') < MaxDevelopers
      <4>1. Cardinality(LivingByRole("developer")) < MaxDevelopers
        BY <3>2 DEF DispatchPick, HasCapacity
      <4>2. Cardinality(Developing) <= Cardinality(LivingByRole("developer"))
        BY DevelopingFinite, FS_Subset DEF Developing
      <4>3. Cardinality(LivingByRole("developer")) \in Nat
        BY DevelopingFinite, FS_CardinalityType
      <4> QED
        BY <1>0, <2>1, <4>1, <4>2, <4>3
    <3> QED
      BY <3>1, <3>2 DEF SpawnMove
  <2> QED
    BY <1>1, <2>2, <2>3, ParkedStep DEF CapInv, DeveloperCap, Developing
<1>3. ASSUME NEW n \in Agents, Born(n), role'[n] = "developer" PROVE CapInv'
  <2>1. Dispatched(n)
    BY <1>3 DEF Born, ForReview, Row, Replaces, Replaced, CapInv
  <2>2. Cardinality(Developing) < MaxDevelopers /\ disp' = NoJob
    BY <2>1 DEF Dispatched, CapInv
  <2>3. Developing' \subseteq Developing \cup {n}
    <3>1. ASSUME NEW m \in Developing' PROVE m \in Developing \cup {n}
      <4>1. m \in Developing \/ Born(m)
        BY DevelopingStep DEF CapInv
      <4> QED
        BY <1>3, <4>1 DEF Born
    <3> QED
      BY <3>1
  <2>4. Cardinality(Developing') <= Cardinality(Developing) + 1
    <3>0. /\ IsFiniteSet(Developing \cup {n})
          /\ Cardinality(Developing \cup {n}) =
               IF n \in Developing THEN Cardinality(Developing)
                                   ELSE Cardinality(Developing) + 1
      BY DevelopingFinite, FS_AddElement
    <3>1. /\ IsFiniteSet(Developing \cup {n})
          /\ Cardinality(Developing \cup {n}) <= Cardinality(Developing) + 1
      BY <1>0, <3>0
    <3>2. Cardinality(Developing') <= Cardinality(Developing \cup {n})
      BY <2>3, <3>1, FS_Subset
    <3>3. Cardinality(Developing \cup {n}) \in Nat
      BY <3>1, FS_CardinalityType
    <3> QED
      BY <1>0, <3>1, <3>2, <3>3
  <2>5. Cardinality(Developing') <= MaxDevelopers
    BY <1>0, <2>2, <2>4
  <2> QED
    BY <1>1, <2>2, <2>5, ParkedStep DEF CapInv, DeveloperCap, Developing
<1> QED
  BY <1>2, <1>3, DevelopingStep DEF CapInv, Developing, LivingByRole

\* limits.max_developers bounds the developers whose rows live and whose processes
\* run or are being started (hasCapacity, assign), however slowly a spawn is
\* prepared: the dispatcher counts before it prepares, and nobody else adds one.
\* Handshake retries and users' restarts do, so that where those happen it fails;
\* and a session whose row is ended before it is registered is not in this count.
THEOREM CapHeld ==
  ASSUME {"late", "restart"} \cap Env = {}
  PROVE  Spec => []DeveloperCap
<1>1. Init /\ LifeInv => CapInv
  <2> SUFFICES ASSUME Init, LifeInv PROVE CapInv
    OBVIOUS
  <2>1. Developing = {}
    BY DEF Init, Developing, LivingByRole, Living, LivingStates
  <2>2. Cardinality(Developing) <= MaxDevelopers
    BY <2>1, FS_EmptySet, ConstantsAssumption
  <2> QED
    BY <2>2 DEF Init, CapInv, ParkedInv, DeveloperCap, Developing
<1>2. CapInv /\ LifeInv' /\ [Next]_vars => CapInv'
  <2> SUFFICES ASSUME CapInv, LifeInv', [Next]_vars PROVE CapInv'
    OBVIOUS
  <2>1. LifeStep
    BY LivesStep, StutterLives DEF CapInv
  <2>2. SpawnMove
    BY SpawnStep DEF vars, spawnVars, SpawnMove
  <2> QED
    BY <2>1, <2>2, CapStep
<1>3. CapInv => DeveloperCap
  BY DEF CapInv
<1> QED
  BY LifeCorrect, <1>1, <1>2, <1>3, PTL DEF Spec

-----------------------------------------------------------------------------
(* How a job moves.                                                        *)

\* It returns to the queue: assign hands it back, its developer cannot be
\* started, has died, or is not replaced during a halt; the office starts again;
\* the user requeues it.
Returned(j) ==
  /\ jstate'[j] = "queued"
  /\ \/ DispatchHalted /\ disp = j
     \/ \E m \in Agents : /\ ajob[m] = j
                          /\ \/ SessionStartFails(m) /\ via[m] = "dispatch"
                             \/ /\ role[m] = "developer"
                                /\ RetryDeferred(m) \/ (WatchExit(m) /\ Living(m))
     \/ Reboot
     \/ UserRequeues(j)

\* It is claimed by the spawn of a developer, and begun when an agent is ready.
Claimed(j) ==
  /\ jstate[j] = "queued" /\ jstate'[j] = "assigned"
  /\ \/ DispatchSpawn /\ disp = j
     \/ \E m \in Agents : /\ role[m] = "developer" /\ ajob[m] = j
                          /\ RetrySpawn(m) \/ RestartSpawn(m)
Begun(j) == /\ jstate[j] = "assigned" /\ jstate'[j] = "working"
            /\ \E m \in Agents : ajob[m] = j /\ (Ready(m) \/ ReadyWrites(m))

\* It fails or is cancelled.
Dropped(j) == /\ ValidTransition(jstate[j], jstate'[j])
              /\ jstate'[j] \in {"failed", "cancelled"}

\* The verbs of its developer, its reviewer and its product manager.
HandedIn(j)  == /\ jstate[j] \in {"working", "rework"} /\ jstate'[j] = "review"
                /\ \E m \in Agents : ajob[m] = j /\ DeveloperDone(m)
Rejected(j)  == /\ jstate[j] = "review" /\ jstate'[j] = "rework"
                /\ \E m \in Agents : ajob[m] = j /\ VerdictReject(m)
Overruled(j) == /\ jstate[j] = "rework" /\ jstate'[j] = "review"
                /\ OverrideReview(j)
Approved(j)  == /\ jstate[j] = "review" /\ jstate'[j] = "merging"
                /\ \E m \in Agents : ajob[m] = j /\ VerdictMerge(m)

\* The ends of a merge.
MergedBack(j) == /\ ValidTransition(jstate[j], jstate'[j])
                 /\ jstate'[j] \in {"review", "rework"}
                 /\ \E m \in Agents : ajob[m] = j /\ MergeFails(m)
Merged(j)     == /\ jstate[j] = "merging" /\ jstate'[j] = "done"
                 /\ \E m \in Agents : ajob[m] = j /\ Finalize(m)

JobMove(j) == \/ jstate'[j] = jstate[j]
              \/ Returned(j) \/ Claimed(j) \/ Begun(j) \/ Dropped(j)
              \/ HandedIn(j) \/ Rejected(j) \/ Overruled(j) \/ Approved(j)
              \/ MergedBack(j) \/ Merged(j)
JobMoves == \A j \in Jobs : JobMove(j)

\* Setting a job moves no other job (Store.Transition).
LEMMA SetMoves ==
  ASSUME RowInv, NEW i, NEW to, SetJob(i, to), i \in Jobs => JobMove(i)
  PROVE  JobMoves
BY DEF RowInv, TypeOK, SetJob, JobMoves, JobMove

\* What SetJob leaves in the row.
LEMMA SetResult ==
  ASSUME RowInv, NEW i \in Jobs, NEW to, SetJob(i, to)
  PROVE  jstate'[i] = to
BY DEF RowInv, TypeOK, SetJob

\* A transition to failed drops the job or is refused.
LEMMA FailMoves ==
  ASSUME RowInv, NEW i, TryTransition(i, "failed")
  PROVE  JobMoves
BY SetMoves, SetResult DEF TryTransition, AfterTransition, JobMove, Dropped

\* Cancelling drops it.
LEMMA CancelMoves ==
  ASSUME RowInv, NEW i, CancelJob(i)
  PROVE  JobMoves
BY SetMoves, SetResult DEF CancelJob, JobMove, Dropped

\* Every step moves every job like that.
LEMMA JobStep ==
  ASSUME RowInv, Next
  PROVE  JobMoves
<1>1. ASSUME NEW j \in Jobs, DispatchPick(j) PROVE JobMoves
  BY <1>1 DEF DispatchPick, JobMoves, JobMove, jobVars
<1>2. ASSUME NEW j \in Jobs, ReviewBegin(j) PROVE JobMoves
  BY <1>2 DEF ReviewBegin, JobMoves, JobMove, jobVars
<1>3. ASSUME DispatchPrepFails PROVE JobMoves
  BY <1>3, FailMoves DEF DispatchPrepFails, JobMoves, JobMove, jobVars
<1>4. ASSUME DispatchSpawn PROVE JobMoves
  BY <1>4, SetMoves, SetResult DEF DispatchSpawn, JobMoves, JobMove, jobVars,
         ClaimFor, Claimed
<1>5. ASSUME DispatchHalted PROVE JobMoves
  BY <1>5, SetMoves, SetResult DEF DispatchHalted, JobMoves, JobMove,
         jobVars, Returned
<1>6. ASSUME ReviewSpawn PROVE JobMoves
  BY <1>6 DEF ReviewSpawn, JobMoves, JobMove, jobVars
<1>7. ASSUME ReviewHalted PROVE JobMoves
  BY <1>7 DEF ReviewHalted, JobMoves, JobMove, jobVars
<1>8. ASSUME NEW m \in Agents, SessionStart(m) PROVE JobMoves
  BY <1>8 DEF SessionStart, JobMoves, JobMove, jobVars
<1>9. ASSUME NEW m \in Agents, SessionStartFails(m) PROVE JobMoves
  BY <1>9, SetMoves, SetResult DEF SessionStartFails, JobMoves, JobMove,
         jobVars, Returned
<1>10. ASSUME NEW m \in Agents, MergeLands(m) PROVE JobMoves
  BY <1>10 DEF MergeLands, JobMoves, JobMove, jobVars
<1>11. ASSUME NEW m \in Agents, MergeFails(m) PROVE JobMoves
  BY <1>11, SetMoves, SetResult DEF MergeFails, JobMoves, JobMove, jobVars,
         TryTransition, AfterTransition, MergedBack
<1>12. ASSUME NEW m \in Agents, Finalize(m) PROVE JobMoves
  <2>1. ajob[m] \in Jobs => (ValidTransition(jstate[ajob[m]], "done") =>
                               jstate[ajob[m]] = "merging")
    BY DEF RowInv, TypeOK, States, ValidTransition, Edges
  <2>2. SetJob(ajob[m], AfterTransition(jstate[ajob[m]], "done"))
    BY <1>12 DEF Finalize, TryTransition
  <2> QED
    BY <1>12, <2>1, <2>2, SetMoves, SetResult DEF AfterTransition, JobMove, Merged
<1>13. ASSUME NEW m \in Agents, Reap(m) PROVE JobMoves
  BY <1>13 DEF Reap, JobMoves, JobMove, jobVars
<1>14. ASSUME NEW m \in Agents, WatchExit(m) PROVE JobMoves
  <2>1. CASE Living(m) /\ jstate[ajob[m]] \in LostTo(role[m])
    <3>1. PICK to : /\ SetJob(ajob[m], to)
                    /\ \/ to = "failed"
                       \/ to = "queued" /\ role[m] = "developer"
                       \/ to = "review" /\ role[m] # "developer"
      BY <1>14, <2>1 DEF WatchExit, JobAfterDeath
    <3>2. role[m] \in {"developer", "reviewer"}
      BY <2>1, HasRow DEF Unborn
    <3> QED
      BY <1>14, <2>1, <3>1, <3>2, SetMoves, SetResult
      DEF JobMove, Returned, Dropped, LostTo, LostStates, ValidTransition, Edges
  <2>2. CASE ~(Living(m) /\ jstate[ajob[m]] \in LostTo(role[m]))
    BY <1>14, <2>2 DEF WatchExit, JobAfterDeath, JobMoves, JobMove, jobVars
  <2> QED
    BY <2>1, <2>2
<1>15. ASSUME NEW m \in Agents, HandshakeTimeout(m) PROVE JobMoves
  BY <1>15, FailMoves DEF HandshakeTimeout, JobMoves, JobMove, jobVars
<1>16. ASSUME NEW m \in Agents, RetrySpawn(m) PROVE JobMoves
  BY <1>16, SetMoves, SetResult DEF RetrySpawn, JobMoves, JobMove, jobVars,
         ClaimFor, Claimed
<1>17. ASSUME NEW m \in Agents, RetryDeferred(m) PROVE JobMoves
  BY <1>17, SetMoves, SetResult DEF RetryDeferred, JobMoves, JobMove,
         jobVars, Returned
<1>18. ASSUME NEW m \in Agents, RestartSpawn(m) PROVE JobMoves
  BY <1>18, SetMoves, SetResult DEF RestartSpawn, JobMoves, JobMove, jobVars,
         ClaimFor, Claimed
<1>19. ASSUME NEW m \in Agents, WaitReturns(m) PROVE JobMoves
  BY <1>19 DEF WaitReturns, JobMoves, JobMove, jobVars
<1>20. ASSUME NEW m \in Agents, Ready(m) PROVE JobMoves
  BY <1>20, SetMoves, SetResult DEF Ready, Greeted, JobMoves, JobMove, jobVars, Begun
<1>21. ASSUME NEW m \in Agents, DeveloperDone(m) PROVE JobMoves
  BY <1>21, SetMoves, SetResult DEF DeveloperDone, JobMoves, JobMove,
         jobVars, HandedIn
<1>22. ASSUME NEW m \in Agents, VerdictMerge(m) PROVE JobMoves
  BY <1>22, SetMoves, SetResult DEF VerdictMerge, JobMoves, JobMove, jobVars,
         Approved
<1>23. ASSUME NEW m \in Agents, VerdictReject(m) PROVE JobMoves
  BY <1>23, SetMoves, SetResult DEF VerdictReject, JobMoves, JobMove,
         jobVars, Rejected
<1>24. ASSUME NEW m \in Agents, ReviewerDone(m) PROVE JobMoves
  BY <1>24 DEF ReviewerDone, JobMoves, JobMove, jobVars
<1>25. ASSUME NEW m \in Agents, Wait(m) PROVE JobMoves
  BY <1>25 DEF Wait, JobMoves, JobMove, jobVars
<1>26. ASSUME NEW m \in Agents, ProcessExit(m) PROVE JobMoves
  BY <1>26 DEF ProcessExit, JobMoves, JobMove, jobVars
<1>27. ASSUME NEW j \in Jobs, UserCancels(j) PROVE JobMoves
  BY <1>27, CancelMoves DEF UserCancels, JobMoves, JobMove, jobVars
<1>28. ASSUME NEW j \in Jobs, UserRequeues(j) PROVE JobMoves
  BY <1>28, SetMoves, SetResult DEF UserRequeues, JobMoves, JobMove, jobVars,
         Returned
<1>29. ASSUME NEW j \in Jobs, OverrideReview(j) PROVE JobMoves
  BY <1>29, SetMoves, SetResult DEF OverrideReview, JobMoves, JobMove,
         jobVars, Overruled
<1>30. ASSUME NEW m \in Agents, UserKills(m) PROVE JobMoves
  BY <1>30, CancelMoves DEF UserKills, JobMoves, JobMove, jobVars
<1>31. ASSUME NEW m \in Agents, UserRestarts(m) PROVE JobMoves
  BY <1>31 DEF UserRestarts, JobMoves, JobMove, jobVars
<1>32. ASSUME Halt PROVE JobMoves
  BY <1>32 DEF Halt, JobMoves, JobMove, jobVars
<1>33. ASSUME Resume PROVE JobMoves
  BY <1>33 DEF Resume, JobMoves, JobMove, jobVars
<1>34. ASSUME Reboot PROVE JobMoves
  BY <1>34 DEF Reboot, JobMoves, JobMove, jobVars, Returned
<1>35. ASSUME NEW m \in Agents, ReadyLooks(m) PROVE JobMoves
  BY <1>35 DEF ReadyLooks, JobMoves, JobMove, jobVars
<1>36. ASSUME NEW m \in Agents, ReadyWrites(m) PROVE JobMoves
  BY <1>36, SetMoves, SetResult DEF ReadyWrites, Greeted, JobMoves, JobMove, jobVars, Begun
<1> QED
  BY <1>1, <1>2, <1>3, <1>4, <1>5, <1>6, <1>7, <1>8, <1>9, <1>10, <1>11,
     <1>12, <1>13, <1>14, <1>15, <1>16, <1>17, <1>18, <1>19, <1>20, <1>21,
     <1>22, <1>23, <1>24, <1>25, <1>26, <1>27, <1>28, <1>29, <1>30, <1>31,
     <1>32, <1>33, <1>34, <1>35, <1>36
  DEF Next, OfficeStep, AgentStep, UserStep

\* So do stuttering steps.
LEMMA JobStutter ==
  ASSUME UNCHANGED vars
  PROVE  JobMoves
BY DEF vars, jobVars, JobMoves, JobMove
-----------------------------------------------------------------------------
(* A job has one developer at a time.                                      *)

\* Neither restarts by users nor requeues; and ready is not held up where agents
\* are replaced for being late: its write would bring back the first of the two.
DevEnv == /\ {"restart", "requeue", "requeueAny"} \cap Env = {}
          /\ ~({"late", "slow"} \subseteq Env)

\* A developer is engaged while its process runs, its end has not been noticed
\* or its replacement is due; and also while it is parked in omo wait or ready after
\* its end, as the return of that handler brings its row back.
Engaged(n) ==
  /\ role[n] = "developer"
  /\ \/ Process(n)
     \/ sess[n] = "exited" /\ (Living(n) \/ parked[n] # "no")
     \/ respawn[n] # "no"

\* An agent about to be replaced has ended.
RetryEnded ==
  \A n \in Agents : respawn[n] = "retry" =>
    ~Living(n) /\ parked[n] = "no" /\ sess[n] \in {"exited", "none"}

EngagedAlone == \A m, n \in Agents :
                  Engaged(m) /\ Engaged(n) /\ ajob[m] = ajob[n] => m = n
\* A job that is queued, or that the dispatcher has picked, has nobody.
QueuedIsFree ==
  \A n \in Agents : Engaged(n) => jstate[ajob[n]] # "queued" /\ disp # ajob[n]

PostInv == AssigneeInv /\ ParkedInv /\ RetryEnded /\ EngagedAlone /\ QueuedIsFree

\* Only agents that have ended are marked for replacement.
LEMMA RetryEndedStep ==
  ASSUME LifeInv, ParkedInv, RetryEnded, LifeStep, ~({"late", "slow"} \subseteq Env)
  PROVE  RetryEnded'
<1> SUFFICES ASSUME NEW n \in Agents, respawn'[n] = "retry"
             PROVE  /\ astate'[n] \notin LivingStates /\ parked'[n] = "no"
                    /\ sess'[n] \in {"exited", "none"}
  BY DEF RetryEnded, Living
<1>1. /\ respawn[n] = "retry" => /\ astate[n] \notin LivingStates /\ parked[n] = "no"
                                 /\ sess[n] \in {"exited", "none"}
      /\ parked[n] = "wait" => astate[n] # "spawning"
      /\ parked[n] = "ready" => "slow" \in Env
      /\ parked[n] \in {"no", "ready", "wait"}
  BY DEF RetryEnded, ParkedInv, ParkedWith, Living, LifeInv, RowInv, TypeOK
<1>2. CASE Lives(n)
  BY <1>1, <1>2
  DEF Lives, Life, Idle, Started, Refused, Readied, MayReady, Greets, Finished,
      Acts, Waits, Returns, Ended, Noticed, Killed, TooLate, Restarting,
      Dies, Replaced, Rebooted, Living, LivingStates
<1>3. CASE Besides(n)
  BY <1>1, <1>3 DEF Besides, Idle, Replaced
<1>4. CASE Born(n)
  BY <1>4 DEF Born, LifeInv, RowInv, RowsInOrder, Unborn, TypeOK
<1> QED
  BY <1>2, <1>3, <1>4 DEF LifeStep

\* Nobody gets engaged but a newly inserted developer.
LEMMA EngagedStep ==
  ASSUME LifeInv, NeverRestarted, ParkedInv, RetryEnded, LifeStep,
         "restart" \notin Env, NEW n \in Agents, Engaged(n)'
  PROVE  \/ Engaged(n) /\ UNCHANGED Row(n)
         \/ Born(n) /\ role'[n] = "developer"
<1>1. CASE Lives(n)
  BY <1>1
  DEF Lives, Row, Life, Idle, Started, Refused, Readied, MayReady, Greets, Finished,
      Acts, Waits, Returns, Ended, Noticed, Killed, TooLate, Restarting,
      Dies, Replaced, Rebooted, Living, LivingStates, Process, ParkedInv,
      ParkedWith, LifeInv, RowInv, TypeOK,
      Engaged
<1>2. CASE Besides(n)
  BY <1>2 DEF Besides, Row, Idle, Replaced, Living, Process, Engaged
<1> QED
  BY <1>1, <1>2 DEF LifeStep, Engaged

\* The developer whose end sends its job back to the queue is not engaged any
\* more, and a reboot leaves nobody.
LEMMA ReturnFrees ==
  ASSUME PostInv, DevEnv, NEW j \in Jobs, Returned(j), NEW n \in Agents,
         ajob[n] = j, Engaged(n), UNCHANGED Row(n)
  PROVE  ~Engaged(n)'
<1>1. CASE DispatchHalted /\ disp = j
  BY <1>1 DEF PostInv, QueuedIsFree
<1>2. ASSUME NEW m \in Agents, ajob[m] = j, SessionStartFails(m), via[m] = "dispatch"
      PROVE  ~Engaged(n)'
  <2>1. Engaged(m)
    BY <1>2 DEF SessionStartFails, PostInv, AssigneeInv, DispatchedDevelop,
                Engaged, Process
  <2>2. m = n
    BY <1>2, <2>1 DEF PostInv, EngagedAlone
  <2>3. respawn[n] = "no"
    BY <1>2, <2>2 DEF SessionStartFails, PostInv, RetryEnded, AssigneeInv,
                      NeverRestarted, LifeInv, RowInv, TypeOK
  <2> QED
    BY <1>2, <2>2, <2>3 DEF SessionStartFails, Engaged, Process, PostInv,
                            AssigneeInv, LifeInv, RowInv, TypeOK
<1>3. ASSUME NEW m \in Agents, ajob[m] = j, role[m] = "developer", RetryDeferred(m)
      PROVE  ~Engaged(n)'
  <2>1. m = n
    BY <1>3 DEF RetryDeferred, Engaged, PostInv, EngagedAlone
  <2> QED
    BY <1>3, <2>1 DEF RetryDeferred, Engaged, Process, Living, PostInv, RetryEnded,
                      AssigneeInv, LifeInv, RowInv, TypeOK
<1>4. ASSUME NEW m \in Agents, ajob[m] = j, role[m] = "developer", WatchExit(m),
             Living(m)
      PROVE  ~Engaged(n)'
  <2>1. m = n
    BY <1>4 DEF WatchExit, Engaged, PostInv, EngagedAlone
  <2>2. respawn[n] = "no"
    BY <1>4, <2>1 DEF PostInv, RetryEnded, AssigneeInv, NeverRestarted, LifeInv,
                      RowInv, TypeOK
  <2> QED
    BY <1>4, <2>1, <2>2 DEF WatchExit, Engaged, Process, PostInv, AssigneeInv,
                            LifeInv, RowInv, TypeOK
<1>5. CASE Reboot
  BY <1>5 DEF Reboot, Engaged, Process
<1>6. CASE UserRequeues(j)
  BY <1>6 DEF UserRequeues, Event, DevEnv
<1> QED
  BY <1>1, <1>2, <1>3, <1>4, <1>5, <1>6 DEF Returned
-----------------------------------------------------------------------------
(* What is inserted, and by whom.                                          *)

\* InsertAgent is called by the spawns of the dispatcher, of spawnReviewer and
\* of the goroutines that replace an agent.
Spawns == \/ DispatchSpawn \/ ReviewSpawn
          \/ \E m \in Agents : RetrySpawn(m) \/ RestartSpawn(m)
NextKept == next' = next \/ Spawns

\* No other step takes an agent number.
LEMMA SpawnsStep ==
  ASSUME Next
  PROVE  NextKept
<1>1. ASSUME NEW j \in Jobs, DispatchPick(j) PROVE NextKept
  BY <1>1 DEF DispatchPick, NextKept, rowVars
<1>2. ASSUME NEW j \in Jobs, ReviewBegin(j) PROVE NextKept
  BY <1>2 DEF ReviewBegin, NextKept, rowVars
<1>3. ASSUME DispatchPrepFails PROVE NextKept
  BY <1>3 DEF DispatchPrepFails, NextKept, rowVars
<1>4. ASSUME DispatchSpawn PROVE NextKept
  BY <1>4 DEF DispatchSpawn, NextKept, rowVars, Spawns
<1>5. ASSUME DispatchHalted PROVE NextKept
  BY <1>5 DEF DispatchHalted, NextKept, rowVars
<1>6. ASSUME ReviewSpawn PROVE NextKept
  BY <1>6 DEF ReviewSpawn, NextKept, rowVars, Spawns
<1>7. ASSUME ReviewHalted PROVE NextKept
  BY <1>7 DEF ReviewHalted, NextKept, rowVars
<1>8. ASSUME NEW m \in Agents, SessionStart(m) PROVE NextKept
  BY <1>8 DEF SessionStart, NextKept, rowVars
<1>9. ASSUME NEW m \in Agents, SessionStartFails(m) PROVE NextKept
  BY <1>9 DEF SessionStartFails, NextKept, rowVars
<1>10. ASSUME NEW m \in Agents, MergeLands(m) PROVE NextKept
  BY <1>10 DEF MergeLands, NextKept, rowVars
<1>11. ASSUME NEW m \in Agents, MergeFails(m) PROVE NextKept
  BY <1>11 DEF MergeFails, NextKept, rowVars
<1>12. ASSUME NEW m \in Agents, Finalize(m) PROVE NextKept
  BY <1>12 DEF Finalize, NextKept, rowVars
<1>13. ASSUME NEW m \in Agents, Reap(m) PROVE NextKept
  BY <1>13 DEF Reap, NextKept, rowVars
<1>14. ASSUME NEW m \in Agents, WatchExit(m) PROVE NextKept
  BY <1>14 DEF WatchExit, NextKept, rowVars
<1>15. ASSUME NEW m \in Agents, HandshakeTimeout(m) PROVE NextKept
  BY <1>15 DEF HandshakeTimeout, NextKept, rowVars
<1>16. ASSUME NEW m \in Agents, RetrySpawn(m) PROVE NextKept
  BY <1>16 DEF RetrySpawn, NextKept, rowVars, Spawns
<1>17. ASSUME NEW m \in Agents, RetryDeferred(m) PROVE NextKept
  BY <1>17 DEF RetryDeferred, NextKept, rowVars
<1>18. ASSUME NEW m \in Agents, RestartSpawn(m) PROVE NextKept
  BY <1>18 DEF RestartSpawn, NextKept, rowVars, Spawns
<1>19. ASSUME NEW m \in Agents, WaitReturns(m) PROVE NextKept
  BY <1>19 DEF WaitReturns, NextKept, rowVars
<1>20. ASSUME NEW m \in Agents, Ready(m) PROVE NextKept
  BY <1>20 DEF Ready, Greeted, NextKept, rowVars
<1>21. ASSUME NEW m \in Agents, DeveloperDone(m) PROVE NextKept
  BY <1>21 DEF DeveloperDone, NextKept, rowVars
<1>22. ASSUME NEW m \in Agents, VerdictMerge(m) PROVE NextKept
  BY <1>22 DEF VerdictMerge, NextKept, rowVars
<1>23. ASSUME NEW m \in Agents, VerdictReject(m) PROVE NextKept
  BY <1>23 DEF VerdictReject, NextKept, rowVars
<1>24. ASSUME NEW m \in Agents, ReviewerDone(m) PROVE NextKept
  BY <1>24 DEF ReviewerDone, NextKept, rowVars
<1>25. ASSUME NEW m \in Agents, Wait(m) PROVE NextKept
  BY <1>25 DEF Wait, NextKept, rowVars
<1>26. ASSUME NEW m \in Agents, ProcessExit(m) PROVE NextKept
  BY <1>26 DEF ProcessExit, NextKept, rowVars
<1>27. ASSUME NEW j \in Jobs, UserCancels(j) PROVE NextKept
  BY <1>27 DEF UserCancels, NextKept, rowVars, CancelJob
<1>28. ASSUME NEW j \in Jobs, UserRequeues(j) PROVE NextKept
  BY <1>28 DEF UserRequeues, NextKept, rowVars
<1>29. ASSUME NEW j \in Jobs, OverrideReview(j) PROVE NextKept
  BY <1>29 DEF OverrideReview, NextKept, rowVars
<1>30. ASSUME NEW m \in Agents, UserKills(m) PROVE NextKept
  BY <1>30 DEF UserKills, NextKept, rowVars, CancelJob
<1>31. ASSUME NEW m \in Agents, UserRestarts(m) PROVE NextKept
  BY <1>31 DEF UserRestarts, NextKept, rowVars
<1>32. ASSUME Halt PROVE NextKept
  BY <1>32 DEF Halt, NextKept, rowVars
<1>33. ASSUME Resume PROVE NextKept
  BY <1>33 DEF Resume, NextKept, rowVars
<1>34. ASSUME Reboot PROVE NextKept
  BY <1>34 DEF Reboot, NextKept, rowVars
<1>35. ASSUME NEW m \in Agents, ReadyLooks(m) PROVE NextKept
  BY <1>35 DEF ReadyLooks, NextKept, rowVars
<1>36. ASSUME NEW m \in Agents, ReadyWrites(m) PROVE NextKept
  BY <1>36 DEF ReadyWrites, Greeted, NextKept, rowVars
<1> QED
  BY <1>1, <1>2, <1>3, <1>4, <1>5, <1>6, <1>7, <1>8, <1>9, <1>10, <1>11,
     <1>12, <1>13, <1>14, <1>15, <1>16, <1>17, <1>18, <1>19, <1>20, <1>21,
     <1>22, <1>23, <1>24, <1>25, <1>26, <1>27, <1>28, <1>29, <1>30, <1>31,
     <1>32, <1>33, <1>34, <1>35, <1>36
  DEF Next, OfficeStep, AgentStep, UserStep

\* A developer is inserted for a job without one, and claims it.
LEMMA DeveloperBorn ==
  ASSUME PostInv, DevEnv, LifeStep, Next,
         NEW n \in Agents, Born(n), role'[n] = "developer"
  PROVE  /\ ajob'[n] \in Jobs /\ jstate'[ajob'[n]] # "queued"
         /\ disp' # ajob'[n]
         /\ \A m \in Agents : Engaged(m) /\ ajob[m] = ajob'[n] => ~Engaged(m)'
<1> USE DEF PostInv, AssigneeInv
<1>0. n = next /\ next' # next
  BY DEF Born, LifeInv, RowInv, TypeOK
<1>1. CASE DispatchSpawn
  <2>1. PICK j \in Jobs : j = disp
    BY <1>1 DEF DispatchSpawn, LifeInv, RowInv, TypeOK
  <2>2. ajob'[n] = j
    BY <1>0, <1>1, <2>1 DEF DispatchSpawn, Insert, LifeInv, RowInv, TypeOK
  <2>3. jstate'[j] # "queued"
    BY <1>1, <2>1, SetResult DEF DispatchSpawn, ClaimFor, LifeInv
  <2>4. disp' # j
    BY <1>1, <2>1 DEF DispatchSpawn
  <2> QED
    BY <2>1, <2>2, <2>3, <2>4 DEF QueuedIsFree
<1>2. CASE ReviewSpawn
  BY <1>0, <1>2 DEF ReviewSpawn, Insert, LifeInv, RowInv, TypeOK
<1>3. ASSUME NEW m \in Agents, RetrySpawn(m)
      PROVE  /\ ajob'[n] \in Jobs /\ jstate'[ajob'[n]] # "queued"
             /\ disp' # ajob'[n]
             /\ \A i \in Agents : Engaged(i) /\ ajob[i] = ajob'[n] => ~Engaged(i)'
  <2>1. PICK j \in Jobs : j = ajob[m]
    BY <1>3, HasLife DEF RetrySpawn, Unborn
  <2>2. ajob'[n] = j /\ role[m] = "developer"
    BY <1>0, <1>3, <2>1 DEF RetrySpawn, Insert, LifeInv, RowInv, TypeOK
  <2>3. jstate'[j] # "queued"
    BY <1>3, <2>1, <2>2, SetResult DEF RetrySpawn, ClaimFor, LifeInv
  <2>4. Engaged(m) /\ disp' = disp
    BY <1>3, <2>2 DEF RetrySpawn, Engaged, spawnVars
  <2>5. m # n
    BY <1>0, <1>3, HasLife DEF RetrySpawn, Unborn, LifeInv, RowInv, TypeOK
  <2>6. ~Engaged(m)'
    BY <1>0, <1>3, <2>5
    DEF RetrySpawn, Insert, Engaged, Process, Living, RetryEnded, LifeInv, RowInv,
        TypeOK
  <2> QED
    BY <2>1, <2>2, <2>3, <2>4, <2>6 DEF QueuedIsFree, EngagedAlone
<1>4. ASSUME NEW m \in Agents, RestartSpawn(m) PROVE FALSE
  BY <1>4 DEF RestartSpawn, NeverRestarted
<1> QED
  BY <1>0, <1>1, <1>2, <1>3, <1>4, SpawnsStep DEF NextKept, Spawns

\* Every step keeps developers alone on their jobs.
LEMMA PostStep ==
  ASSUME PostInv, DevEnv, LifeStep, SpawnMove, JobMoves, Next
  PROVE  EngagedAlone' /\ QueuedIsFree'
<1>0. /\ LifeInv /\ NeverRestarted /\ ParkedInv /\ RetryEnded
      /\ "restart" \notin Env
  BY DEF PostInv, AssigneeInv, DevEnv
<1>1. EngagedAlone'
  <2> SUFFICES ASSUME NEW m \in Agents, NEW n \in Agents,
                      Engaged(m)', Engaged(n)', ajob'[m] = ajob'[n]
               PROVE  m = n
    BY DEF EngagedAlone
  <2>1. CASE Engaged(m) /\ UNCHANGED Row(m) /\ Engaged(n) /\ UNCHANGED Row(n)
    BY <2>1 DEF PostInv, EngagedAlone, Row
  <2>2. CASE Engaged(m) /\ UNCHANGED Row(m) /\ Born(n) /\ role'[n] = "developer"
    BY <2>2, DeveloperBorn DEF Row
  <2>3. CASE Engaged(n) /\ UNCHANGED Row(n) /\ Born(m) /\ role'[m] = "developer"
    BY <2>3, DeveloperBorn DEF Row
  <2>4. CASE Born(n) /\ Born(m)
    BY <2>4 DEF Born
  <2> QED
    BY <1>0, <2>1, <2>2, <2>3, <2>4, EngagedStep
<1>2. QueuedIsFree'
  <2> SUFFICES ASSUME NEW n \in Agents, Engaged(n)'
               PROVE  jstate'[ajob'[n]] # "queued" /\ disp' # ajob'[n]
    BY DEF QueuedIsFree
  <2>1. CASE Engaged(n) /\ UNCHANGED Row(n)
    <3>1. PICK j \in Jobs : j = ajob[n] /\ j = ajob'[n]
      BY <1>0, <2>1, HasLife DEF Engaged, Process, Unborn, Row
    <3>2. jstate[j] # "queued" /\ disp # j
      BY <2>1, <3>1 DEF PostInv, QueuedIsFree
    <3>3. jstate'[j] # "queued"
      <4>1. ~Returned(j)
        BY <2>1, <3>1, ReturnFrees
      <4> QED
        BY <3>2, <4>1 DEF JobMoves, JobMove, Claimed, Begun, Dropped, HandedIn,
                          Rejected, Overruled, Approved, MergedBack, Merged
    <3>4. disp' # j
      BY <3>2, ConstantsAssumption DEF SpawnMove, DispatchPick
    <3> QED
      BY <3>1, <3>3, <3>4
  <2>2. CASE Born(n) /\ role'[n] = "developer"
    BY <2>2, DeveloperBorn
  <2> QED
    BY <1>0, <2>1, <2>2, EngagedStep
<1> QED
  BY <1>1, <1>2

\* The invariant holds where nobody restarts agents or requeues jobs.
LEMMA PostCorrect ==
  ASSUME DevEnv
  PROVE  Spec => []PostInv
<1>0. "restart" \notin Env
  BY DEF DevEnv
<1>1. Init /\ AssigneeInv => PostInv
  BY DEF Init, PostInv, ParkedInv, RetryEnded, EngagedAlone, QueuedIsFree,
         Engaged, Process
<1>2. PostInv /\ AssigneeInv' /\ [Next]_vars => PostInv'
  <2> SUFFICES ASSUME PostInv, AssigneeInv', [Next]_vars PROVE PostInv'
    OBVIOUS
  <2>1. CASE Next
    <3>1. LifeStep /\ SpawnMove /\ JobMoves
      BY <2>1, LivesStep, SpawnStep, JobStep DEF PostInv, AssigneeInv, LifeInv
    <3>2. ParkedInv' /\ RetryEnded'
      BY <3>1, ParkedStep, RetryEndedStep DEF PostInv, AssigneeInv, DevEnv
    <3> QED
      BY <2>1, <3>1, <3>2, PostStep DEF PostInv
  <2>2. CASE UNCHANGED vars
    BY <2>2 DEF vars, jobVars, rowVars, spawnVars, PostInv, ParkedInv, RetryEnded,
                ParkedWith, EngagedAlone, QueuedIsFree, Engaged, Process, Living
  <2> QED
    BY <2>1, <2>2
<1> QED
  BY <1>0, AssigneeInvCorrect, <1>1, <1>2, PTL DEF Spec

\* A set whose elements are all the same has at most one.
LEMMA AtMostOne ==
  ASSUME NEW S, \A x, y \in S : x = y
  PROVE  Cardinality(S) <= 1
<1>1. CASE S = {}
  BY <1>1, FS_EmptySet
<1>2. ASSUME NEW x \in S PROVE Cardinality(S) <= 1
  <2>1. S = {x}
    BY <1>2
  <2> QED
    BY <2>1, FS_Singleton
<1> QED
  BY <1>1, <1>2

\* Two developers never run for the same job, whose worktree they would share:
\* whatever handshakes fail, processes end, waits return and offices restart.
LEMMA DevelopersAlone ==
  ASSUME DevEnv
  PROVE  Spec => []OneDeveloperPerJob
<1>1. PostInv => OneDeveloperPerJob
  <2> SUFFICES ASSUME PostInv, NEW j \in Jobs
               PROVE  Cardinality({n \in OfJob(j, "developer") : Process(n)}) <= 1
    BY DEF OneDeveloperPerJob
  <2>1. \A m, n \in {i \in OfJob(j, "developer") : Process(i)} : m = n
    BY DEF PostInv, EngagedAlone, Engaged, OfJob
  <2> QED
    BY <2>1, AtMostOne
<1> QED
  BY PostCorrect, <1>1, PTL
-----------------------------------------------------------------------------
(* A job has one reviewer at a time.                                       *)

\* Any agents at all include a latest one.
LEMMA Latest ==
  ASSUME NEW S \in SUBSET Agents, S # {}
  PROVE  \E x \in S : \A y \in S : y <= x
<1> DEFINE T == {k \in 0..MaxAgents : MaxAgents - k \in S}
<1>0. MaxAgents \in Nat /\ \A x \in S : x \in 1..MaxAgents
  BY ConstantsAssumption DEF Agents
<1>1. \A x \in S : MaxAgents - x \in T
  BY <1>0
<1>2. T # {} /\ T \subseteq Nat
  BY <1>1
<1>3. PICK k \in T : \A l \in T : ~(<<l, k>> \in OpToRel(<, Nat))
  <2> HIDE DEF T
  <2> QED
    BY <1>2, NatLessThanWellFounded, WFMin, Zenon
<1>4. \A l \in T : ~(l < k)
  BY <1>2, <1>3 DEF OpToRel
<1>5. MaxAgents - k \in S /\ \A y \in S : y <= MaxAgents - k
  <2>1. MaxAgents - k \in S /\ k \in Nat
    OBVIOUS
  <2>2. ASSUME NEW y \in S PROVE y <= MaxAgents - k
    <3>1. ~(MaxAgents - y < k)
      BY <1>1, <1>4
    <3> QED
      BY <1>0, <2>1, <3>1
  <2> QED
    BY <2>1, <2>2
<1> QED
  BY <1>5

\* reviewerForJob finds a reviewer whenever one lives.
LEMMA FoundIfAny ==
  ASSUME NEW j, ReviewerForJob(j) = {}
  PROVE  LivingByJobRole(j, "reviewer") = {}
<1>1. LivingByJobRole(j, "reviewer") \in SUBSET Agents
  BY DEF LivingByJobRole, OfJob
<1> QED
  BY <1>1, Latest DEF ReviewerForJob

\* The reviewers whose rows live and whose processes run or start.
Reviewing(n) == role[n] = "reviewer" /\ Living(n) /\ Process(n)
ReviewersAlone == \A m, n \in Agents :
                    Reviewing(m) /\ Reviewing(n) /\ ajob[m] = ajob[n] => m = n
\* spawnReviewer prepares a review only while its job has none.
ReviewIsFree == \A n \in Agents : Reviewing(n) => reviewing # ajob[n]

ReviewInv == /\ LifeInv /\ ParkedInv /\ ReviewersAlone /\ ReviewIsFree
             /\ \A n \in Agents : respawn[n] = "no"

\* Every step keeps reviewers alone, if all are inserted by spawnReviewer.
LEMMA ReviewStep ==
  ASSUME ReviewInv, LifeInv', LifeStep, SpawnMove, {"late", "restart"} \cap Env = {}
  PROVE  ReviewInv'
<1>1. \A n \in Agents : respawn'[n] = "no"
  BY DEF ReviewInv, LifeStep, Lives, Life, Idle, Started, Refused, Readied, Greets, Finished,
         Waits, Returns, Ended, Noticed, Killed, TooLate, Restarting, Replaced,
         Rebooted, Besides, Born
<1>2. ASSUME NEW n \in Agents, Reviewing(n)'
      PROVE  \/ Reviewing(n) /\ ajob'[n] = ajob[n] /\ ajob[n] \in Jobs
             \/ Born(n) /\ ForReview(n)
  <2>1. \/ Living(n) /\ Process(n) /\ UNCHANGED Row(n)
        \/ Born(n)
    BY <1>2, PresentStep DEF Reviewing, ReviewInv
  <2>2. CASE Living(n) /\ Process(n) /\ UNCHANGED Row(n)
    BY <1>2, <2>2, HasLife DEF Row, Reviewing, Unborn, ReviewInv
  <2>3. CASE Born(n)
    BY <1>2, <2>3 DEF Born, Dispatched, Replaces, Replaced, Row, Reviewing, ReviewInv
  <2> QED
    BY <2>1, <2>2, <2>3
<1>3. ReviewersAlone'
  <2> SUFFICES ASSUME NEW m \in Agents, NEW n \in Agents,
                      Reviewing(m)', Reviewing(n)', ajob'[m] = ajob'[n]
               PROVE  m = n
    BY DEF ReviewersAlone
  <2> QED
    BY <1>2 DEF ReviewInv, ReviewersAlone, ReviewIsFree, ForReview, Row, Born
<1>4. ReviewIsFree'
  <2> SUFFICES ASSUME NEW n \in Agents, Reviewing(n)' PROVE reviewing' # ajob'[n]
    BY DEF ReviewIsFree
  <2>1. CASE Reviewing(n) /\ ajob'[n] = ajob[n] /\ ajob[n] \in Jobs
    <3>1. reviewing # ajob[n]
      BY <2>1 DEF ReviewInv, ReviewIsFree
    <3>2. ASSUME NEW j \in Jobs, ReviewBegin(j) PROVE j # ajob[n]
      BY <2>1, <3>2, FoundIfAny
      DEF ReviewBegin, LivingByJobRole, OfJob, Reviewing
    <3>3. reviewing' \in {reviewing, NoJob} \/ \E j \in Jobs : ReviewBegin(j) /\ reviewing' = j
      BY DEF SpawnMove, ReviewBegin
    <3> QED
      BY <2>1, <3>1, <3>2, <3>3, ConstantsAssumption
  <2>2. CASE Born(n) /\ ForReview(n)
    BY <2>2, ConstantsAssumption
    DEF ForReview, Row, ReviewInv, LifeInv, RowInv, TypeOK
  <2> QED
    BY <1>2, <2>1, <2>2
<1> QED
  BY <1>1, <1>3, <1>4, ParkedStep DEF ReviewInv

\* The invariant holds where handshakes are in time and nobody restarts agents.
LEMMA ReviewCorrect ==
  ASSUME {"late", "restart"} \cap Env = {}
  PROVE  Spec => []ReviewInv
<1>1. Init /\ LifeInv => ReviewInv
  BY DEF Init, ReviewInv, ParkedInv, ReviewersAlone, ReviewIsFree, Reviewing, Process
<1>2. ReviewInv /\ LifeInv' /\ [Next]_vars => ReviewInv'
  <2> SUFFICES ASSUME ReviewInv, LifeInv', [Next]_vars PROVE ReviewInv'
    OBVIOUS
  <2>1. LifeStep
    BY LivesStep, StutterLives DEF ReviewInv
  <2>2. SpawnMove
    BY SpawnStep DEF vars, spawnVars, SpawnMove
  <2> QED
    BY <2>1, <2>2, ReviewStep
<1> QED
  BY LifeCorrect, <1>1, <1>2, PTL DEF Spec

\* One worker and one reviewer at a time: a job's developers would share its
\* worktree, and its reviewers its verdict. Reviewers are spawned by three
\* callers that each look first (developerDone, handleReviewerDeath,
\* resumePendingReviews). Where a handshake may be late or users restart agents,
\* a replacement can meet an agent that was spawned or survived meanwhile; where
\* jobs are requeued, a developer of the round before.
THEOREM OnePerPost ==
  ASSUME {"late", "restart", "requeue", "requeueAny"} \cap Env = {}
  PROVE  Spec => []OneAgentPerPost
<1>0. DevEnv /\ {"late", "restart"} \cap Env = {}
  BY DEF DevEnv
<1>1. ReviewInv => OneReviewerPerJob
  <2> SUFFICES ASSUME ReviewInv, NEW j \in Jobs
               PROVE  Cardinality({n \in LivingByJobRole(j, "reviewer") : Process(n)}) <= 1
    BY DEF OneReviewerPerJob
  <2>1. \A m, n \in {i \in LivingByJobRole(j, "reviewer") : Process(i)} : m = n
    BY DEF ReviewInv, ReviewersAlone, Reviewing, LivingByJobRole, OfJob
  <2> QED
    BY <2>1, AtMostOne
<1>2. OneDeveloperPerJob /\ OneReviewerPerJob => OneAgentPerPost
  BY DEF OneAgentPerPost
<1> QED
  BY <1>0, <1>1, <1>2, DevelopersAlone, ReviewCorrect, PTL
-----------------------------------------------------------------------------
(* Developers that have not begun, and jobs that are past them.            *)

\* The states of a job that its developer has handed in once.
Late == {"review", "rework", "merging", "done"}

\* A developer whose agent is not ready yet, or that never was and is about to
\* be replaced, has not begun; a job that is being dispatched may have ended.
Unready(n) == /\ role[n] = "developer"
              /\ \/ sess[n] = "starting"
                 \/ astate[n] = "spawning" /\ sess[n] # "none"
                 \/ respawn[n] = "retry"
UnreadyIsEarly == \A n \in Agents : Unready(n) => jstate[ajob[n]] \notin Late
DispPending == disp # NoJob => jstate[disp] \in {"queued", "cancelled", "failed"}

EarlyInv == PostInv /\ HandlerInv /\ UnreadyIsEarly /\ DispPending

\* An agent that is not ready is engaged.
LEMMA UnreadyEngaged ==
  ASSUME PostInv, NEW n \in Agents, Unready(n)
  PROVE  Engaged(n) /\ ajob[n] \in Jobs /\ n < next
<1>1. Engaged(n)
  BY DEF Unready, Engaged, Process, Living, LivingStates, PostInv, AssigneeInv,
         LifeInv, RowInv, TypeOK
<1> QED
  BY <1>1, HasLife DEF Engaged, Process, Unborn, PostInv, AssigneeInv

\* Nobody hands in the job of a developer that has not begun.
LEMMA StaysEarly ==
  ASSUME EarlyInv, JobMoves, NEW n \in Agents, Unready(n)
  PROVE  jstate'[ajob[n]] \notin Late
<1>1. PICK j \in Jobs : j = ajob[n]
  BY UnreadyEngaged DEF EarlyInv
<1>2. jstate[j] \notin Late
  BY <1>1 DEF EarlyInv, UnreadyIsEarly
<1>3. ASSUME NEW m \in Agents, ajob[m] = j, DeveloperDone(m) PROVE FALSE
  <2>1. m = n
    BY <1>1, <1>3, UnreadyEngaged
    DEF DeveloperDone, Acts, Engaged, Process, EarlyInv, PostInv, EngagedAlone
  <2> QED
    BY <1>3, <2>1 DEF DeveloperDone, Acts, Unready, EarlyInv, PostInv, RetryEnded
<1>4. ASSUME NEW m \in Agents, ajob[m] = j, MergeFails(m) PROVE jstate[j] = "cancelled"
  BY <1>2, <1>4 DEF MergeFails, EarlyInv, HandlerInv, HandlersHoldJobs, Late
<1> QED
  BY <1>1, <1>2, <1>3, <1>4
  DEF JobMoves, JobMove, Returned, Claimed, Begun, Dropped, HandedIn, Rejected,
      Overruled, Approved, MergedBack, Merged, Late, ValidTransition, Edges

\* Agents become unready only by being inserted.
LEMMA UnreadyStep ==
  ASSUME LifeInv, ParkedInv, LifeStep, NEW n \in Agents, Unready(n)'
  PROVE  \/ Unready(n) /\ UNCHANGED Row(n)
         \/ Born(n) /\ role'[n] = "developer"
<1>1. CASE Lives(n)
  BY <1>1
  DEF Lives, Row, Life, Idle, Started, Refused, Readied, MayReady, Greets, Finished,
      Acts, Waits, Returns, Ended, Noticed, Killed, TooLate, Restarting,
      Dies, Replaced, Rebooted, Living, LivingStates, Unready
<1>2. CASE Besides(n)
  BY <1>2 DEF Besides, Row, Idle, Replaced, Unready
<1> QED
  BY <1>1, <1>2 DEF LifeStep, Unready

\* Every step keeps both.
LEMMA EarlyStep ==
  ASSUME EarlyInv, DevEnv, LifeStep, SpawnMove, JobMoves
  PROVE  UnreadyIsEarly' /\ DispPending'
<1> USE DEF EarlyInv, PostInv, AssigneeInv
<1>1. disp # NoJob => disp \in Jobs /\ jstate'[disp] \notin Late
  BY DEF DispPending, LifeInv, RowInv, TypeOK, JobMoves, JobMove, Returned, Claimed,
         Begun, Dropped, HandedIn, Rejected, Overruled, Approved, MergedBack,
         Merged, Late, ValidTransition, Edges
<1>2. UnreadyIsEarly'
  <2> SUFFICES ASSUME NEW n \in Agents, Unready(n)'
               PROVE  jstate'[ajob'[n]] \notin Late
    BY DEF UnreadyIsEarly
  <2>1. CASE Unready(n) /\ UNCHANGED Row(n)
    BY <2>1, StaysEarly DEF Row
  <2>2. CASE Born(n) /\ role'[n] = "developer"
    <3>1. CASE Dispatched(n)
      BY <1>1, <3>1 DEF Dispatched, Row
    <3>2. ASSUME NEW m \in Agents, Replaces(n, m) PROVE jstate'[ajob'[n]] \notin Late
      <4>1. Unready(m) /\ ajob'[n] = ajob[m]
        BY <2>2, <3>2
        DEF Replaces, Replaced, Unready, NeverRestarted, LifeInv, RowInv, TypeOK
      <4> QED
        BY <4>1, StaysEarly
    <3> QED
      BY <2>2, <3>1, <3>2 DEF Born, ForReview, Row
  <2> QED
    BY <2>1, <2>2, UnreadyStep
<1>3. DispPending'
  <2> SUFFICES ASSUME disp' # NoJob
               PROVE  jstate'[disp'] \in {"queued", "cancelled", "failed"}
    BY DEF DispPending
  <2>1. CASE disp' = disp
    <3>1. PICK j \in Jobs : j = disp /\ j = disp'
      BY <1>1, <2>1
    <3>2. ~Claimed(j)
      BY <2>1, <3>1, ConstantsAssumption
      DEF Claimed, DispatchSpawn, RetrySpawn, RestartSpawn, NeverRestarted,
          QueuedIsFree, Engaged
    <3> QED
      BY <3>1, <3>2
      DEF DispPending, JobMoves, JobMove, Returned, Begun, Dropped, HandedIn,
          Rejected, Overruled, Approved, MergedBack, Merged, ValidTransition, Edges
  <2>2. ASSUME NEW j \in Jobs, DispatchPick(j) PROVE jstate'[disp'] = "queued"
    BY <2>2 DEF DispatchPick, jobVars
  <2> QED
    BY <2>1, <2>2 DEF SpawnMove
<1> QED
  BY <1>2, <1>3

\* The invariant holds where nobody restarts agents or requeues jobs.
LEMMA EarlyCorrect ==
  ASSUME DevEnv
  PROVE  Spec => []EarlyInv
<1>0. SafeEnv
  BY DEF DevEnv, SafeEnv
<1>1. Init /\ PostInv /\ HandlerInv => EarlyInv
  BY DEF Init, EarlyInv, UnreadyIsEarly, Unready, DispPending
<1>2. EarlyInv /\ PostInv' /\ HandlerInv' /\ [Next]_vars => EarlyInv'
  <2> SUFFICES ASSUME EarlyInv, PostInv', HandlerInv', [Next]_vars PROVE EarlyInv'
    OBVIOUS
  <2>1. LifeStep /\ SpawnMove /\ JobMoves
    BY LivesStep, SpawnStep, JobStep, StutterLives, JobStutter
    DEF EarlyInv, PostInv, AssigneeInv, LifeInv, SpawnMove, vars, spawnVars
  <2> QED
    BY <2>1, EarlyStep DEF EarlyInv
<1> QED
  BY <1>0, PostCorrect, HandlersCorrect, <1>1, <1>2, PTL DEF Spec
-----------------------------------------------------------------------------
(* The merge retires the developer.                                        *)

\* In this section every developer is inserted by the dispatcher.
AllDispatched == \A n \in Agents : /\ respawn[n] = "no"
                                   /\ role[n] = "developer" => via[n] = "dispatch"

Running(n) == role[n] = "developer" /\ sess[n] = "running"
RunningAssigned == \A n \in Agents : Running(n) => assignee[ajob[n]] = n

\* The handler of a merging job read its developer; when the job is done that
\* developer is retired.
HandlerSaw ==
  \A m, n \in Agents :
    /\ verdict[m] # "idle" /\ jstate[ajob[m]] = "merging"
    /\ Running(n) /\ ajob[n] = ajob[m]
    => seen[m] = n
DoneRetired ==
  \A n \in Agents : Running(n) /\ jstate[ajob[n]] = "done" => ~Living(n)

MergeInv == /\ EarlyInv /\ AllDispatched
            /\ RunningAssigned /\ HandlerSaw /\ DoneRetired

SteadyEnv == {"late", "restart", "requeue", "requeueAny"} \cap Env = {}

\* Without timeouts and restarts by users nobody is replaced.
LEMMA DispatchedStep ==
  ASSUME LifeInv, AllDispatched, LifeStep, SteadyEnv
  PROVE  AllDispatched'
<1> SUFFICES ASSUME NEW n \in Agents
             PROVE  respawn'[n] = "no" /\ (role'[n] = "developer" => via'[n] = "dispatch")
  BY DEF AllDispatched
<1>1. respawn[n] = "no" /\ (role[n] = "developer" => via[n] = "dispatch")
  BY DEF AllDispatched
<1>2. CASE Lives(n)
  BY <1>1, <1>2
  DEF Lives, Row, Life, Idle, Started, Refused, Readied, Greets, Finished, Waits, Returns,
      Ended, Noticed, Killed, TooLate, Restarting, Replaced, Rebooted, SteadyEnv
<1>3. CASE Besides(n)
  BY <1>1, <1>3 DEF Besides, Row, Idle, Replaced
<1>4. CASE Born(n)
  BY <1>1, <1>4 DEF Born, Dispatched, ForReview, Replaces, Replaced, Row, AllDispatched
<1> QED
  BY <1>2, <1>3, <1>4 DEF LifeStep

\* A running process was running or is started by this step.
LEMMA RunningStep ==
  ASSUME LifeInv, LifeStep, NEW n \in Agents, Running(n)'
  PROVE  UNCHANGED Row(n) /\ role[n] = "developer" /\ (Running(n) \/ Started(n))
<1>1. CASE Lives(n)
  BY <1>1
  DEF Lives, Row, Life, Idle, Started, Refused, Readied, Greets, Finished, Waits, Returns,
      Ended, Noticed, Killed, TooLate, Restarting, Dies, Replaced, Rebooted, Running,
      LifeInv, RowInv, TypeOK
<1>2. CASE Besides(n)
  BY <1>2 DEF Besides, Row, Idle, Replaced, Running
<1> QED
  BY <1>1, <1>2 DEF LifeStep, Born, Running

\* A developer that is only being started has a job that is not merging yet.
LEMMA StartedEarly ==
  ASSUME EarlyInv, JobMoves, NEW n \in Agents, role[n] = "developer", Started(n)
  PROVE  jstate[ajob[n]] \notin Late /\ jstate'[ajob[n]] \notin Late
<1>1. Unready(n)
  BY DEF Started, Unready
<1> QED
  BY <1>1, StaysEarly DEF EarlyInv, UnreadyIsEarly

\* Every step keeps the running developer assigned.
LEMMA AssignedStep ==
  ASSUME MergeInv, EarlyInv', LifeStep, NamesMove, JobMoves
  PROVE  RunningAssigned'
<1> SUFFICES ASSUME NEW n \in Agents, Running(n)' PROVE assignee'[ajob'[n]] = n
  BY DEF RunningAssigned
<1> USE DEF MergeInv, EarlyInv, PostInv, AssigneeInv
<1>1. UNCHANGED Row(n) /\ role[n] = "developer" /\ (Running(n) \/ Started(n))
  BY RunningStep
<1>2. PICK j \in Jobs : j = ajob[n] /\ j = ajob'[n]
  BY <1>1, HasLife DEF Running, Started, Unborn, Row
<1>3. CASE Started(n)
  <2>1. SessionStart(n) /\ via[n] = "dispatch"
    BY <1>1, <1>3 DEF NamesMove, AllDispatched
  <2>2. assignee' = [assignee EXCEPT ![j] = n]
    BY <1>2, <2>1 DEF SessionStart, Recorders
  <2>3. assignee \in [Jobs -> Agents \cup {0}]
    BY DEF LifeInv, RowInv, TypeOK
  <2> QED
    BY <1>2, <2>2, <2>3
<1>4. CASE Running(n) /\ ~Started(n)
  <2>1. assignee[j] = n
    BY <1>2, <1>4 DEF RunningAssigned
  <2>2. jstate'[j] # "queued"
    <3>1. Engaged(n)'
      BY DEF Running, Engaged, Process
    <3> QED
      BY <1>2, <3>1 DEF QueuedIsFree
  <2>3. ASSUME NEW i \in Agents, Recorded(i, j) PROVE FALSE
    <3>1. role[i] = "developer"
      BY <2>3 DEF Recorded, Recorders, NeverRestarted, DispatchedDevelop
    <3>2. Engaged(i) /\ Engaged(n)
      BY <1>4, <2>3, <3>1 DEF Recorded, Started, Engaged, Process, Running
    <3>3. i = n
      BY <1>2, <2>3, <3>2 DEF Recorded, EngagedAlone
    <3> QED
      BY <1>4, <2>3, <3>3 DEF Recorded
  <2>4. AssigneeMove(j)
    BY DEF NamesMove
  <2> QED
    BY <1>2, <2>1, <2>2, <2>3, <2>4 DEF AssigneeMove
<1> QED
  BY <1>1, <1>3, <1>4

\* And known to the handler that merges its job.
LEMMA SawStep ==
  ASSUME MergeInv, EarlyInv', LifeStep, NamesMove, JobMoves
  PROVE  HandlerSaw'
<1> SUFFICES ASSUME NEW m \in Agents, NEW n \in Agents, verdict'[m] # "idle",
                    jstate'[ajob'[m]] = "merging", Running(n)', ajob'[n] = ajob'[m]
             PROVE  seen'[m] = n
  BY DEF HandlerSaw
<1> USE DEF MergeInv, EarlyInv, PostInv, AssigneeInv
<1>1. UNCHANGED Row(n) /\ role[n] = "developer" /\ (Running(n) \/ Started(n))
  BY RunningStep
<1>2. PICK j \in Jobs : j = ajob[n] /\ j = ajob'[n]
  BY <1>1, HasLife DEF Running, Started, Unborn, Row
<1>3. Running(n)
  BY <1>1, <1>2, StartedEarly DEF Late
<1>4. assignee[j] = n
  BY <1>2, <1>3 DEF RunningAssigned
<1>5. SeenMove(m)
  BY DEF NamesMove
<1>6. CASE seen'[m] = seen[m] /\ verdict[m] # "idle"
  <2>1. ajob[m] = j
    BY <1>2, <1>6, HasLife, RowsStay DEF Unborn, Row
  <2>2. jstate[j] \in {"merging", "cancelled"}
    BY <1>6, <2>1 DEF HandlerInv, HandlersHoldJobs
  <2>3. jstate[j] = "merging"
    BY <1>2, <2>2 DEF JobMoves, JobMove, Returned, Claimed, Begun, Dropped, HandedIn,
       Rejected, Overruled, Approved, MergedBack, Merged
  <2> QED
    BY <1>2, <1>3, <1>6, <2>1, <2>3 DEF HandlerSaw
<1>7. CASE VerdictMerge(m)
  <2>1. ajob[m] = j /\ seen'[m] = assignee[ajob[m]]
    BY <1>2, <1>7 DEF VerdictMerge, rowVars, LifeInv, RowInv, TypeOK
  <2> QED
    BY <1>4, <2>1
<1> QED
  BY <1>5, <1>6, <1>7 DEF SeenMove

\* And dead when its job is done.
LEMMA RetiredStep ==
  ASSUME MergeInv, LifeStep, JobMoves
  PROVE  DoneRetired'
<1> SUFFICES ASSUME NEW n \in Agents, Running(n)', jstate'[ajob'[n]] = "done"
             PROVE  ~Living(n)'
  BY DEF DoneRetired
<1> USE DEF MergeInv, EarlyInv, PostInv, AssigneeInv
<1>1. UNCHANGED Row(n) /\ role[n] = "developer" /\ (Running(n) \/ Started(n))
  BY RunningStep
<1>2. PICK j \in Jobs : j = ajob[n] /\ j = ajob'[n]
  BY <1>1, HasLife DEF Running, Started, Unborn, Row
<1>3. Running(n)
  BY <1>1, <1>2, StartedEarly DEF Late
<1>4. jstate[j] = "done" \/ Merged(j)
  BY <1>2 DEF JobMoves, JobMove, Returned, Claimed, Begun, Dropped, HandedIn,
     Rejected, Overruled, Approved, MergedBack, Merged
<1>5. CASE jstate[j] = "done"
  <2>1. ~Living(n)
    BY <1>2, <1>3, <1>5 DEF DoneRetired
  <2>2. ~Born(n)
    BY <1>3 DEF Born, Running, LifeInv, RowInv, RowsInOrder, Unborn, TypeOK
  <2> QED
    BY <2>1, <2>2, PresentStep DEF Running, Process
<1>6. CASE Merged(j)
  <2>1. PICK m \in Agents : ajob[m] = j /\ Finalize(m)
    BY <1>6 DEF Merged
  <2>2. jstate[j] = "merging" /\ verdict[m] # "idle"
    BY <1>6, <2>1 DEF Merged, Finalize
  <2>3. seen[m] = n
    BY <1>2, <1>3, <2>1, <2>2 DEF HandlerSaw
  <2>4. Kill({seen[m]} \ {0})
    BY <2>1, <2>2 DEF Finalize
  <2>5. n \in {seen[m]} \ {0}
    BY <2>3 DEF Agents
  <2> QED
    BY <2>4, <2>5 DEF Kill, Living, LivingStates
<1> QED
  BY <1>4, <1>5, <1>6

\* The invariant holds where agents are ready in time and users neither restart
\* them nor requeue jobs.
LEMMA MergeCorrect ==
  ASSUME SteadyEnv
  PROVE  Spec => []MergeInv
<1>0. DevEnv
  BY DEF DevEnv, SteadyEnv
<1>1. Init /\ EarlyInv => MergeInv
  BY DEF Init, MergeInv, AllDispatched, RunningAssigned, HandlerSaw, DoneRetired,
         Running
<1>2. MergeInv /\ EarlyInv' /\ [Next]_vars => MergeInv'
  <2> SUFFICES ASSUME MergeInv, EarlyInv', [Next]_vars PROVE MergeInv'
    OBVIOUS
  <2>1. LifeStep /\ NamesMove /\ JobMoves
    BY LivesStep, NamesStep, JobStep, StutterLives, JobStutter
    DEF MergeInv, EarlyInv, PostInv, AssigneeInv, LifeInv
  <2>2. AllDispatched'
    BY <2>1, DispatchedStep DEF MergeInv, EarlyInv, PostInv, AssigneeInv
  <2> QED
    BY <2>1, <2>2, AssignedStep, SawStep, RetiredStep DEF MergeInv
<1> QED
  BY <1>0, EarlyCorrect, <1>1, <1>2, PTL DEF Spec

\* When a merge is over, the developer of the job that it made done is retired
\* (finalizeMergingJob kills the assignee that the handler read when it began):
\* nobody is left who would go on working on what is merged. A replacement after
\* a late handshake is not recorded as the assignee and is left.
THEOREM DeveloperRetired ==
  ASSUME SteadyEnv
  PROVE  Spec => []MergedRetiresDeveloper
<1>1. MergeInv => MergedRetiresDeveloper
  BY DEF MergeInv, DoneRetired, MergedRetiresDeveloper, OfJob, Running
<1> QED
  BY MergeCorrect, <1>1, PTL
-----------------------------------------------------------------------------
(* Nobody is left behind: a job that is worked on has its developer.       *)

AttendedEnv == /\ {"startfail", "restart", "conflict", "requeue", "requeueAny"} \cap Env = {}
               /\ ~({"late", "slow"} \subseteq Env)

\* The developer lives and its end will be noticed, or it will be replaced.
Attending(n) == /\ role[n] = "developer"
                /\ (Living(n) /\ sess[n] # "none") \/ respawn[n] # "no"

\* Under review too: handleReviewerDeath and the rejection rely on it.
LostAttended == \A j \in Jobs : jstate[j] \in LostStates =>
                  \E n \in Agents : Attending(n) /\ ajob[n] = j

\* While its job needs it, a developer goes on attending or is replaced.
Stays(n) == Attending(n)' \/ RetrySpawn(n)

\* Inserting a row leaves those that exist alone.
LEMMA InsertStays ==
  ASSUME LifeInv, NEW r, NEW i, NEW k, NEW v, Insert(r, i, k, v),
         NEW n \in Agents, Attending(n), respawn'[n] = respawn[n]
  PROVE  Stays(n)
<1>1. n < next
  BY HasLife DEF Attending, Unborn
<1>2. UNCHANGED <<Row(n), astate[n], sess[n]>>
  BY <1>1, InsertLife DEF LifeInv, RowInv, TypeOK, Agents
<1> QED
  BY <1>2 DEF Stays, Attending, Living, Row

\* A developer attends its job as long as that is not given up or returned:
\* KillAgent is called for developers only with the job's end, and a death is
\* always answered (handleDeath).
LEMMA StaysStep ==
  ASSUME EarlyInv, AttendedEnv, Next, NEW n \in Agents, Attending(n),
         jstate[ajob[n]] \in LostStates, jstate'[ajob[n]] \in LostStates
  PROVE  Stays(n)
<1>a. ajob[n] \in Jobs
  BY HasLife DEF Attending, Unborn, EarlyInv, PostInv, AssigneeInv
<1>b. RowInv /\ ajob[n] \in Jobs
  BY <1>a DEF EarlyInv, PostInv, AssigneeInv, LifeInv
<1>c. ASSUME NEW i \in Jobs \cup {NoJob}, CancelJob(i) PROVE Stays(n)
  <2>1. i # ajob[n]
    BY <1>b, <1>c, SetResult DEF CancelJob, LostStates
  <2> QED
    BY <1>c, <2>1 DEF CancelJob, Kill, LivingByJob, Stays, Attending, Living, rowVars
<1>1. ASSUME NEW j \in Jobs, DispatchPick(j) PROVE Stays(n)
  BY <1>1 DEF DispatchPick, Stays, Attending, Living, rowVars
<1>2. ASSUME NEW j \in Jobs, ReviewBegin(j) PROVE Stays(n)
  BY <1>2 DEF ReviewBegin, Stays, Attending, Living, rowVars
<1>3. ASSUME DispatchPrepFails PROVE Stays(n)
  BY <1>3 DEF DispatchPrepFails, Stays, Attending, Living, rowVars
<1>4. ASSUME DispatchSpawn PROVE Stays(n)
  BY <1>4, InsertStays DEF DispatchSpawn, Stays, Attending, Living, rowVars,
         EarlyInv, PostInv, AssigneeInv
<1>5. ASSUME DispatchHalted PROVE Stays(n)
  BY <1>5 DEF DispatchHalted, Stays, Attending, Living, rowVars
<1>6. ASSUME ReviewSpawn PROVE Stays(n)
  BY <1>6, InsertStays DEF ReviewSpawn, Stays, Attending, Living, rowVars,
         EarlyInv, PostInv, AssigneeInv
<1>7. ASSUME ReviewHalted PROVE Stays(n)
  BY <1>7 DEF ReviewHalted, Stays, Attending, Living, rowVars
<1>8. ASSUME NEW m \in Agents, SessionStart(m) PROVE Stays(n)
  BY <1>8 DEF SessionStart, Stays, Attending, Living, rowVars, EarlyInv,
         PostInv, AssigneeInv, LifeInv, RowInv, TypeOK
<1>9. ASSUME NEW m \in Agents, SessionStartFails(m) PROVE Stays(n)
  BY <1>9 DEF SessionStartFails, Stays, Attending, Living, rowVars,
         AttendedEnv, Event
<1>10. ASSUME NEW m \in Agents, MergeLands(m) PROVE Stays(n)
  BY <1>10 DEF MergeLands, Stays, Attending, Living, rowVars
<1>11. ASSUME NEW m \in Agents, MergeFails(m) PROVE Stays(n)
  BY <1>11 DEF MergeFails, Stays, Attending, Living, rowVars
<1>12. ASSUME NEW m \in Agents, Finalize(m) PROVE Stays(n)
  <2>1. CASE jstate[ajob[m]] = "merging"
    <3>1. verdict[m] # "idle" /\ Kill({seen[m]} \ {0})
      BY <1>12, <2>1 DEF Finalize
    <3>2. n # seen[m]
      BY <2>1, <3>1 DEF LostStates, EarlyInv, PostInv, AssigneeInv, SeenIsDeveloper,
         OfJob, Agents
    <3> QED
      BY <1>12, <3>1, <3>2 DEF Finalize, Kill, Stays, Attending, Living, rowVars
  <2>2. CASE jstate[ajob[m]] # "merging"
    BY <1>12, <2>2 DEF Finalize, Kill, Stays, Attending, Living, rowVars,
       EarlyInv, PostInv, AssigneeInv, LifeInv, RowInv, TypeOK
  <2> QED
    BY <2>1, <2>2
<1>13. ASSUME NEW m \in Agents, Reap(m) PROVE Stays(n)
  BY <1>13 DEF Reap, Stays, Attending, Living, rowVars, EarlyInv, PostInv,
         AssigneeInv, LifeInv, RowInv, TypeOK
<1>14. ASSUME NEW m \in Agents, WatchExit(m) PROVE Stays(n)
  <2>1. CASE m = n /\ Living(n)
    <3>1. JobAfterDeath(n)
      BY <1>14, <2>1 DEF WatchExit
    <3>2. \E to \in {"failed", "queued"} : SetJob(ajob[n], to)
      BY <3>1 DEF JobAfterDeath, LostTo, Attending
    <3> QED
      BY <1>b, <3>2, SetResult DEF LostStates, EarlyInv, PostInv, AssigneeInv, LifeInv
  <2>2. CASE ~(m = n /\ Living(n))
    BY <1>14, <2>2 DEF WatchExit, Stays, Attending, Living, rowVars,
       EarlyInv, PostInv, AssigneeInv, LifeInv, RowInv, TypeOK
  <2> QED
    BY <2>1, <2>2
<1>15. ASSUME NEW m \in Agents, HandshakeTimeout(m) PROVE Stays(n)
  <2>1. CASE m = n /\ ~MayRetry(m)
    <3>1. TryTransition(ajob[n], "failed")
      BY <1>15, <2>1 DEF HandshakeTimeout
    <3>2. ValidTransition(jstate[ajob[n]], "failed")
      BY DEF LostStates, ValidTransition, Edges
    <3> QED
      BY <1>b, <3>1, <3>2, SetResult
      DEF TryTransition, AfterTransition, LostStates, EarlyInv, PostInv, AssigneeInv,
          LifeInv
  <2>2. CASE m = n /\ MayRetry(m)
    BY <1>15, <2>2 DEF HandshakeTimeout, Stays, Attending, rowVars,
       EarlyInv, PostInv, AssigneeInv, LifeInv, RowInv, TypeOK
  <2>3. CASE m # n
    BY <1>15, <2>3 DEF HandshakeTimeout, Kill, Stays, Attending, Living, rowVars,
       EarlyInv, PostInv, AssigneeInv, LifeInv, RowInv, TypeOK
  <2> QED
    BY <2>1, <2>2, <2>3
<1>16. ASSUME NEW m \in Agents, RetrySpawn(m) PROVE Stays(n)
  <2>1. CASE m = n
    BY <1>16, <2>1 DEF Stays
  <2>2. CASE m # n
    <3>1. respawn'[n] = respawn[n]
      BY <1>16, <2>2 DEF RetrySpawn, EarlyInv, PostInv, AssigneeInv, LifeInv, RowInv, TypeOK
    <3> QED
      BY <1>16, <3>1, InsertStays DEF RetrySpawn, EarlyInv, PostInv, AssigneeInv
  <2> QED
    BY <2>1, <2>2
<1>17. ASSUME NEW m \in Agents, RetryDeferred(m) PROVE Stays(n)
  <2>1. CASE m = n
    <3>1. Unready(n)
      BY <1>17, <2>1 DEF RetryDeferred, Attending, Unready
    <3>2. jstate[ajob[n]] # "review"
      BY <3>1 DEF EarlyInv, UnreadyIsEarly, Late
    <3>3. SetJob(ajob[n], "queued")
      BY <1>17, <2>1, <3>2 DEF RetryDeferred, Attending, LostStates
    <3> QED
      BY <1>b, <3>3, SetResult DEF LostStates, EarlyInv, PostInv, AssigneeInv, LifeInv
  <2>2. CASE m # n
    BY <1>17, <2>2 DEF RetryDeferred, Stays, Attending, Living, rowVars,
       EarlyInv, PostInv, AssigneeInv, LifeInv, RowInv, TypeOK
  <2> QED
    BY <2>1, <2>2
<1>18. ASSUME NEW m \in Agents, RestartSpawn(m) PROVE Stays(n)
  BY <1>18 DEF RestartSpawn, Stays, Attending, Living, rowVars, EarlyInv,
         PostInv, AssigneeInv, NeverRestarted
<1>19. ASSUME NEW m \in Agents, WaitReturns(m) PROVE Stays(n)
  BY <1>19 DEF WaitReturns, Stays, Attending, Living, rowVars, EarlyInv,
         PostInv, AssigneeInv, LifeInv, RowInv, TypeOK, LivingStates
<1>20. ASSUME NEW m \in Agents, Ready(m) PROVE Stays(n)
  BY <1>20 DEF Ready, Greeted, Stays, Attending, Living, rowVars, EarlyInv, PostInv,
         AssigneeInv, LifeInv, RowInv, TypeOK, LivingStates
<1>21. ASSUME NEW m \in Agents, DeveloperDone(m) PROVE Stays(n)
  <2>1. n \notin Superseded(ajob[m])
    BY DEF Superseded, ReviewerForJob, LivingByJobRole, OfJob, Attending
  <2> QED
    BY <1>21, <2>1 DEF DeveloperDone, Kill, Stays, Attending, Living, rowVars
<1>22. ASSUME NEW m \in Agents, VerdictMerge(m) PROVE Stays(n)
  BY <1>22 DEF VerdictMerge, Stays, Attending, Living, rowVars
<1>23. ASSUME NEW m \in Agents, VerdictReject(m) PROVE Stays(n)
  BY <1>23 DEF VerdictReject, Stays, Attending, Living, rowVars
<1>24. ASSUME NEW m \in Agents, ReviewerDone(m) PROVE Stays(n)
  BY <1>24 DEF ReviewerDone, Stays, Attending, Living, rowVars, EarlyInv,
         PostInv, AssigneeInv, LifeInv, RowInv, TypeOK, LivingStates
<1>25. ASSUME NEW m \in Agents, Wait(m) PROVE Stays(n)
  BY <1>25 DEF Wait, Stays, Attending, Living, rowVars, EarlyInv, PostInv,
         AssigneeInv, LifeInv, RowInv, TypeOK, LivingStates, Acts
<1>26. ASSUME NEW m \in Agents, ProcessExit(m) PROVE Stays(n)
  BY <1>26 DEF ProcessExit, Stays, Attending, Living, rowVars, EarlyInv,
         PostInv, AssigneeInv, LifeInv, RowInv, TypeOK
<1>27. ASSUME NEW j \in Jobs, UserCancels(j) PROVE Stays(n)
  BY <1>27, <1>c DEF UserCancels, Stays, Attending, Living, rowVars
<1>28. ASSUME NEW j \in Jobs, UserRequeues(j) PROVE Stays(n)
  BY <1>28 DEF UserRequeues, Stays, Attending, Living, rowVars
<1>29. ASSUME NEW j \in Jobs, OverrideReview(j) PROVE Stays(n)
  BY <1>29 DEF OverrideReview, Stays, Attending, Living, rowVars
<1>30. ASSUME NEW m \in Agents, UserKills(m) PROVE Stays(n)
  <2>1. CASE CancelJob(ajob[m])
    BY <2>1, <1>c DEF EarlyInv, PostInv, AssigneeInv, LifeInv, RowInv, TypeOK
  <2>2. CASE ~CancelJob(ajob[m])
    <3>1. /\ ~ValidTransition(jstate[ajob[m]], "cancelled")
          /\ Kill({m}) /\ UNCHANGED <<rowVars, respawn>>
      BY <1>30, <2>2 DEF UserKills
    <3>2. m # n
      BY <3>1 DEF ValidTransition, Edges, LostStates
    <3> QED
      BY <3>1, <3>2 DEF Kill, Stays, Attending, Living, rowVars
  <2> QED
    BY <2>1, <2>2
<1>31. ASSUME NEW m \in Agents, UserRestarts(m) PROVE Stays(n)
  BY <1>31 DEF UserRestarts, Stays, Attending, Living, rowVars, AttendedEnv,
         Event
<1>32. ASSUME Halt PROVE Stays(n)
  BY <1>32 DEF Halt, Stays, Attending, Living, rowVars
<1>33. ASSUME Resume PROVE Stays(n)
  BY <1>33 DEF Resume, Stays, Attending, Living, rowVars
<1>34. ASSUME Reboot PROVE Stays(n)
  BY <1>34, <1>b DEF Reboot, Stays, Attending, Living, rowVars, LostStates,
         ActiveStates
<1>35. ASSUME NEW m \in Agents, ReadyLooks(m) PROVE Stays(n)
  BY <1>35 DEF ReadyLooks, Stays, Attending, Living, rowVars, EarlyInv,
         PostInv, AssigneeInv, LifeInv, RowInv, TypeOK, LivingStates
<1>36. ASSUME NEW m \in Agents, ReadyWrites(m) PROVE Stays(n)
  BY <1>36 DEF ReadyWrites, Greeted, Stays, Attending, Living, rowVars, EarlyInv, PostInv,
         AssigneeInv, LifeInv, RowInv, TypeOK, LivingStates
<1> QED
  BY <1>1, <1>2, <1>3, <1>4, <1>5, <1>6, <1>7, <1>8, <1>9, <1>10, <1>11,
     <1>12, <1>13, <1>14, <1>15, <1>16, <1>17, <1>18, <1>19, <1>20, <1>21,
     <1>22, <1>23, <1>24, <1>25, <1>26, <1>27, <1>28, <1>29, <1>30, <1>31,
     <1>32, <1>33, <1>34, <1>35, <1>36
  DEF Next, OfficeStep, AgentStep, UserStep

\* A developer in place of another attends the job from its insertion.
LEMMA ReplacementAttends ==
  ASSUME LifeInv, NEW n \in Agents, Attending(n), RetrySpawn(n)
  PROVE  \E m \in Agents : Attending(m)' /\ ajob'[m] = ajob[n]
<1>1. PICK m \in Agents : m = next
  BY DEF RetrySpawn, Insert
<1>2. PICK v : Insert("developer", ajob[n], attempt[n] + 1, v)
  BY DEF RetrySpawn, Attending
<1>3. /\ Row(m)' = <<"developer", ajob[n], v>>
      /\ astate'[m] = "spawning" /\ sess'[m] = "starting"
  BY <1>1, <1>2, InsertLife
<1> QED
  BY <1>3 DEF Row, Attending, Living, LivingStates

\* The dispatcher's developer attends the job that it claims.
LEMMA ClaimantAttends ==
  ASSUME EarlyInv, NEW j \in Jobs, Claimed(j)
  PROVE  \E m \in Agents : Attending(m)' /\ ajob'[m] = j
<1> USE DEF EarlyInv, PostInv, AssigneeInv
<1>1. CASE DispatchSpawn /\ disp = j
  <2>1. PICK m \in Agents : m = next
    BY <1>1 DEF DispatchSpawn, Insert
  <2>2. Insert("developer", j, 0, "dispatch")
    BY <1>1 DEF DispatchSpawn
  <2>3. /\ Row(m)' = <<"developer", j, "dispatch">>
        /\ astate'[m] = "spawning" /\ sess'[m] = "starting"
    BY <2>1, <2>2, InsertLife
  <2> QED
    BY <2>3 DEF Row, Attending, Living, LivingStates
<1>2. ASSUME NEW m \in Agents, role[m] = "developer", ajob[m] = j, RetrySpawn(m)
      PROVE  \E i \in Agents : Attending(i)' /\ ajob'[i] = j
  BY <1>2, ReplacementAttends DEF RetrySpawn, Attending
<1>3. ASSUME NEW m \in Agents, RestartSpawn(m) PROVE FALSE
  BY <1>3 DEF RestartSpawn, NeverRestarted
<1> QED
  BY <1>1, <1>2, <1>3 DEF Claimed

\* Every step leaves every job that is worked on attended.
LEMMA AttendedStep ==
  ASSUME EarlyInv, LostAttended, AttendedEnv, LifeStep, JobMoves, Next
  PROVE  LostAttended'
<1> SUFFICES ASSUME NEW j \in Jobs, jstate'[j] \in LostStates
             PROVE  \E n \in Agents : Attending(n)' /\ ajob'[n] = j
  BY DEF LostAttended
<1> USE DEF EarlyInv, PostInv, AssigneeInv
<1>1. jstate[j] \in LostStates \/ Claimed(j)
  BY DEF JobMoves, JobMove, Returned, Begun, Dropped, HandedIn, Rejected, Overruled,
         Approved, MergedBack, Merged, MergeFails, Event, AttendedEnv, LostStates
<1>2. CASE jstate[j] \in LostStates
  <2>1. PICK n \in Agents : Attending(n) /\ ajob[n] = j
    BY <1>2 DEF LostAttended
  <2>2. ajob'[n] = j
    BY <2>1, HasLife, RowsStay DEF Attending, Unborn, Row
  <2>3. Stays(n)
    BY <1>2, <2>1, StaysStep
  <2> QED
    BY <2>1, <2>2, <2>3, ReplacementAttends DEF Stays
<1> QED
  BY <1>1, <1>2, ClaimantAttends

\* A job that is assigned, worked on or in rework always has a developer whose
\* end will be noticed or that is about to be replaced, whatever handshakes are
\* late, processes end, waits return, users cancel, kill or halt, and offices
\* restart. Where agents end by themselves and then a start fails or a merge
\* conflicts, a job can be left behind; with users' restarts and requeues it is
\* only model-checked.
THEOREM JobsAttended ==
  ASSUME AttendedEnv
  PROVE  Spec => []ActiveJobAttended
<1>0. DevEnv
  BY DEF DevEnv, AttendedEnv
<1>1. Init => LostAttended
  BY DEF Init, LostAttended, LostStates
<1>2. EarlyInv /\ LostAttended /\ [Next]_vars => LostAttended'
  <2>1. CASE EarlyInv /\ LostAttended /\ Next
    <3>1. LifeStep /\ JobMoves
      BY <2>1, LivesStep, JobStep DEF EarlyInv, PostInv, AssigneeInv, LifeInv
    <3> QED
      BY <2>1, <3>1, AttendedStep
  <2>2. CASE LostAttended /\ UNCHANGED vars
    BY <2>2 DEF LostAttended, Attending, Living, vars, jobVars, rowVars
  <2> QED
    BY <2>1, <2>2
<1>3. LostAttended => ActiveJobAttended
  BY DEF LostAttended, LostStates, ActiveJobAttended, Attended, Attending, OfJob
<1> QED
  BY <1>0, EarlyCorrect, <1>1, <1>2, <1>3, PTL DEF Spec
-----------------------------------------------------------------------------
(* Work that is handed in meets a fresh reviewer.                          *)

RoundEnv == {"exit", "late", "restart", "override", "requeue", "requeueAny", "wait",
             "slow"} \cap Env = {}

\* A reviewer lives, or is about to be spawned, only for a job that was handed
\* in; a job has one at most; and nobody dies but who is killed or retired.
Reviewer(n) == role[n] = "reviewer" /\ Living(n)
Before == {"queued", "assigned", "working"}
ReviewersAfter == /\ \A n \in Agents : Reviewer(n) => jstate[ajob[n]] \notin Before
                  /\ reviewing # NoJob => jstate[reviewing] \notin Before
SoleReviewer == \A m, n \in Agents :
                  Reviewer(m) /\ Reviewer(n) /\ ajob[m] = ajob[n] => m = n
NoneBesides == \A n \in Agents : Reviewer(n) => reviewing # ajob[n]
ExpectedEnds == \A n \in Agents : /\ sess[n] = "exited" => ~Living(n)
                                  /\ respawn[n] = "no" /\ parked[n] = "no"

RoundInv == /\ LifeInv /\ HandlerInv /\ ReviewersAfter /\ SoleReviewer
            /\ NoneBesides /\ ExpectedEnds

\* Processes end only when their agents have.
LEMMA EndsStep ==
  ASSUME LifeInv, ExpectedEnds, LifeStep, RoundEnv
  PROVE  ExpectedEnds'
<1> SUFFICES ASSUME NEW n \in Agents
             PROVE  /\ sess'[n] = "exited" => astate'[n] \notin LivingStates
                    /\ respawn'[n] = "no" /\ parked'[n] = "no"
  BY DEF ExpectedEnds, Living
<1>1. /\ sess[n] = "exited" => astate[n] \notin LivingStates
      /\ respawn[n] = "no" /\ parked[n] = "no"
  BY DEF ExpectedEnds, Living
<1>2. CASE Lives(n)
  BY <1>1, <1>2
  DEF Lives, Life, Idle, Started, Refused, Readied, MayReady, Greets, Finished,
      Acts, Waits, Returns, Ended, Noticed, Killed, TooLate, Restarting,
      Dies, Replaced, Rebooted, Living, LivingStates, RoundEnv
<1>3. CASE Besides(n)
  BY <1>1, <1>3 DEF Besides, Idle, Replaced
<1>4. CASE Born(n)
  BY <1>1, <1>4 DEF Born
<1> QED
  BY <1>2, <1>3, <1>4 DEF LifeStep

\* The living were alive before, or are inserted now; a reviewer by
\* spawnReviewer.
LEMMA ReviewerStep ==
  ASSUME RoundInv, LifeStep, NEW n \in Agents, Reviewer(n)'
  PROVE  \/ Reviewer(n) /\ ajob'[n] = ajob[n] /\ ajob[n] \in Jobs
         \/ Born(n) /\ ForReview(n)
<1>1. parked[n] = "no" /\ \A m \in Agents : respawn[m] = "no"
  BY DEF RoundInv, ExpectedEnds
<1>2. CASE Lives(n)
  <2>1. Reviewer(n) /\ ajob'[n] = ajob[n]
    BY <1>1, <1>2
    DEF Lives, Row, Life, Idle, Started, Refused, Readied, MayReady, Greets, Finished,
        Acts, Waits, Returns, Ended, Noticed, Killed, TooLate, Restarting,
        Dies, Replaced, Rebooted, Living, LivingStates, Reviewer
  <2> QED
    BY <2>1, HasLife DEF Reviewer, Unborn, RoundInv
<1>3. CASE Besides(n)
  <2>1. Reviewer(n) /\ ajob'[n] = ajob[n]
    BY <1>3 DEF Besides, Row, Idle, Replaced, Living, Reviewer
  <2> QED
    BY <2>1, HasLife DEF Reviewer, Unborn, RoundInv
<1>4. CASE Born(n)
  BY <1>1, <1>4 DEF Born, Dispatched, Replaces, Replaced, Row, Reviewer
<1> QED
  BY <1>2, <1>3, <1>4 DEF LifeStep

\* A job that was handed in does not return to its developer's first round,
\* unless the office starts again.
LEMMA NoWayBack ==
  ASSUME RoundInv, RoundEnv, JobMoves, ~Reboot, NEW j \in Jobs, jstate[j] \notin Before
  PROVE  jstate'[j] \notin Before
<1>1. ASSUME Returned(j) PROVE FALSE
  <2>1. CASE DispatchHalted /\ disp = j
    BY <1>1, <2>1, SetResult
    DEF DispatchHalted, Returned, Before, RoundInv, LifeInv, RowInv, TypeOK
  <2>2. ASSUME NEW m \in Agents, ajob[m] = j, SessionStartFails(m) PROVE FALSE
    BY <1>1, <2>2, SetResult
    DEF SessionStartFails, Returned, Before, RoundInv, LifeInv, RowInv, TypeOK
  <2>3. ASSUME NEW m \in Agents, RetryDeferred(m) \/ (WatchExit(m) /\ Living(m))
        PROVE  FALSE
    BY <2>3 DEF RetryDeferred, WatchExit, RoundInv, ExpectedEnds
  <2>4. CASE UserRequeues(j)
    BY <2>4 DEF UserRequeues, Event, RoundEnv
  <2> QED
    BY <1>1, <2>1, <2>2, <2>3, <2>4 DEF Returned
<1> QED
  BY <1>1 DEF JobMoves, JobMove, Claimed, Begun, Dropped, HandedIn, Rejected,
     Overruled, Approved, MergedBack, Merged, Before

\* Every step keeps the rounds apart.
LEMMA RoundStep ==
  ASSUME RoundInv, RoundEnv, LifeStep, SpawnMove, JobMoves
  PROVE  ReviewersAfter' /\ SoleReviewer' /\ NoneBesides'
<1>1. reviewing # NoJob => reviewing \in Jobs /\ jstate[reviewing] \notin Before
  BY DEF RoundInv, ReviewersAfter, LifeInv, RowInv, TypeOK
<1>2. ASSUME NEW n \in Agents, Reviewer(n)' PROVE jstate'[ajob'[n]] \notin Before
  <2>1. ~Reboot
    BY <1>2 DEF Reboot, Reviewer, Living, LivingStates
  <2>2. CASE Reviewer(n) /\ ajob'[n] = ajob[n] /\ ajob[n] \in Jobs
    BY <2>1, <2>2, NoWayBack DEF RoundInv, ReviewersAfter
  <2>3. CASE Born(n) /\ ForReview(n)
    BY <1>1, <2>1, <2>3, NoWayBack DEF ForReview, Row
  <2> QED
    BY <1>2, <2>2, <2>3, ReviewerStep
<1>3. reviewing' # NoJob => jstate'[reviewing'] \notin Before
  <2>1. ASSUME NEW j \in Jobs, ReviewBegin(j) PROVE jstate'[reviewing'] \notin Before
    BY <2>1 DEF ReviewBegin, jobVars, Before
  <2>2. CASE reviewing' = reviewing /\ reviewing # NoJob
    <3>1. PICK j \in Jobs : j = reviewing /\ j = reviewing' /\ jstate[j] \notin Before
      BY <1>1, <2>2
    <3>2. ~Reboot
      BY <2>2 DEF Reboot
    <3> QED
      BY <3>1, <3>2, NoWayBack
  <2> QED
    BY <2>1, <2>2 DEF SpawnMove
<1>4. SoleReviewer'
  <2> SUFFICES ASSUME NEW m \in Agents, NEW n \in Agents,
                      Reviewer(m)', Reviewer(n)', ajob'[m] = ajob'[n]
               PROVE  m = n
    BY DEF SoleReviewer
  <2> QED
    BY ReviewerStep DEF RoundInv, SoleReviewer, NoneBesides, ForReview, Row, Born
<1>5. NoneBesides'
  <2> SUFFICES ASSUME NEW n \in Agents, Reviewer(n)' PROVE reviewing' # ajob'[n]
    BY DEF NoneBesides
  <2>1. CASE Reviewer(n) /\ ajob'[n] = ajob[n] /\ ajob[n] \in Jobs
    <3>1. reviewing # ajob[n]
      BY <2>1 DEF RoundInv, NoneBesides
    <3>2. ASSUME NEW j \in Jobs, ReviewBegin(j) PROVE reviewing' # ajob[n]
      BY <2>1, <3>2, FoundIfAny DEF ReviewBegin, LivingByJobRole, OfJob, Reviewer
    <3> QED
      BY <2>1, <3>1, <3>2, ConstantsAssumption DEF SpawnMove
  <2>2. CASE Born(n) /\ ForReview(n)
    BY <1>1, <2>2, ConstantsAssumption DEF ForReview, Row
  <2> QED
    BY <2>1, <2>2, ReviewerStep
<1> QED
  BY <1>2, <1>3, <1>4, <1>5 DEF ReviewersAfter

\* The invariant holds where agents neither end by themselves nor are late, and
\* nobody restarts agents, requeues jobs or overrules a rejection.
LEMMA RoundCorrect ==
  ASSUME RoundEnv
  PROVE  Spec => []RoundInv
<1>0. SafeEnv
  BY DEF RoundEnv, SafeEnv
<1>1. Init /\ LifeInv /\ HandlerInv => RoundInv
  BY DEF Init, RoundInv, ReviewersAfter, SoleReviewer, NoneBesides, ExpectedEnds,
         Reviewer
<1>2. RoundInv /\ LifeInv' /\ HandlerInv' /\ [Next]_vars => RoundInv'
  <2> SUFFICES ASSUME RoundInv, LifeInv', HandlerInv', [Next]_vars PROVE RoundInv'
    OBVIOUS
  <2>1. LifeStep /\ SpawnMove /\ JobMoves
    BY LivesStep, SpawnStep, JobStep, StutterLives, JobStutter
    DEF RoundInv, LifeInv, SpawnMove, vars, spawnVars
  <2> QED
    BY <2>1, RoundStep, EndsStep DEF RoundInv
<1> QED
  BY <1>0, LifeCorrect, HandlersCorrect, <1>1, <1>2, PTL DEF Spec

\* Whenever a developer hands its work in (omo done), the reviewer of the round
\* before is gone: developerDone kills the one that was retained for a rejected
\* job, and no other can have come into being. Where agents crash, wait, are late
\* or restarted, one of an earlier round can remain.
THEOREM ReviewersFresh ==
  ASSUME RoundEnv
  PROVE  Spec => ReviewerIsFresh
<1>1. ASSUME RoundInv, Next, NEW j \in Jobs, jstate[j] \in {"working", "rework"},
             jstate'[j] = "review", NEW n \in Agents, Reviewer(n)', ajob'[n] = j
      PROVE  FALSE
  <2>1. LifeStep /\ JobMoves
    BY <1>1, LivesStep, JobStep DEF RoundInv, LifeInv
  <2>2. ASSUME NEW m \in Agents, ajob[m] = j, MergeFails(m) PROVE FALSE
    BY <1>1, <2>2 DEF MergeFails, RoundInv, HandlerInv, HandlersHoldJobs
  <2>3. HandedIn(j)
    BY <1>1, <2>1, <2>2
    DEF JobMoves, JobMove, Returned, Claimed, Begun, Dropped, Rejected, Overruled,
        OverrideReview, Event, RoundEnv, Approved, MergedBack, Merged
  <2>4. PICK m \in Agents : ajob[m] = j /\ DeveloperDone(m)
    BY <2>3 DEF HandedIn
  <2>5. Kill(Superseded(j)) /\ UNCHANGED rowVars
    BY <2>4 DEF DeveloperDone
  <2>6. Reviewer(n) /\ ajob[n] = j /\ n \notin Superseded(j)
    BY <1>1, <2>5 DEF Kill, Reviewer, Living, LivingStates, rowVars
  <2>7. jstate[j] = "rework"
    BY <1>1, <2>6 DEF RoundInv, ReviewersAfter, Before
  <2>8. \A i \in LivingByJobRole(j, "reviewer") : i = n
    <3>1. \A i \in Agents : Reviewer(i) /\ ajob[i] = j => i = n
      BY <1>1, <2>6 DEF RoundInv, SoleReviewer
    <3> QED
      BY <3>1 DEF LivingByJobRole, OfJob, Reviewer
  <2>9. n \in ReviewerForJob(j)
    BY <2>6, <2>8 DEF ReviewerForJob, LivingByJobRole, OfJob, Reviewer, Agents
  <2> QED
    BY <2>6, <2>7, <2>9 DEF Superseded
<1>2. RoundInv /\ [Next]_vars =>
        [\A j \in Jobs :
           jstate[j] \in {"working", "rework"} /\ jstate'[j] = "review" =>
             LivingByJobRole(j, "reviewer")' = {}]_vars
  BY <1>1 DEF LivingByJobRole, OfJob, Reviewer
<1> QED
  BY RoundCorrect, <1>2, PTL DEF Spec, ReviewerIsFresh
-----------------------------------------------------------------------------
(***************************************************************************)
(* JobLifecycle implements JobBoard: whatever agents, processes and users  *)
(* do, a job moves on the board only as the board allows, and is done only *)
(* after its branch landed.                                                *)
(***************************************************************************)

\* A step of the board, or none.
BoardStep == [Board!Next]_(Board!board)

\* The moves of a single job that leave its branch alone.
Allowed(from, to) ==
  \/ from = "queued"                /\ to = "assigned"
  \/ from = "assigned"              /\ to \in {"working", "queued"}
  \/ from \in {"working", "rework"} /\ to = "review"
  \/ from = "review"                /\ to \in {"merging", "rework"}
  \/ from = "merging"               /\ to \in {"review", "rework"}
  \/ from \in {"queued"} \cup LostStates /\ to = "failed"
  \/ from \in States \ Terminal     /\ to = "cancelled"

\* A step that touches neither jobs nor branches is no step of the board.
LEMMA NoMove ==
  ASSUME UNCHANGED <<jstate, landed>>
  PROVE  BoardStep
BY DEF BoardStep, Board!board

\* Setting a job's state along one of those moves is a step of the board.
LEMMA OneMove ==
  ASSUME RowInv, NEW i, NEW to, SetJob(i, to), landed' = landed,
         i \in Jobs => to = jstate[i] \/ Allowed(jstate[i], to)
  PROVE  BoardStep
<1>1. CASE i \in Jobs /\ Allowed(jstate[i], to)
  <2>1. CASE jstate[i] \in {"queued"} /\ to = "assigned"
    BY <1>1, <2>1 DEF BoardStep, SetJob, Board!Next, Board!Assign, Board!Move
  <2>2. CASE jstate[i] \in {"assigned"} /\ to = "working"
    BY <1>1, <2>2 DEF BoardStep, SetJob, Board!Next, Board!Begin, Board!Move
  <2>3. CASE jstate[i] \in {"assigned"} /\ to = "queued"
    BY <1>1, <2>3 DEF BoardStep, SetJob, Board!Next, Board!TakeBack, Board!Move
  <2>4. CASE jstate[i] \in {"working", "rework"} /\ to = "review"
    BY <1>1, <2>4 DEF BoardStep, SetJob, Board!Next, Board!Submit, Board!Move
  <2>5. CASE jstate[i] \in {"review"} /\ to = "merging"
    BY <1>1, <2>5 DEF BoardStep, SetJob, Board!Next, Board!Approve, Board!Move
  <2>6. CASE jstate[i] \in {"review"} /\ to = "rework"
    BY <1>1, <2>6 DEF BoardStep, SetJob, Board!Next, Board!Reject, Board!Move
  <2>7. CASE jstate[i] \in {"merging"} /\ to = "review"
    BY <1>1, <2>7 DEF BoardStep, SetJob, Board!Next, Board!Return, Board!Move
  <2>8. CASE jstate[i] \in {"merging"} /\ to = "rework"
    BY <1>1, <2>8 DEF BoardStep, SetJob, Board!Next, Board!Return, Board!Move
  <2>9. CASE jstate[i] \in {"queued"} \cup LostStates /\ to = "failed"
    BY <1>1, <2>9 DEF BoardStep, SetJob, Board!Next, Board!GiveUp, Board!Move,
       LostStates, Board!LostStates
  <2>10. CASE jstate[i] \in States \ Terminal /\ to = "cancelled"
    BY <1>1, <2>10 DEF BoardStep, SetJob, Board!Next, Board!Cancel, Board!Move,
       States, Terminal, Board!States, Board!Terminal
  <2> QED
    BY <1>1, <2>1, <2>2, <2>3, <2>4, <2>5, <2>6, <2>7, <2>8, <2>9, <2>10 DEF Allowed
<1>2. CASE i \notin Jobs \/ to = jstate[i]
  <2>1. jstate' = jstate
    BY <1>2 DEF SetJob, RowInv, TypeOK
  <2> QED
    BY <2>1, NoMove
<1> QED
  BY <1>1, <1>2

\* The two ways in which the branches of some jobs are forgotten.
LEMMA ForgetLanded ==
  ASSUME NEW f \in [Jobs -> BOOLEAN], NEW S \in SUBSET Jobs
  PROVE  /\ [j \in Jobs |-> IF j \in S THEN FALSE ELSE f[j]]
              = [j \in Jobs |-> f[j] /\ j \notin S]
         /\ \A i \in Jobs : S = {i} =>
              [f EXCEPT ![i] = FALSE] = [j \in Jobs |-> f[j] /\ j \notin S]
<1>1. \A j \in Jobs : (IF j \in S THEN FALSE ELSE f[j]) = (f[j] /\ j \notin S)
  <2> SUFFICES ASSUME NEW j \in Jobs
               PROVE  (IF j \in S THEN FALSE ELSE f[j]) = (f[j] /\ j \notin S)
    OBVIOUS
  <2>1. f[j] \in BOOLEAN
    OBVIOUS
  <2>2. CASE f[j] = TRUE
    BY <2>2
  <2>3. CASE f[j] = FALSE
    BY <2>3
  <2> QED
    BY <2>1, <2>2, <2>3
<1>2. ASSUME NEW i \in Jobs, S = {i}
      PROVE  [f EXCEPT ![i] = FALSE] = [j \in Jobs |-> IF j \in S THEN FALSE ELSE f[j]]
  BY <1>2
<1> QED
  BY <1>1, <1>2

\* So is returning one job to the queue, forgetting its branch (Store.Retry).
LEMMA BackToQueue ==
  ASSUME RowInv, NEW i \in Jobs, jstate[i] \notin {"queued", "done"},
         SetJob(i, "queued"), landed' = [landed EXCEPT ![i] = FALSE]
  PROVE  BoardStep
<1>1. jstate' = [j \in Jobs |-> IF j \in {i} THEN "queued" ELSE jstate[j]]
  BY DEF RowInv, TypeOK, SetJob
<1>2. landed' = [j \in Jobs |-> landed[j] /\ j \notin {i}]
  BY ForgetLanded DEF RowInv, TypeOK
<1>3. Board!Requeue({i})
  BY <1>1, <1>2 DEF Board!Requeue
<1> QED
  BY <1>3 DEF BoardStep, Board!Next

\* A job fails only from the queue or from a state that handleDeath handles.
LEMMA FailMove ==
  ASSUME RowInv, NEW i, TryTransition(i, "failed"), landed' = landed
  PROVE  BoardStep
<1>1. i \in Jobs => \/ AfterTransition(jstate[i], "failed") = jstate[i]
                    \/ Allowed(jstate[i], AfterTransition(jstate[i], "failed"))
  BY DEF RowInv, TypeOK, States, AfterTransition, ValidTransition, Edges, Allowed,
         LostStates
<1> QED
  BY <1>1, OneMove DEF TryTransition

\* Only a job that is not over is cancelled.
LEMMA CancelMove ==
  ASSUME RowInv, NEW i, CancelJob(i)
  PROVE  BoardStep
<1>1. i \in Jobs => Allowed(jstate[i], "cancelled")
  BY DEF CancelJob, RowInv, TypeOK, States, ValidTransition, Edges, Allowed, Terminal
<1> QED
  BY <1>1, OneMove DEF CancelJob

\* A death fails its job, returns it to the queue or leaves it under review.
LEMMA DeathMove ==
  ASSUME RowInv, NEW n \in Agents, Living(n), JobAfterDeath(n)
  PROVE  BoardStep
<1>1. ajob[n] \in Jobs /\ role[n] \in {"developer", "reviewer"}
  BY HasRow DEF Unborn
<1>2. CASE jstate[ajob[n]] \notin LostTo(role[n])
  BY <1>2, NoMove DEF JobAfterDeath, jobVars
<1>3. CASE jstate[ajob[n]] \in LostTo(role[n]) /\ Spent(ajob[n])
  <2>1. SetJob(ajob[n], "failed") /\ landed' = landed
    BY <1>3 DEF JobAfterDeath
  <2> QED
    BY <1>3, <2>1, OneMove DEF LostTo, LostStates, Allowed
<1>4. CASE jstate[ajob[n]] \in LostTo(role[n]) /\ ~Spent(ajob[n])
  <2>1. CASE role[n] = "developer"
    <3>1. SetJob(ajob[n], "queued") /\ landed' = [landed EXCEPT ![ajob[n]] = FALSE]
      BY <1>4, <2>1 DEF JobAfterDeath
    <3> QED
      BY <1>1, <1>4, <3>1, BackToQueue DEF LostTo, LostStates
  <2>2. CASE role[n] = "reviewer"
    <3>1. SetJob(ajob[n], "review") /\ landed' = landed
      BY <1>4, <2>2 DEF JobAfterDeath
    <3> QED
      BY <1>4, <2>2, <3>1, OneMove DEF LostTo
  <2> QED
    BY <1>1, <2>1, <2>2
<1> QED
  BY <1>2, <1>3, <1>4

\* Every step of the life cycle is a step of the board.
LEMMA ImplementsStep ==
  ASSUME HandlerInv, Next
  PROVE  BoardStep
<1>1. ASSUME NEW j \in Jobs, DispatchPick(j) PROVE BoardStep
  BY <1>1, NoMove DEF DispatchPick, jobVars
<1>2. ASSUME NEW j \in Jobs, ReviewBegin(j) PROVE BoardStep
  BY <1>2, NoMove DEF ReviewBegin, jobVars
<1>3. ASSUME DispatchPrepFails PROVE BoardStep
  BY <1>3, FailMove, NoMove DEF DispatchPrepFails, jobVars, HandlerInv
<1>4. ASSUME DispatchSpawn PROVE BoardStep
  BY <1>4, OneMove DEF DispatchSpawn, jobVars, ClaimFor, Allowed, HandlerInv
<1>5. ASSUME DispatchHalted PROVE BoardStep
  BY <1>5, OneMove DEF DispatchHalted, jobVars, Allowed, HandlerInv
<1>6. ASSUME ReviewSpawn PROVE BoardStep
  BY <1>6, NoMove DEF ReviewSpawn, jobVars
<1>7. ASSUME ReviewHalted PROVE BoardStep
  BY <1>7, NoMove DEF ReviewHalted, jobVars
<1>8. ASSUME NEW m \in Agents, SessionStart(m) PROVE BoardStep
  BY <1>8, NoMove DEF SessionStart, jobVars
<1>9. ASSUME NEW m \in Agents, SessionStartFails(m) PROVE BoardStep
  BY <1>9, OneMove DEF SessionStartFails, jobVars, Allowed, HandlerInv
<1>10. ASSUME NEW m \in Agents, MergeLands(m) PROVE BoardStep
  <2>1. PICK j \in Jobs : j = ajob[m]
    BY <1>10, HasRow DEF MergeLands, Unborn, HandlerInv
  <2>2. jstate[j] \in {"merging", "cancelled"}
    BY <1>10, <2>1 DEF MergeLands, HandlerInv, HandlersHoldJobs
  <2>3. Board!Land(j)
    BY <1>10, <2>1, <2>2 DEF MergeLands, jobVars, Board!Land
  <2> QED
    BY <2>3 DEF BoardStep, Board!Next
<1>11. ASSUME NEW m \in Agents, MergeFails(m) PROVE BoardStep
  <2>1. jstate[ajob[m]] \in {"merging", "cancelled"} /\ RowInv
    BY <1>11 DEF MergeFails, HandlerInv, HandlersHoldJobs
  <2>2. PICK to \in {"review", "rework"} : TryTransition(ajob[m], to)
    BY <1>11 DEF MergeFails
  <2>3. LET t == AfterTransition(jstate[ajob[m]], to)
        IN  t = jstate[ajob[m]] \/ Allowed(jstate[ajob[m]], t)
    BY <2>1 DEF AfterTransition, ValidTransition, Edges, Allowed
  <2> QED
    BY <1>11, <2>1, <2>2, <2>3, OneMove DEF MergeFails, TryTransition
<1>12. ASSUME NEW m \in Agents, Finalize(m) PROVE BoardStep
  <2>1. PICK j \in Jobs : j = ajob[m]
    BY <1>12, HasRow DEF Finalize, Unborn, HandlerInv
  <2>2. jstate[j] \in {"merging", "cancelled"} /\ landed[j]
    BY <1>12, <2>1 DEF Finalize, HandlerInv, HandlersHoldJobs, HandlersLanded
  <2>3. SetJob(j, AfterTransition(jstate[j], "done")) /\ landed' = landed
    BY <1>12, <2>1 DEF Finalize, TryTransition
  <2>4. CASE jstate[j] = "merging"
    <3>1. SetJob(j, "done")
      BY <2>3, <2>4 DEF AfterTransition, ValidTransition, Edges
    <3>2. Board!Finish(j)
      BY <2>2, <2>3, <2>4, <3>1 DEF SetJob, Board!Finish, Board!Move
    <3> QED
      BY <3>2 DEF BoardStep, Board!Next
  <2>5. CASE jstate[j] = "cancelled"
    BY <2>3, <2>5, OneMove DEF AfterTransition, ValidTransition, Edges, HandlerInv
  <2> QED
    BY <2>2, <2>4, <2>5
<1>13. ASSUME NEW m \in Agents, Reap(m) PROVE BoardStep
  BY <1>13, NoMove DEF Reap, jobVars
<1>14. ASSUME NEW m \in Agents, WatchExit(m) PROVE BoardStep
  BY <1>14, DeathMove, NoMove DEF WatchExit, jobVars, HandlerInv
<1>15. ASSUME NEW m \in Agents, HandshakeTimeout(m) PROVE BoardStep
  BY <1>15, FailMove, NoMove DEF HandshakeTimeout, jobVars, HandlerInv
<1>16. ASSUME NEW m \in Agents, RetrySpawn(m) PROVE BoardStep
  BY <1>16, OneMove DEF RetrySpawn, jobVars, ClaimFor, Allowed, HandlerInv
<1>17. ASSUME NEW m \in Agents, RetryDeferred(m) PROVE BoardStep
  <2>1. CASE /\ role[m] = "developer"
             /\ jstate[ajob[m]] \in {"assigned", "working", "rework"}
    <3>1. ajob[m] \in Jobs
      BY <1>17, HasRow DEF RetryDeferred, Unborn, HandlerInv
    <3>2. SetJob(ajob[m], "queued") /\ landed' = [landed EXCEPT ![ajob[m]] = FALSE]
      BY <1>17, <2>1 DEF RetryDeferred
    <3> QED
      BY <2>1, <3>1, <3>2, BackToQueue DEF HandlerInv
  <2>2. CASE ~(/\ role[m] = "developer"
               /\ jstate[ajob[m]] \in {"assigned", "working", "rework"})
    BY <1>17, <2>2, NoMove DEF RetryDeferred
  <2> QED
    BY <2>1, <2>2
<1>18. ASSUME NEW m \in Agents, RestartSpawn(m) PROVE BoardStep
  BY <1>18, OneMove, NoMove DEF RestartSpawn, jobVars, ClaimFor, Allowed,
         HandlerInv
<1>19. ASSUME NEW m \in Agents, WaitReturns(m) PROVE BoardStep
  BY <1>19, NoMove DEF WaitReturns, jobVars
<1>20. ASSUME NEW m \in Agents, Ready(m) PROVE BoardStep
  BY <1>20, OneMove DEF Ready, Greeted, jobVars, Allowed, HandlerInv
<1>21. ASSUME NEW m \in Agents, DeveloperDone(m) PROVE BoardStep
  BY <1>21, OneMove DEF DeveloperDone, jobVars, Allowed, HandlerInv
<1>22. ASSUME NEW m \in Agents, VerdictMerge(m) PROVE BoardStep
  BY <1>22, OneMove DEF VerdictMerge, jobVars, Allowed, HandlerInv
<1>23. ASSUME NEW m \in Agents, VerdictReject(m) PROVE BoardStep
  BY <1>23, OneMove DEF VerdictReject, jobVars, Allowed, HandlerInv
<1>24. ASSUME NEW m \in Agents, ReviewerDone(m) PROVE BoardStep
  BY <1>24, NoMove DEF ReviewerDone, jobVars
<1>25. ASSUME NEW m \in Agents, Wait(m) PROVE BoardStep
  BY <1>25, NoMove DEF Wait, jobVars
<1>26. ASSUME NEW m \in Agents, ProcessExit(m) PROVE BoardStep
  BY <1>26, NoMove DEF ProcessExit, jobVars
<1>27. ASSUME NEW j \in Jobs, UserCancels(j) PROVE BoardStep
  BY <1>27, CancelMove DEF UserCancels, jobVars, HandlerInv
<1>28. ASSUME NEW j \in Jobs, UserRequeues(j) PROVE BoardStep
  <2>1. jstate[j] \notin {"queued", "done"}
    BY <1>28 DEF UserRequeues, ValidTransition, Edges
  <2> QED
    BY <1>28, <2>1, BackToQueue DEF UserRequeues, HandlerInv
<1>29. ASSUME NEW j \in Jobs, OverrideReview(j) PROVE BoardStep
  BY <1>29, OneMove DEF OverrideReview, jobVars, Allowed, HandlerInv
<1>30. ASSUME NEW m \in Agents, UserKills(m) PROVE BoardStep
  BY <1>30, CancelMove, NoMove DEF UserKills, jobVars, HandlerInv
<1>31. ASSUME NEW m \in Agents, UserRestarts(m) PROVE BoardStep
  BY <1>31, NoMove DEF UserRestarts, jobVars
<1>32. ASSUME Halt PROVE BoardStep
  BY <1>32, NoMove DEF Halt, jobVars
<1>33. ASSUME Resume PROVE BoardStep
  BY <1>33, NoMove DEF Resume, jobVars
<1>34. ASSUME Reboot PROVE BoardStep
  <2> DEFINE active == {j \in Jobs : jstate[j] \in ActiveStates}
  <2>1. /\ jstate' = [j \in Jobs |-> IF j \in active THEN "queued" ELSE jstate[j]]
        /\ landed' = [j \in Jobs |-> IF j \in active THEN FALSE ELSE landed[j]]
    BY <1>34 DEF Reboot
  <2>2. landed' = [j \in Jobs |-> landed[j] /\ j \notin active]
    BY <2>1, ForgetLanded DEF HandlerInv, RowInv, TypeOK
  <2>3. \A j \in active : jstate[j] \notin {"queued", "done"}
    BY DEF ActiveStates, LostStates
  <2>4. active \in SUBSET Jobs /\ Board!Requeue(active)
    BY <2>1, <2>2, <2>3 DEF Board!Requeue
  <2> QED
    BY <2>4 DEF BoardStep, Board!Next
<1>35. ASSUME NEW m \in Agents, ReadyLooks(m) PROVE BoardStep
  BY <1>35, NoMove DEF ReadyLooks, jobVars
<1>36. ASSUME NEW m \in Agents, ReadyWrites(m) PROVE BoardStep
  BY <1>36, OneMove DEF ReadyWrites, Greeted, jobVars, Allowed, HandlerInv
<1> QED
  BY <1>1, <1>2, <1>3, <1>4, <1>5, <1>6, <1>7, <1>8, <1>9, <1>10, <1>11,
     <1>12, <1>13, <1>14, <1>15, <1>16, <1>17, <1>18, <1>19, <1>20, <1>21,
     <1>22, <1>23, <1>24, <1>25, <1>26, <1>27, <1>28, <1>29, <1>30, <1>31,
     <1>32, <1>33, <1>34, <1>35, <1>36
  DEF Next, OfficeStep, AgentStep, UserStep

\* What `omo job list`, plugins and product managers see of a job is the board's:
\* a job moves along the board's edges only, a reboot requeues every active one at
\* once, and done is reported only for a branch that landed since the job was
\* last queued (Store.Transition, Store.Retry, finalizeMergingJob, recover). Where
\* cancelled jobs are requeued it fails: see OneMerge.
THEOREM BoardImplemented ==
  ASSUME SafeEnv
  PROVE  Spec => ImplementsBoard
<1>1. Init => Board!Init
  BY DEF Init, Board!Init
<1>2. HandlerInv /\ [Next]_vars => [Board!Next]_(Board!board)
  <2>1. ASSUME HandlerInv, Next PROVE BoardStep
    BY <2>1, ImplementsStep
  <2>2. ASSUME UNCHANGED vars PROVE BoardStep
    BY <2>2, NoMove DEF vars, jobVars
  <2> QED
    BY <2>1, <2>2 DEF BoardStep
<1> QED
  BY HandlersCorrect, <1>1, <1>2, PTL DEF Spec, ImplementsBoard, Board!Spec
=============================================================================
