---------------------------- MODULE ControlPlane ----------------------------
(***************************************************************************)
(* Company capacity: the leases of the control plane that omo company runs *)
(* (internal/company/controlplane: server.go, client.go), the offices that *)
(* need one per working agent, and what an office does with a spawn that   *)
(* was denied (internal/supervisor: capacity.go, controlplane.go,          *)
(* spawn.go, dispatch.go; internal/company: manager.go, instances.go).     *)
(*                                                                         *)
(* An office is one child process, so it starts once: every start registers*)
(* a new child.  An attempt is one call of spawnAttempt and everything that*)
(* follows it up to the release of its lease; its number is also the id of *)
(* the lease, and is used again once nobody knows it any more.             *)
(*                                                                         *)
(* Granularity.  A request and its answer are two messages; the server     *)
(* handles a request in one step, under its mutex.  The client updates what*)
(* it knows under its own mutex when the answer arrives; what its caller   *)
(* does with the answer is a later step.                                   *)
(***************************************************************************)
EXTENDS Naturals, FiniteSets

CONSTANTS Offices,     \* children of the company
          Jobs,        \* jobs of roles that take a lease
          HomeOf,      \* the office of each job
          Limit,       \* omo company's limit on agents
          NoOffice,    \* the lease does not exist
          NoJob,       \* the attempt is not in use
          MaxAttempts, \* bound: attempts in progress, and leaked leases
          MaxSpawns,   \* bound: calls of spawnAttempt
          MaxFaults    \* bound: timeouts, crashes, stops, failed starts,
                       \* and deferrals that last as long as their backoff

Attempts == 1..MaxAttempts

ASSUME ConstantsAssumption ==
  /\ HomeOf \in [Jobs -> Offices]
  /\ NoOffice \notin Offices
  /\ NoJob \notin Jobs
  /\ {Limit, MaxAttempts, MaxSpawns, MaxFaults} \subseteq Nat

VARIABLES
  \* the company
  serverUp,    \* the control plane's listener answers
  used,        \* Server.used
  serverGen,   \* Server.capacityGeneration
  owner,       \* whose child.leases the lease is in
  phase,       \* the office's process, as the company's manager sees it
  \* each office: the client and the supervisor
  stopping,    \* Supervisor.stopping
  failure,     \* Client.failure is set
  clientGen,   \* Client.capacityGeneration; 0 if not capacitySeen
  watch,       \* what Watch is doing
  pinged,      \* the generation in the answer to its ping
  \* each job
  jstate,      \* waiting for an agent, has one (or had), or over
  deferral,    \* capacityDeferrals: no entry, in the future, or due
  \* each attempt
  pc,          \* how far it is
  job,         \* for which job
  kind,        \* called by assign or by watchHandshake
  expected,    \* its end is no surprise to watchExit
  answer,      \* the generation in the answer to its request
  \* bounds
  spawns,      \* attempts left
  faults       \* faults left

companyVars == <<used, serverGen, owner>>
clientVars  == <<failure, clientGen>>
watchVars   == <<watch, pinged>>
attemptVars == <<pc, job, kind, expected, answer>>
vars == <<serverUp, companyVars, phase, stopping, clientVars, watchVars,
          jstate, deferral, attemptVars, spawns, faults>>

\* asked, granted, refused: the acquire request, and its answers, are on their
\* way.  denied, recorded: recordCapacityDenial before and after its critical
\* section.  leased, live: the session starts, and runs.  ended, returning,
\* returned, noted: the release is due, on its way, answered, and known to the
\* client.  strayAcquire, strayRelease: nobody waits for the answer any more.
Stages == {"idle", "asked", "granted", "refused", "denied", "recorded",
           "leased", "live", "ended", "returning", "returned", "noted",
           "strayAcquire", "strayRelease"}

Home(a)   == HomeOf[job[a]]
Of(c)     == {a \in Attempts : job[a] # NoJob /\ Home(a) = c}
Runs(c)   == phase[c] = "running"
Registered(c) == phase[c] \in {"running", "exited"}
Free      == {a \in Attempts : pc[a] = "idle" /\ owner[a] = NoOffice}

\* Mutation: Unregister deletes the child, and forgets its leases.
NoLeases(c) == {}

\* Mutation: it counts requests that were not granted, too.
AllRequests(c) == Of(c)

Leases(c) == {a \in Attempts : owner[a] = c}

Later(g, h) == IF g > h THEN g ELSE h

Fault == faults > 0 /\ faults' = faults - 1

Goto(a, stage) == pc' = [pc EXCEPT ![a] = stage]

\* What an attempt in S remembers is gone.
Forget(S) ==
  /\ job' = [a \in Attempts |-> IF a \in S THEN NoJob ELSE job[a]]
  /\ kind' = [a \in Attempts |-> IF a \in S THEN "dispatch" ELSE kind[a]]
  /\ expected' = [a \in Attempts |-> a \notin S /\ expected[a]]
  /\ answer' = [a \in Attempts |-> IF a \in S THEN 0 ELSE answer[a]]

\* The goroutine of the attempt returns.
Return(a) == Goto(a, "idle") /\ Forget({a})

\* Mutation: the failure is only remembered.
OnlyNoted(c) == UNCHANGED stopping

\* controlFailed: the office stops at once.
ControlFailed(c) == stopping' = [stopping EXCEPT ![c] = TRUE]

\* capacityAvailable; the kick only makes the dispatcher look again.
CapacityAvailable(c) ==
  deferral' = [j \in Jobs |-> IF HomeOf[j] = c THEN "none" ELSE deferral[j]]

\* watchExit and handleDeath for a process that ended, and assign for one that
\* never started: the job goes back to the queue.
Requeue(a) ==
  jstate' = IF ~expected[a] /\ jstate[job[a]] = "active"
            THEN [jstate EXCEPT ![job[a]] = "queued"] ELSE jstate
-----------------------------------------------------------------------------
Init ==
  /\ serverUp = TRUE
  /\ used = 0
  /\ serverGen = 0
  /\ owner = [a \in Attempts |-> NoOffice]
  /\ phase = [c \in Offices |-> "none"]
  /\ stopping = [c \in Offices |-> FALSE]
  /\ failure = [c \in Offices |-> FALSE]
  /\ clientGen = [c \in Offices |-> 0]
  /\ watch = [c \in Offices |-> "idle"]
  /\ pinged = [c \in Offices |-> 0]
  /\ jstate = [j \in Jobs |-> "queued"]
  /\ deferral = [j \in Jobs |-> "none"]
  /\ pc = [a \in Attempts |-> "idle"]
  /\ job = [a \in Attempts |-> NoJob]
  /\ kind = [a \in Attempts |-> "dispatch"]
  /\ expected = [a \in Attempts |-> FALSE]
  /\ answer = [a \in Attempts |-> 0]
  /\ spawns = MaxSpawns
  /\ faults = MaxFaults

\* Server.start of the manager: Register, then startInstance.  A start that
\* fails is unregistered at once, and nobody sees the difference.
Register(c) ==
  /\ serverUp
  /\ phase[c] = "none"
  /\ phase' = [phase EXCEPT ![c] = "running"]
  /\ UNCHANGED <<serverUp, companyVars, stopping, clientVars, watchVars,
                 jstate, deferral, attemptVars, spawns, faults>>

\* acquireSpawnLease sends its request for job j.
Acquire(j, k, a) ==
  /\ spawns > 0
  /\ spawns' = spawns - 1
  /\ a \in Free
  /\ \A b \in Free : a <= b
  /\ job' = [job EXCEPT ![a] = j]
  /\ kind' = [kind EXCEPT ![a] = k]
  /\ answer' = [answer EXCEPT ![a] = 0]

\* The dispatcher is inside assign.
Assigning(c) ==
  \E a \in Of(c) : /\ kind[a] = "dispatch"
                   /\ pc[a] \in {"asked", "granted", "refused", "denied",
                                 "recorded", "leased"}

\* dispatchOnce reaches a queued job that is not deferred, and assigns it.
Dispatch(j) ==
  LET c == HomeOf[j] IN
  /\ Runs(c)
  /\ ~stopping[c]
  /\ jstate[j] = "queued"
  /\ deferral[j] # "waiting"
  /\ ~Assigning(c)
  /\ \E a \in Attempts :
       /\ Acquire(j, "dispatch", a)
       /\ Goto(a, "asked")
       /\ expected' = [expected EXCEPT ![a] = FALSE]
  /\ UNCHANGED <<serverUp, companyVars, phase, stopping, clientVars,
                 watchVars, jstate, deferral, faults>>

\* watchHandshake: an agent missed the ready deadline; its process is killed,
\* and the next attempt asks for a lease while the killed one is returned.
HandshakeTimeout(a) ==
  /\ pc[a] = "live"
  /\ ~expected[a]
  /\ ~stopping[Home(a)]
  /\ \E b \in Attempts :
       /\ Acquire(job[a], "retry", b)
       /\ pc' = [pc EXCEPT ![a] = "ended", ![b] = "asked"]
       /\ expected' = [expected EXCEPT ![a] = TRUE, ![b] = FALSE]
  /\ UNCHANGED <<serverUp, companyVars, phase, stopping, clientVars,
                 watchVars, jstate, deferral, faults>>
-----------------------------------------------------------------------------
\* serveHTTP: /acquire.

Acquiring(a) == pc[a] \in {"asked", "strayAcquire"} /\ Registered(Home(a))

\* Mutation: an off-by-one in the comparison with the limit.
FullAbove == Limit = 0 \/ used > Limit

\* The limit is reached, or there is none to share.
Full == Limit = 0 \/ used >= Limit

Grant(a) ==
  /\ serverUp
  /\ Acquiring(a)
  /\ ~Full
  /\ owner' = [owner EXCEPT ![a] = Home(a)]
  /\ used' = used + 1
  /\ IF pc[a] = "asked"
     THEN /\ Goto(a, "granted")
          /\ UNCHANGED <<job, kind, expected, answer>>
     ELSE Return(a)
  /\ UNCHANGED <<serverUp, serverGen, phase, stopping, clientVars, watchVars,
                 jstate, deferral, spawns, faults>>

Refuse(a) ==
  /\ serverUp
  /\ Acquiring(a)
  /\ Full
  /\ IF pc[a] = "asked"
     THEN /\ Goto(a, "refused")
          /\ answer' = [answer EXCEPT ![a] = serverGen]
          /\ UNCHANGED <<job, kind, expected>>
     ELSE Return(a)
  /\ UNCHANGED <<serverUp, companyVars, phase, stopping, clientVars,
                 watchVars, jstate, deferral, spawns, faults>>

\* serveHTTP: /release of a lease that the office holds.  (A release of any
\* other would be answered 403, and stop the office: see ReleasesAreKnown.)
Release(a) ==
  /\ serverUp
  /\ pc[a] \in {"returning", "strayRelease"}
  /\ Registered(Home(a))
  /\ owner[a] = Home(a)
  /\ owner' = [owner EXCEPT ![a] = NoOffice]
  /\ used' = used - 1
  /\ serverGen' = serverGen + 1
  /\ IF pc[a] = "returning"
     THEN /\ Goto(a, "returned")
          /\ answer' = [answer EXCEPT ![a] = serverGen']
          /\ UNCHANGED <<job, kind, expected>>
     ELSE Return(a)
  /\ UNCHANGED <<serverUp, phase, stopping, clientVars, watchVars, jstate,
                 deferral, spawns, faults>>

\* Watch pings, as the ticker or a heartbeat is due, and serveHTTP answers.  An
\* answer that is no news is left out: it changes nothing.
Ping(c) ==
  /\ serverUp
  /\ Runs(c)
  /\ watch[c] = "idle"
  /\ ~failure[c]
  /\ serverGen > clientGen[c]
  /\ watch' = [watch EXCEPT ![c] = "answered"]
  /\ pinged' = [pinged EXCEPT ![c] = serverGen]
  /\ UNCHANGED <<serverUp, companyVars, phase, stopping, clientVars, jstate,
                 deferral, attemptVars, spawns, faults>>

\* The last steps of Instance: the process is reaped, then Unregister takes
\* back its leases, and its token is worth nothing any more.
Unregister(c) ==
  /\ serverUp
  /\ phase[c] = "exited"
  /\ phase' = [phase EXCEPT ![c] = "gone"]
  /\ used' = used - Cardinality(Leases(c))
  /\ serverGen' = IF Leases(c) # {} THEN serverGen + 1 ELSE serverGen
  /\ owner' = [a \in Attempts |-> IF a \in Leases(c) THEN NoOffice
                                                    ELSE owner[a]]
  /\ pc' = [a \in Attempts |-> IF a \in Of(c) THEN "idle" ELSE pc[a]]
  /\ Forget(Of(c))
  /\ UNCHANGED <<serverUp, stopping, clientVars, watchVars, jstate, deferral,
                 spawns, faults>>
-----------------------------------------------------------------------------
\* The client and spawnAttempt, when the server granted a lease: a queued job
\* is assigned.
TakeLease(a) ==
  /\ pc[a] = "granted"
  /\ Goto(a, "leased")
  /\ jstate' = IF jstate[job[a]] = "queued"
               THEN [jstate EXCEPT ![job[a]] = "active"] ELSE jstate
  /\ UNCHANGED <<serverUp, companyVars, phase, stopping, clientVars,
                 watchVars, deferral, job, kind, expected, answer, spawns,
                 faults>>

\* The client, when it did not: the generation rises without notice.
NoteDenial(a) ==
  LET c == Home(a) IN
  /\ pc[a] = "refused"
  /\ Goto(a, "denied")
  /\ clientGen' = [clientGen EXCEPT ![c] = Later(answer[a], @)]
  /\ UNCHANGED <<serverUp, companyVars, phase, stopping, failure, watchVars,
                 jstate, deferral, job, kind, expected, answer, spawns,
                 faults>>

\* deferJobSpawn of a denied replacement first puts the job into the queue.
RequeueDenied(a) ==
  /\ pc[a] = "denied"
  /\ kind[a] = "retry"
  /\ jstate[job[a]] = "active"
  /\ jstate' = [jstate EXCEPT ![job[a]] = "queued"]
  /\ UNCHANGED <<serverUp, companyVars, phase, stopping, clientVars,
                 watchVars, deferral, attemptVars, spawns, faults>>

\* recordCapacityDenial stores the deferral, for the dispatcher always, for a
\* replacement only where there is none.
Defers(a) ==
  /\ jstate[job[a]] = "queued"
  /\ kind[a] = "retry" => deferral[job[a]] = "none"

RecordDenial(a) ==
  /\ pc[a] = "denied"
  /\ ~(kind[a] = "retry" /\ jstate[job[a]] = "active")
  /\ \/ /\ Defers(a)
        /\ deferral' = [deferral EXCEPT ![job[a]] = "waiting"]
        /\ Goto(a, "recorded")
        /\ UNCHANGED <<job, kind, expected, answer>>
     \/ /\ ~Defers(a)
        /\ Return(a)
        /\ UNCHANGED deferral
  /\ UNCHANGED <<serverUp, companyVars, phase, stopping, clientVars,
                 watchVars, jstate, spawns, faults>>

\* Mutation: a release that overtook the denial is not looked for.
NeverChanged(c, g) == FALSE

CapacityChangedSince(c, g) == clientGen[c] > g

\* The end of recordCapacityDenial: capacity that became free meanwhile.
CheckCapacity(a) ==
  LET c == Home(a) IN
  /\ pc[a] = "recorded"
  /\ IF CapacityChangedSince(c, answer[a]) THEN CapacityAvailable(c)
                                           ELSE UNCHANGED deferral
  /\ Return(a)
  /\ UNCHANGED <<serverUp, companyVars, phase, stopping, clientVars,
                 watchVars, jstate, spawns, faults>>

\* The backoff of a deferred job is over.
BackoffPasses(j) ==
  /\ deferral[j] = "waiting"
  /\ Fault
  /\ deferral' = [deferral EXCEPT ![j] = "due"]
  /\ UNCHANGED <<serverUp, companyVars, phase, stopping, clientVars,
                 watchVars, jstate, attemptVars, spawns>>

\* Mutation: leaseTransferred is not set, and the deferred release runs.
NotTransferred(a) ==
  /\ pc[a] = "leased"
  /\ ~stopping[Home(a)]
  /\ Goto(a, "live")
  /\ owner' = [owner EXCEPT ![a] = NoOffice]
  /\ used' = used - 1
  /\ serverGen' = serverGen + 1
  /\ deferral' = [deferral EXCEPT ![job[a]] = "none"]
  /\ UNCHANGED <<serverUp, phase, stopping, clientVars, watchVars, jstate,
                 job, kind, expected, answer, spawns, faults>>

\* The session starts and is registered.
SessionStart(a) ==
  /\ pc[a] = "leased"
  /\ ~stopping[Home(a)]
  /\ Goto(a, "live")
  /\ deferral' = [deferral EXCEPT ![job[a]] = "none"]
  /\ UNCHANGED <<serverUp, companyVars, phase, stopping, clientVars,
                 watchVars, jstate, job, kind, expected, answer, spawns,
                 faults>>

\* It does not start, or is killed at once as the office stops: the deferred
\* release gives the lease back.  Only assign requeues the job.
SessionStartFails(a) ==
  /\ pc[a] = "leased"
  /\ IF stopping[Home(a)] THEN UNCHANGED faults ELSE Fault
  /\ Goto(a, "ended")
  /\ expected' = [expected EXCEPT ![a] = kind[a] = "retry"]
  /\ UNCHANGED <<serverUp, companyVars, phase, stopping, clientVars,
                 watchVars, jstate, deferral, job, kind, answer, spawns>>

\* The agent finishes its job; its row is done before its process ends.
AgentDone(a) ==
  /\ pc[a] = "live"
  /\ ~expected[a]
  /\ jstate[job[a]] = "active"
  /\ jstate' = [jstate EXCEPT ![job[a]] = "over"]
  /\ expected' = [expected EXCEPT ![a] = TRUE]
  /\ UNCHANGED <<serverUp, companyVars, phase, stopping, clientVars,
                 watchVars, deferral, pc, job, kind, answer, spawns, faults>>

\* The process of the agent ends, by itself or killed, and is reaped.
AgentExits(a) ==
  /\ pc[a] = "live"
  /\ Goto(a, "ended")
  /\ UNCHANGED <<serverUp, companyVars, phase, stopping, clientVars,
                 watchVars, jstate, deferral, job, kind, expected, answer,
                 spawns, faults>>

\* The release function, once per lease.  A client that has failed before
\* does not send anything.
SendRelease(a) ==
  /\ pc[a] = "ended"
  /\ ~failure[Home(a)]
  /\ Goto(a, "returning")
  /\ UNCHANGED <<serverUp, companyVars, phase, stopping, clientVars,
                 watchVars, jstate, deferral, job, kind, expected, answer,
                 spawns, faults>>

CannotRelease(a) ==
  /\ pc[a] = "ended"
  /\ failure[Home(a)]
  /\ ControlFailed(Home(a))
  /\ Requeue(a)
  /\ Return(a)
  /\ UNCHANGED <<serverUp, companyVars, phase, clientVars, watchVars,
                 deferral, spawns, faults>>

\* Client.Release, when the answer is there.
NoteRelease(a) ==
  LET c == Home(a) IN
  /\ pc[a] = "returned"
  /\ Goto(a, "noted")
  /\ clientGen' = [clientGen EXCEPT ![c] = Later(answer[a], @)]
  /\ answer' = [answer EXCEPT ![a] = 0]
  /\ UNCHANGED <<serverUp, companyVars, phase, stopping, failure, watchVars,
                 jstate, deferral, job, kind, expected, spawns, faults>>

\* The rest of the release function, then watchExit or assign.
FinishRelease(a) ==
  /\ pc[a] = "noted"
  /\ CapacityAvailable(Home(a))
  /\ Requeue(a)
  /\ Return(a)
  /\ UNCHANGED <<serverUp, companyVars, phase, stopping, clientVars,
                 watchVars, spawns, faults>>
-----------------------------------------------------------------------------
\* Mutation: a release without an answer is tried again.
TryAgain(a) == Goto(a, "ended") /\ UNCHANGED <<job, kind, expected, answer>>

\* A release is not repeated: the server may have seen it.
GiveUp(a) == Return(a)

\* A request and its answer take longer than the timeout.  If the context's
\* was first, the client is not marked as failed.
TimesOut(a) ==
  /\ pc[a] \in {"asked", "granted", "refused", "returning", "returned"}
  /\ Runs(Home(a))
  /\ Fault
  /\ ControlFailed(Home(a))
  /\ \E f \in {failure[Home(a)], TRUE} :
       failure' = [failure EXCEPT ![Home(a)] = f]
  /\ \/ /\ pc[a] = "asked"
        /\ Goto(a, "strayAcquire")
        /\ UNCHANGED <<jstate, job, kind, expected, answer>>
     \/ /\ pc[a] = "returning"
        /\ Requeue(a)
        /\ Goto(a, "strayRelease")
        /\ UNCHANGED <<job, kind, expected, answer>>
     \/ /\ pc[a] \in {"granted", "refused"}
        /\ Return(a)
        /\ UNCHANGED jstate
     \/ /\ pc[a] = "returned"
        /\ Requeue(a)
        /\ GiveUp(a)
  /\ UNCHANGED <<serverUp, companyVars, phase, clientGen, watchVars,
                 deferral, spawns>>

\* The company dies: requests that wait for an answer fail.
ControlLost ==
  /\ serverUp
  /\ Fault
  /\ serverUp' = FALSE
  /\ UNCHANGED <<companyVars, phase, stopping, clientVars, watchVars, jstate,
                 deferral, attemptVars, spawns>>

CallFails(a) ==
  /\ ~serverUp
  /\ pc[a] \in {"asked", "returning"}
  /\ Runs(Home(a))
  /\ ControlFailed(Home(a))
  /\ failure' = [failure EXCEPT ![Home(a)] = TRUE]
  /\ IF pc[a] = "returning" THEN Requeue(a) ELSE UNCHANGED jstate
  /\ Return(a)
  /\ UNCHANGED <<serverUp, companyVars, phase, clientGen, watchVars,
                 deferral, spawns, faults>>

\* Ping, when the answer is there.
NotePing(c) ==
  /\ Runs(c)
  /\ watch[c] = "answered"
  /\ watch' = [watch EXCEPT ![c] = IF pinged[c] > clientGen[c] THEN "notify"
                                                               ELSE "idle"]
  /\ clientGen' = [clientGen EXCEPT ![c] = Later(pinged[c], @)]
  /\ pinged' = [pinged EXCEPT ![c] = 0]
  /\ UNCHANGED <<serverUp, companyVars, phase, stopping, failure, jstate,
                 deferral, attemptVars, spawns, faults>>

\* Its call of onCapacityChange.
NotifyCapacityChange(c) ==
  /\ Runs(c)
  /\ watch[c] = "notify"
  /\ watch' = [watch EXCEPT ![c] = "idle"]
  /\ CapacityAvailable(c)
  /\ UNCHANGED <<serverUp, companyVars, phase, stopping, clientVars, pinged,
                 jstate, attemptVars, spawns, faults>>

\* The ping fails, and Watch ends.
PingFails(c) ==
  /\ Runs(c)
  /\ watch[c] \in {"idle", "answered"}
  /\ \/ watch[c] = "idle" /\ (failure[c] \/ ~serverUp) /\ UNCHANGED faults
     \/ ~failure[c] /\ serverUp /\ Fault
  /\ watch' = [watch EXCEPT ![c] = "ended"]
  /\ failure' = [failure EXCEPT ![c] = TRUE]
  /\ ControlFailed(c)
  /\ pinged' = [pinged EXCEPT ![c] = 0]
  /\ UNCHANGED <<serverUp, companyVars, phase, clientGen, jstate,
                 deferral, attemptVars, spawns>>

\* A user stops the office.
UserStops(c) ==
  /\ Runs(c)
  /\ ~stopping[c]
  /\ Fault
  /\ ControlFailed(c)
  /\ UNCHANGED <<serverUp, companyVars, phase, clientVars, watchVars, jstate,
                 deferral, attemptVars, spawns>>

\* What becomes of an attempt when the process of its office ends: a request
\* that the server has not read yet is still on its way.
AfterEnd(stage) ==
  CASE stage \in {"asked", "strayAcquire"}     -> "strayAcquire"
    [] stage \in {"returning", "strayRelease"} -> "strayRelease"
    [] OTHER                                   -> "idle"

\* The process of the office ends, and those of its agents with it.
ProcessEnds(c) ==
  /\ Runs(c)
  /\ phase' = [phase EXCEPT ![c] = "exited"]
  /\ stopping' = [stopping EXCEPT ![c] = FALSE]
  /\ failure' = [failure EXCEPT ![c] = FALSE]
  /\ clientGen' = [clientGen EXCEPT ![c] = 0]
  /\ watch' = [watch EXCEPT ![c] = "ended"]
  /\ pinged' = [pinged EXCEPT ![c] = 0]
  /\ CapacityAvailable(c)
  /\ pc' = [a \in Attempts |-> IF a \in Of(c) THEN AfterEnd(pc[a]) ELSE pc[a]]
  /\ Forget({a \in Of(c) : AfterEnd(pc[a]) = "idle"})
  /\ UNCHANGED <<serverUp, companyVars, jstate, spawns>>

\* Close, after a stop: KillAll waits a bounded time, and the process ends.
Exit(c) == stopping[c] /\ ProcessEnds(c) /\ UNCHANGED faults

\* The process is killed, or crashes.
Crash(c) == ~stopping[c] /\ Fault /\ ProcessEnds(c)
-----------------------------------------------------------------------------
ServerStep(a) == Grant(a) \/ Refuse(a) \/ Release(a)

SpawnStep(a) ==
  \/ TakeLease(a) \/ NoteDenial(a) \/ RequeueDenied(a) \/ RecordDenial(a)
  \/ CheckCapacity(a) \/ SessionStart(a) \/ SessionStartFails(a)

ReleaseStep(a) ==
  SendRelease(a) \/ CannotRelease(a) \/ NoteRelease(a) \/ FinishRelease(a)

WatchStep(c) ==
  Ping(c) \/ NotePing(c) \/ NotifyCapacityChange(c) \/ PingFails(c)

AttemptStep(a) ==
  \/ ServerStep(a) \/ SpawnStep(a) \/ ReleaseStep(a) \/ CallFails(a)
  \/ HandshakeTimeout(a) \/ AgentDone(a) \/ AgentExits(a) \/ TimesOut(a)

OfficeStep(c) ==
  \/ Register(c) \/ Unregister(c) \/ WatchStep(c)
  \/ UserStops(c) \/ Exit(c) \/ Crash(c)

Next ==
  \/ \E a \in Attempts : AttemptStep(a)
  \/ \E c \in Offices : OfficeStep(c)
  \/ \E j \in Jobs : Dispatch(j) \/ BackoffPasses(j)
  \/ ControlLost

Spec == Init /\ [][Next]_vars

\* What the company and the offices do by themselves: the server answers, the
\* goroutines of a spawn and of Watch run, calls return or fail, an office that
\* stops exits, and the manager notices.  Nothing is assumed of agents, users,
\* the dispatcher and the backoff.
Fairness ==
  /\ \A a \in Attempts : /\ WF_vars(ServerStep(a))
                         /\ WF_vars(ReleaseStep(a))
                         /\ WF_vars(CallFails(a))
                         /\ WF_vars(TakeLease(a) \/ SessionStart(a))
  /\ \A c \in Offices : /\ WF_vars(WatchStep(c))
                        /\ WF_vars(Exit(c))
                        /\ WF_vars(Unregister(c))

FairSpec == Spec /\ Fairness
-----------------------------------------------------------------------------
TypeOK ==
  /\ serverUp \in BOOLEAN
  /\ used \in Nat
  /\ serverGen \in Nat
  /\ owner \in [Attempts -> Offices \cup {NoOffice}]
  /\ phase \in [Offices -> {"none", "running", "exited", "gone"}]
  /\ stopping \in [Offices -> BOOLEAN]
  /\ failure \in [Offices -> BOOLEAN]
  /\ clientGen \in [Offices -> Nat]
  /\ watch \in [Offices -> {"idle", "answered", "notify", "ended"}]
  /\ pinged \in [Offices -> Nat]
  /\ jstate \in [Jobs -> {"queued", "active", "over"}]
  /\ deferral \in [Jobs -> {"none", "waiting", "due"}]
  /\ pc \in [Attempts -> Stages]
  /\ job \in [Attempts -> Jobs \cup {NoJob}]
  /\ kind \in [Attempts -> {"dispatch", "retry"}]
  /\ expected \in [Attempts -> BOOLEAN]
  /\ answer \in [Attempts -> Nat]
  /\ spawns \in Nat
  /\ faults \in Nat

\* The counter agrees with the leases, which are never more than the limit,
\* whatever is released, lost or unregistered in whichever order.
LeasesCounted ==
  /\ used = Cardinality({a \in Attempts : owner[a] # NoOffice})
  /\ used <= Limit

\* A process of an agent that takes capacity has a lease as long as it runs:
\* the lease is there before the session starts, and is not given back before
\* the process is reaped, nor twice, nor by somebody else.
AgentsHoldLeases ==
  \A a \in Attempts : pc[a] \in {"leased", "live", "ended"} =>
                        owner[a] = Home(a)

\* The server never answers "unknown lease" to an office: that answer makes
\* controlFailed stop all its agents.
ReleasesAreKnown ==
  \A a \in Attempts :
    pc[a] \in {"returning", "strayRelease"} => owner[a] = Home(a)

\* The office will learn that there is free capacity, or is about to act on
\* it: a later ping will show a change, or the goroutine that learned of the
\* change has not called capacityAvailable yet.
WakeupComes(c) ==
  \/ serverGen > clientGen[c] /\ watch[c] # "ended"
  \/ watch[c] = "notify"
  \/ \E a \in Of(c) : pc[a] = "noted"
  \/ \E a \in Of(c) : pc[a] = "recorded" /\ clientGen[c] > answer[a]

\* No wake-up is lost: a job does not wait for its backoff while there is free
\* capacity that its office will hear nothing of (client.go, "reports a release
\* observed after the given denial").
NoLostWakeup ==
  \A j \in Jobs :
    LET c == HomeOf[j] IN
    (Runs(c) /\ ~stopping[c] /\ deferral[j] = "waiting" /\ ~Full)
      => WakeupComes(c)

\* Leases that nobody uses any more come back, even those whose answer was
\* lost and those of an office that crashed.
UnusedLeaseReturns ==
  \A a \in Attempts :
    (owner[a] # NoOffice /\ pc[a] \notin {"granted", "leased", "live"})
      ~> (owner[a] = NoOffice \/ ~serverUp)

\* Offices fail closed: when the company is gone, its offices end.
LossEndsOffices ==
  \A c \in Offices : (~serverUp /\ Runs(c)) ~> ~Runs(c)
=============================================================================
