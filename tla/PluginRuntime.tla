---------------------------- MODULE PluginRuntime ----------------------------
(***************************************************************************)
(* The plugin manager of a running office (internal/plugins/plugins.go,    *)
(* manual.go and snapshot.go): the emissions that run hooks while others    *)
(* do, the bounded queue of asynchronous events, the cron loop, the manual  *)
(* triggers with their audit records, and the close that has to outlast     *)
(* all of them, driven by the office's own close (office.go, Close) and the *)
(* safe shutdown (supervisor/shutdown.go, EmitShutdown).                    *)
(*                                                                         *)
(* Every plugin has one hook for each event. An emission goes through the  *)
(* plugins in load order, 1 to n; a lifecycle emission keeps the read lock *)
(* lifecycleMu all the way, any other takes it for each hook. A hook ends  *)
(* by itself, with or without an error, or when its timeout kills it.      *)
(***************************************************************************)
EXTENDS Naturals, Sequences, FiniteSets

CONSTANTS
  N,               \* The number of plugins.
  Triggers,        \* The manual triggers that may come, all of the plugin 1.
  QueueLimit,      \* The capacity of the channel async (256 in the code).
  MaxPluginEvents  \* Bound: emissions the environment starts.

Plugins == 1..N
Passes == {"startup", "shutdown"}
Emissions == {"create", "nested", "async"} \cup Passes
Tasks == Emissions \cup {"cron"} \cup Triggers
Closers == {"run", "office"}

VARIABLES
  task,          \* [Tasks -> stage]: where the goroutine of an emission is.
  at,            \* [Tasks -> Plugins]: how far it is among the plugins.
  queue,         \* The events in async.
  dropped,       \* The events of which plugin_event_dropped was recorded.
  running,       \* [Plugins -> Nat]: the hooks of the plugin that are running.
  state,         \* [Plugins -> plugin_runtime.state].
  manualActive,  \* The plugins a manual trigger is under way for.
  manualClosing,
  requested,     \* The triggers with an identified plugin_manual_requested record.
  outcomes,      \* Those with a plugin_manual_completed or _failed record, or whose
                 \* caller was told that it could not be written.
  closer,        \* [Closers -> stage]: the two calls of Close.
  closed, snapshotDir,
  unloaded,      \* The plugins whose unload hook ran, in that order.
  shutdownBy,    \* Who emits the shutdown event: none, safe or office.
  closing,       \* How far Office.Close is.
  pluginEvents

vars == <<task, at, queue, dropped, running, state, manualActive, manualClosing, requested,
          outcomes, closer, closed, snapshotDir, unloaded, shutdownBy, closing, pluginEvents>>

Stages == {"idle", "lock", "hook", "outcome", "release"}

TypeOK ==
  /\ task \in [Tasks -> Stages \cup {"admitted", "over"}] /\ at \in [Tasks -> Plugins]
  /\ Len(queue) <= QueueLimit /\ dropped \in Nat
  /\ running \in [Plugins -> 0..Cardinality(Tasks)]
  /\ state \in [Plugins -> {"ready", "running", "error"}]
  /\ manualActive \subseteq Plugins /\ requested \subseteq Triggers /\ outcomes \subseteq Triggers
  /\ closer \in [Closers -> {"idle", "cancelled", "pending", "unload", "done"}]
  /\ {manualClosing, closed, snapshotDir} \subseteq BOOLEAN
  /\ unloaded \in Seq(Plugins)
  /\ shutdownBy \in {"none", "safe", "office"}
  /\ closing \in {"no", "emitting", "emitted", "cancelled", "joining", "closed"}

Init ==
  /\ task = [t \in Tasks |-> "idle"] /\ at = [t \in Tasks |-> 1]
  /\ queue = <<>> /\ dropped = 0
  /\ running = [p \in Plugins |-> 0] /\ state = [p \in Plugins |-> "ready"]
  /\ manualActive = {} /\ manualClosing = FALSE /\ requested = {} /\ outcomes = {}
  /\ closer = [c \in Closers |-> "idle"]
  /\ closed = FALSE /\ snapshotDir = TRUE /\ unloaded = <<>>
  /\ shutdownBy = "none" /\ closing = "no" /\ pluginEvents = 0

runtime == <<queue, dropped>>
status == <<running, state>>
manual == <<manualActive, manualClosing, requested, outcomes>>
ending == <<closer, closed, snapshotDir, unloaded>>
office == <<shutdownBy, closing>>

\* The context of the runtime loops, cancelled by Office.Close.
Cancelled == closing \in {"cancelled", "joining", "closed"}

----------------------------------------------------------------------------
(* lifecycleMu, a readers-writer lock: a writer that waits holds new readers *)
(* back, and a hook that runs is a reader.                                   *)

Readers == {t \in Tasks : task[t] = "hook"}
MayRead == \A c \in Closers : closer[c] \notin {"pending", "unload"}
MayWrite(c) == Readers = {} /\ \A d \in Closers \ {c} : closer[d] # "unload"

----------------------------------------------------------------------------
(* What starts an emission.                                                  *)

Begin(t, stage) ==
  /\ pluginEvents < MaxPluginEvents /\ pluginEvents' = pluginEvents + 1
  /\ task[t] = "idle"
  /\ task' = [task EXCEPT ![t] = stage] /\ at' = [at EXCEPT ![t] = 1]

\* A job is created: the handler of the verb runs the hooks.
CreateJob == Begin("create", "lock") /\ UNCHANGED <<runtime, status, manual, ending, office>>

\* The hook's command calls a verb of the office that emits an event itself.
HookCallsBack ==
  /\ task["create"] = "hook" /\ Begin("nested", "lock")
  /\ UNCHANGED <<runtime, status, manual, ending, office>>

\* The office has started; the emission may still run when it closes.
Startup == /\ Begin("startup", "lock") /\ closing = "no"
           /\ UNCHANGED <<runtime, status, manual, ending, office>>

CronTicks ==
  /\ ~Cancelled /\ Begin("cron", "lock")
  /\ UNCHANGED <<runtime, status, manual, ending, office>>

EmitAsync ==
  /\ pluginEvents < MaxPluginEvents /\ pluginEvents' = pluginEvents + 1
  /\ IF Len(queue) < QueueLimit THEN queue' = Append(queue, "event") /\ dropped' = dropped
     ELSE queue' = queue /\ dropped' = dropped + 1
  /\ UNCHANGED <<task, at, status, manual, ending, office>>

\* Run takes an event; it may do so once more when it is cancelled.
RunTakes ==
  /\ closer["run"] = "idle" /\ task["async"] = "idle" /\ queue # <<>>
  /\ queue' = Tail(queue)
  /\ task' = [task EXCEPT !["async"] = "lock"] /\ at' = [at EXCEPT !["async"] = 1]
  /\ UNCHANGED <<dropped, status, manual, ending, office, pluginEvents>>

----------------------------------------------------------------------------
(* A hook under the lock, and what follows it.                               *)

Over(t) == IF t \in Triggers THEN "outcome" ELSE IF t \in Passes THEN "over" ELSE "idle"

\* The plugins whose hook t runs, in that order: cron and manual hooks are of one
\* plugin, the shutdown event goes through them in reverse.
LastOf(t) == IF t \in Emissions THEN N ELSE 1
Plugin(t, k) == IF t = "shutdown" THEN N + 1 - k ELSE k

TakeLock(t) ==
  /\ task[t] = "lock" /\ MayRead
  /\ IF closed
     THEN /\ task' = [task EXCEPT ![t] = Over(t)] /\ UNCHANGED status
     ELSE /\ task' = [task EXCEPT ![t] = "hook"]
          /\ running' = [running EXCEPT ![Plugin(t, at[t])] = @ + 1]
          /\ state' = [state EXCEPT ![Plugin(t, at[t])] = "running"]
  /\ UNCHANGED <<at, runtime, manual, ending, office, pluginEvents>>

SetHookFinished(p, err) ==
  [state EXCEPT ![p] = IF err THEN "error" ELSE IF running[p] > 1 THEN "running" ELSE "ready"]

HookEnds(t, err) ==
  /\ task[t] = "hook"
  /\ LET p == Plugin(t, at[t])
         finished == [running EXCEPT ![p] = @ - 1]
         next == Plugin(t, at[t] + 1)
     IN  IF at[t] = LastOf(t)
         THEN /\ task' = [task EXCEPT ![t] = Over(t)] /\ at' = at
              /\ running' = finished /\ state' = SetHookFinished(p, err)
         ELSE /\ at' = [at EXCEPT ![t] = @ + 1]
              /\ IF t \in Passes   \* the lock is kept
                 THEN /\ task' = task
                      /\ running' = [finished EXCEPT ![next] = @ + 1]
                      /\ state' = [SetHookFinished(p, err) EXCEPT ![next] = "running"]
                 ELSE /\ task' = [task EXCEPT ![t] = "lock"]
                      /\ running' = finished /\ state' = SetHookFinished(p, err)
  /\ UNCHANGED <<runtime, manual, ending, office, pluginEvents>>

\* A hook that called the office waits for the answer.
HookReturns(t) ==
  /\ t = "create" => task["nested"] = "idle"
  /\ \E err \in BOOLEAN : HookEnds(t, err)

\* mutant: the timeout does not reach a hook that waits for the office.
TimesOutUnlessCalling(t) == (t = "create" => task["nested"] = "idle") /\ HookEnds(t, TRUE)

HookTimesOut(t) == HookEnds(t, TRUE)

----------------------------------------------------------------------------
(* Manual triggers: admitted, recorded, run, their outcome recorded, released. *)

Admit(m) ==
  /\ pluginEvents < MaxPluginEvents /\ pluginEvents' = pluginEvents + 1
  /\ task[m] = "idle" /\ ~manualClosing /\ 1 \notin manualActive
  /\ manualActive' = manualActive \cup {1}
  /\ task' = [task EXCEPT ![m] = "admitted"]
  /\ UNCHANGED <<at, runtime, status, manualClosing, requested, outcomes, ending, office>>

\* A trigger whose request cannot be recorded, or not be identified, does not run.
RecordRequest(m) ==
  /\ task[m] = "admitted"
  /\ \/ requested' = requested \cup {m} /\ task' = [task EXCEPT ![m] = "lock"]
     \/ requested' = requested /\ task' = [task EXCEPT ![m] = "release"]
  /\ UNCHANGED <<at, runtime, status, manualActive, manualClosing, outcomes, ending, office, pluginEvents>>

RecordOutcome(m) ==
  /\ task[m] = "outcome" /\ outcomes' = outcomes \cup {m}
  /\ task' = [task EXCEPT ![m] = "release"]
  /\ UNCHANGED <<at, runtime, status, manualActive, manualClosing, requested, ending, office, pluginEvents>>

ReleaseManual(m) ==
  /\ task[m] = "release" /\ manualActive' = manualActive \ {1}
  /\ task' = [task EXCEPT ![m] = "over"]
  /\ UNCHANGED <<at, runtime, status, manualClosing, requested, outcomes, ending, office, pluginEvents>>

\* What manualWG counts.
Pending == {m \in Triggers : task[m] \notin {"idle", "over"}}

TriggerStep == \E m \in Triggers : Admit(m) \/ RecordRequest(m) \/ RecordOutcome(m) \/ ReleaseManual(m)

----------------------------------------------------------------------------
(* Close, called by Run when it ends and by the office.                      *)

MayClose(c) ==
  IF c = "office" THEN closing = "cancelled"
  ELSE Cancelled /\ task["async"] = "idle" /\ task["cron"] = "idle"

CloseBegins(c) ==
  /\ closer[c] = "idle" /\ MayClose(c)
  /\ manualClosing' = TRUE /\ closer' = [closer EXCEPT ![c] = "cancelled"]
  /\ UNCHANGED <<task, at, runtime, status, manualActive, requested, outcomes, closed,
                 snapshotDir, unloaded, office, pluginEvents>>

\* mutant: the close does not wait for the triggers it admitted.
WaitsForNone(c) ==
  /\ closer[c] = "cancelled"
  /\ closer' = [closer EXCEPT ![c] = "pending"]
  /\ UNCHANGED <<task, at, runtime, status, manual, closed, snapshotDir, unloaded, office, pluginEvents>>

WaitForTriggers(c) ==
  /\ closer[c] = "cancelled" /\ Pending = {}
  /\ closer' = [closer EXCEPT ![c] = "pending"]
  /\ UNCHANGED <<task, at, runtime, status, manual, closed, snapshotDir, unloaded, office, pluginEvents>>

LockForUnload(c) ==
  /\ closer[c] = "pending" /\ MayWrite(c)
  /\ closer' = [closer EXCEPT ![c] = IF closed THEN "done" ELSE "unload"]
  /\ UNCHANGED <<task, at, runtime, status, manual, closed, snapshotDir, unloaded, office, pluginEvents>>

\* The unload hooks in reverse order, then the private copies go.
Unload(c) ==
  /\ closer[c] = "unload"
  /\ IF Len(unloaded) < N
     THEN unloaded' = Append(unloaded, N - Len(unloaded)) /\ UNCHANGED <<closer, closed, snapshotDir>>
     ELSE /\ closed' = TRUE /\ snapshotDir' = FALSE /\ closer' = [closer EXCEPT ![c] = "done"]
          /\ UNCHANGED unloaded
  /\ UNCHANGED <<task, at, runtime, status, manual, office, pluginEvents>>

CloseStep == \E c \in Closers : CloseBegins(c) \/ WaitForTriggers(c) \/ LockForUnload(c) \/ Unload(c)

----------------------------------------------------------------------------
(* The shutdown event, emitted once by whoever comes first, and Office.Close. *)

EmitShutdown(by) ==
  /\ shutdownBy' = by
  /\ task' = [task EXCEPT !["shutdown"] = "lock"] /\ at' = [at EXCEPT !["shutdown"] = 1]

SafeShutdown ==
  /\ shutdownBy = "none" /\ EmitShutdown("safe")
  /\ UNCHANGED <<runtime, status, manual, ending, closing, pluginEvents>>

OfficeCloses ==
  /\ closing = "no"
  /\ IF shutdownBy = "none" THEN EmitShutdown("office") /\ closing' = "emitting"
     ELSE closing' = "emitted" /\ UNCHANGED <<task, at, shutdownBy>>
  /\ UNCHANGED <<runtime, status, manual, ending, pluginEvents>>

OfficeStep ==
  /\ \/ closing = "emitting" /\ task["shutdown"] = "over" /\ closing' = "emitted"
     \/ closing = "emitted" /\ closing' = "cancelled"
     \/ closing = "cancelled" /\ closer["office"] = "done" /\ closing' = "joining"
     \/ closing = "joining" /\ closer["run"] = "done" /\ closing' = "closed"
  /\ UNCHANGED <<task, at, runtime, status, manual, ending, shutdownBy, pluginEvents>>

----------------------------------------------------------------------------
EmissionStarts == CreateJob \/ HookCallsBack \/ Startup \/ CronTicks \/ EmitAsync
LockStep == \E t \in Tasks : TakeLock(t)
HookStep == \E t \in Tasks : HookReturns(t) \/ HookTimesOut(t)
OfficeStops == SafeShutdown \/ OfficeCloses \/ OfficeStep

Next == EmissionStarts \/ RunTakes \/ LockStep \/ HookStep \/ TriggerStep \/ CloseStep \/ OfficeStops

\* What the goroutine of an emission, and of a manual trigger, does next.
GoesOn(t) == TakeLock(t) \/ HookTimesOut(t)
TriggerGoesOn(m) == GoesOn(m) \/ RecordRequest(m) \/ RecordOutcome(m) \/ ReleaseManual(m)

\* Goroutines that can go on do, and no hook runs past its timeout.
Fairness ==
  /\ \A t \in Tasks \ Triggers : WF_vars(GoesOn(t))
  /\ \A m \in Triggers : WF_vars(TriggerGoesOn(m))
  /\ WF_vars(CloseStep) /\ WF_vars(OfficeStep)

Spec == Init /\ [][Next]_vars /\ Fairness

----------------------------------------------------------------------------
\* Unload is the last a plugin sees: while and after the unload hooks run, in
\* reverse order and once each, no other hook runs; the private copies hooks run
\* from are there until then; every manual trigger that was recorded has its
\* outcome recorded by then, also before the office closes its database; and a
\* plugin none of whose hooks runs is not listed as running.
PluginsUnloadLast ==
  /\ (closed \/ unloaded # <<>>) =>
       /\ Readers = {} /\ requested \subseteq outcomes /\ manualActive = {}
  /\ \A i \in 1..Len(unloaded) : unloaded[i] = N + 1 - i
  /\ ~snapshotDir => closed /\ Len(unloaded) = N
  /\ closing = "closed" => closed /\ requested \subseteq outcomes
  /\ \A p \in Plugins : /\ running[p] = Cardinality({t \in Readers : Plugin(t, at[t]) = p})
                        /\ state[p] = "running" => running[p] > 0

\* An office that closes gets past its plugins, whatever their hooks do - call
\* the office and wait for an answer the close holds back, or hang.
PluginsClose == []<>(closing # "no" => closing = "closed")
=============================================================================
