# One-man office: TLA+ models and proofs

`omo` runs an office of AI coding agents: a supervisor process keeps jobs and
agents in SQLite, starts one process per agent, and moves the jobs along as the
agents call verbs on a Unix socket. Nothing in it is distributed, but almost
everything is concurrent: one goroutine per request, per session, per handshake,
a dispatcher, half a dozen loops, users who cancel and kill, processes that die
at any time, and git merges that take seconds and hold no lock on the job.
Around an office there are its files, which setup and updates replace, plugins,
a company process that runs several offices for a dashboard, and the program's
own update. This directory models that behaviour, checks it with TLC, and proves
its safety - of jobs, agents and leases, of the parts of an office and of what
surrounds one - for every size with TLAPS.

All paths below are relative to `src/`; `sup/` is `internal/supervisor/`.

## Inventory

| Component | State it keeps | Operations | What is hard | What makes it correct |
|---|---|---|---|---|
| Job queue (`internal/queue/queue.go`) | `jobs` rows: state, assignee, retries, branch, parent | Create, Transition, Retry, SetAssignee, IncrementRetries | callers ignore refused transitions | a row follows the edge table; done means merged |
| Dispatcher (`sup/dispatch.go`) | nothing but the job it is preparing | dispatchOnce, hasCapacity, assign | lists jobs, then spends seconds on git and profiles | every queued job starts; limits hold; one developer per job |
| Spawning (`sup/spawn.go`) | `agents` rows, `sessions` map | spawnAttempt, watchHandshake, watchExit, handleDeath | row before process; two watchers per agent; retries | no living row without a process; no lost job |
| Verbs (`sup/verbs.go`) | `waiters`, agent states | ready, wait, step, done, reapLater | blocked handlers outlive their agent and write its row | an ended row comes back only by such a write, and without a process |
| Review and merge (`sup/review.go`, `sup/merge_target.go`) | `reviewMu`, review counters | developerDone, spawnReviewer, mergeVerdict, rejectVerdict, overrideReview, finalizeMergingJob | three callers spawn reviewers; the merge runs unlocked | one fresh reviewer; a merging job moves on; the developer is retired |
| Management (`sup/management.go`, `sup/fire.go`, `sup/safemode.go`) | halt flags | CancelJob, RequeueJob, StopAgent, pause, halt-spawns | acts on whatever the others are doing | no second developer, no stranded job |
| Office (`internal/office/office.go`, `instance.go`) | instance lock, loops | recover, Start, Close | stops anywhere; two processes in one directory | unfinished jobs come back; one owner; Close ends |
| Company capacity (`internal/company/controlplane`, `sup/capacity.go`) | leases, generation, deferred spawns | Acquire, Release, Ping, deferral and resumption | lost answers, missed wake-ups | used <= limit; a deferred spawn resumes |
| Mail and wake-ups (`internal/bus`, `sup/supervisor.go`) | `messages`, waiters, pending notifications, timers | Send, Inbox, wait, DeliverMailNotification, flush | notification against timeout and debounce | unread mail is announced |
| Agent input (`sup/input.go`) | one FIFO per agent, timers | agent.input, flushAgentInput | session ends, debounce | inputs in order, each caller answered once |
| Smoke alarms and incidents (`sup/smoke.go`, `internal/db/incidents.go`) | incidents, rounds, firefighterPaused | SmokeLoop, incident.create, nextOpenIncident | rounds time out, alarms race | one firefighter per incident, none forgotten |
| CEO (`sup/spawn.go`, `sup/management.go`) | restart window, the CEO's row and session | respawnCEO, handleDeath, watchHandshake, restart | three goroutines each start the next one; errors are dropped | one CEO; restarts bounded; a dead one replaced or its end known, but for a failed spawn |
| Safe shutdown (`sup/shutdown.go`) and close (`internal/office/office.go`) | targets, context rows, loops | BeginSafeShutdown, awaitSafeShutdown, EmitShutdown, Close | acknowledgement against timeout; loops that wait | waits for all or the deadline; Close ends |
| Branch naming (`sup/branches.go`) | waiter per job | branchNameForJob, branch.name | answer against timeout and cancel | an accepted name is the one used |
| Git and worktrees (`internal/gitops`, `sup/integration.go`, `sup/worktree_cleanup.go`) | worktrees, branches | EnsureWorktree, MergeBranchInto, cleanup | failures half way | no work is lost |
| Usage (`internal/modelusage`, `sup/usage*.go`) | snapshots per credential scope, stop flags | Fetch, Refresh, UsageLoop, roleProfile, both stops | concurrent fetches, failures | stops when all is used up, and only if that is proven |
| Sessions (`internal/session`) | pty, screen, log files, carried query bytes | Start, Kill, pump, TailLog, rotate, answerQueries | pump against writers; reads cut anywhere | what was shown is logged once; queries are answered |
| Plugins (`internal/plugins`) | loaded plugins, event queue, running hooks, catalog rows | load, Emit, manual triggers, Close, company files | slow hooks, shutdown, shadowing and versions | loaded in order, unloaded last; what is declared is served |
| Plugin manager (`internal/pluginmanager`) | installed directories, configuration | SyncAt, Sync, SetEnabled | crashes, failed removals, concurrent editors and loaders | a report says what was done; a whole copy stays on disk; loaders take whole plugins |
| Setup and templates (`internal/office/setup.go`, `internal/cli/setup.go`, `startup.go`) | an office's directories, version marker | setup, template update, roll-back | failures and crashes between replacements, and in the roll-back | all replaced or all as before, but for what the roll-back could not restore; the user's own files stay |
| Self-update (`internal/selfupdate`, `internal/cli/self_update.go`) | the executable, staged files | Latest, install, replace | two updaters, crashes, Windows renames | the executable is whole; an asked version stays |
| Company service (`internal/companyservice`) | two lock files, `runtime.json` | run, start, stop | crashes, waiting starters | one company, found and stopped as reported |
| Company projects (`internal/company/manager.go`, `server.go`, `projects.go`) | trusted offices, children | trust, untrust, reorder, start, estop, kill, Close | checks made before the mutex; refused signals, failed listings, crashed offices | one office per directory, trusted unless an untrust overlapped; Close leaves only what it could not stop or find |
| Company terminals (`internal/company/instances.go`, `terminal.go`) | queue, replay, streams, exit | read, write, attach, finish | slow viewers, late output | what is shown is what was written; the exit is reported |
| Company commands (`internal/company/commands.go`) | slots, one child each | start, stdin, exit event | stalled clients, limits, exits | every command is answered as it ended |
| Terminal UI (`internal/tui`) | mode, tab, selection, cached rows, console | keys, clicks, ticks, actions | rows move under the cursor | it acts on what was seen |
| Instance lock (`internal/office/instance.go`) | a file | claim, release | durations | not modelled |
| Configuration, socket server, prompts, names, exporter | files | sequential | none | not modelled |

The parts interact through the two tables and through goroutines: the
dispatcher and the verbs write `jobs`, spawning writes `agents`, the watchers
read both and write what they find, and management writes either at any time.
`kickDispatch` and the tick only make the dispatcher look again.

The other parts of an office (inputs, alarms, incidents, the CEO, shutdown,
naming, worktrees, transcripts) have tables, mutexes and goroutines of their
own, and what surrounds an office (plugins, files, company, terminal UI, usage)
meets it only in calls whose answers may take any value here. So each has a
module of its own whose environment is what its callers may do at any time.

## The modules

| Module | Content |
|---|---|
| `JobStates` | the edge table of `queue.go` and the sets of states that handleDeath, recover and cleanup use |
| `JobLifecycle` | the life cycle of developer jobs, with its fairness and its properties |
| `JobBoard` | what the job list promises to whoever watches it: jobs and merged branches, no agents |
| `JobLifecycleBoard` | `JobLifecycle` as an implementation of `JobBoard` |
| `MCJobLifecycle` | the instances for TLC; one `.cfg` per run |
| `JobLifecycleProofs` | in this order: types and agent rows; verdict handlers; agents, retries and limits; who works on a job; that the life cycle implements `JobBoard` |
| `ControlPlane` | the company's leases, the offices that need them, and the spawns that were denied |
| `MCControlPlane` | its instances for TLC |
| `ControlPlaneProofs` | the count of the leases, who holds them, and that no wake-up is lost |
| `InputFIFO` | what `agent.input` promises its callers |
| `AgentIO` | mail, waits, notifications and inputs of one agent; implements `InputFIFO` |
| `SmokeRounds`, `Incidents` | the rounds of smoke alarms; incidents and their firefighters |
| `CEORestart` | the ends and replacements of the CEO |
| `OfficeStop` | safe shutdown, emergency stop, Close, and handoffs |
| `BranchNaming`, `Worktrees` | names of branches; branches and worktrees from dispatch to clean-up |
| `SessionLog`, `TerminalQueries` | a session's transcript; its answers to terminal queries |
| `Office` | these parts of an office, but `TerminalQueries`, composed |
| `MCOffice` | its instance for TLC |
| `OfficeProofs` | its parts that meet no git: inputs, naming, incidents, shutdown, the CEO, alarms, transcripts; then its branches and worktrees, and the types of all its parts |
| `SemVer`, `PluginLoad` | versions and constraints; loading of plugins |
| `PluginRuntime` | hooks, events, manual triggers and the close of the plugin manager |
| `PluginUpdates`, `PluginWeb` | installation of plugins; the files they show to the browser |
| `OfficeSetup`, `SelfUpdate` | an office's files and templates; the executable |
| `CompanyService`, `CompanyProjects` | the one company process; its offices and children |
| `CompanyTerminal`, `CompanyCommand` | terminals and commands of the dashboard |
| `TuiScreens` | the terminal UI |
| `ModelUsage` | usage limits and the stops that follow from them |
| `Home` | what surrounds an office, and `TerminalQueries`, composed |
| `MCHome` | its instance for TLC |
| `HomeFileProofs` | the files: the executable, the plugins' directories, an office's own |
| `HomeCompanyProofs` | the company's commands, its one process, its terminals |
| `HomePluginProofs` | loading and running plugins, and the files they show |
| `HomeScreenProofs` | the company's offices, the terminal UI, model usage, terminal queries |
| `HomeProofs` | what all parts of `Home` are promised together |

### JobLifecycle

*State.* `jstate`, `assignee`, `retries` are columns of `jobs`; `role`, `ajob`,
`astate` columns of `agents`, where agent `n` is the `n`-th row ever inserted
(`names.Pick` never reuses a name). The rest is in the supervisor's memory:
`sess` is the session (starting until it is registered, exited until watchExit
has seen it); `via` and `attempt` are what the goroutines of an agent remember
of its spawn; `respawn` says that a goroutine killed the agent and is about to
replace it; `verdict` and `seen` are the local variables of a merge verdict
handler; `disp` and `reviewing` the jobs that assign and spawnReviewer hold;
`parked` a verb that will write its agent's row: a blocked `omo wait`, or an
`omo ready` between its checks and its write; `halted` either halt flag. `landed` is in no
table: it says that the branch was merged since the job was last queued.

*Granularity.* SQLite has one connection and its statements are short, so a
handler is one action up to the next point at which it waits for something
else: git, a process start, a provider, a sleep, a channel. There it is cut, and
the next action continues from what the handler remembered, whatever became of
the rows meanwhile. So assign is `DispatchPick`, then `DispatchSpawn` (or
`DispatchPrepFails`, `DispatchHalted`), then `SessionStart` or
`SessionStartFails`; spawnReviewer is `ReviewBegin`, `ReviewSpawn`, and the same
session start; mergeVerdict is `VerdictMerge`, `MergeLands` or `MergeFails`,
`Finalize`; a restart is `UserRestarts`, `RestartSpawn`; a missed handshake
`HandshakeTimeout`, then `RetrySpawn` or `RetryDeferred`.

`omo ready` waits for nothing, but its handler takes no lock either: Auth and
GetAgent read the row in statements of their own, and SetAgentState writes it
whatever it has become. So `Ready` is the handler with nothing in between, and
`ReadyLooks`, `ReadyWrites` the handler that is held up there (event slow), so
that a kill, a missed handshake or anything else comes between.
Elsewhere what a handler reads and writes between two waits is one step. That
leaves out one thing: handleDeath reads the job (spawn.go:511) and takes it back
a few statements later (spawn.go:532), and what another handler does in between
the model puts before or after both. The job board refuses what is no edge.

*Environment.* `Env` names the kinds of event that may happen, and `MaxFaults`
bounds how many: exit (a process ends by itself), late (the ready deadline is
missed), startfail, conflict, reject, quit (a reviewer leaves without a
verdict), override (a product manager overrules a rejection), cancel, kill,
restart, requeue (of a job that is over), requeueAny, halt, reboot, wait (agents
use it), slow (a ready is held up).
`MaxAgents` bounds the rows of one behaviour: when they are used up nothing more
is spawned, so liveness runs give every fault enough rows for what it costs.

*Left out of it*: product managers and freelancers as jobs of their own (a child
job is a member of `Children`), company leases (see `ControlPlane`), mail,
incidents, the contents of worktrees (see `Worktrees`), the CEO (see
`CEORestart`). A refused `profile` is part of
`DispatchPrepFails`; a retry whose profile selection fails is not modelled.

### ControlPlane

`omo company` runs several offices, each a child process with a token, and
limits how many agents they have together. An office asks for a lease before it
starts an agent and returns it when the agent's process was reaped. One that is
denied puts the job off; it looks again when its backoff is over, or when it
learns that a lease came back: from its own release, from the answer to a ping
that shows a higher capacity generation, or, if the news arrived while the
denial was being recorded, from a last look after that.

*State.* `used`, `serverGen`, `owner` are the server's counter, generation and
the leases of its children; `phase` is the office's process as its `Instance`
sees it. `failure` and `clientGen` belong to the office's client (a client that
has seen no generation is one at 0, which compares alike), `watch` and `pinged`
to its Watch loop, `stopping` to its supervisor. `jstate` keeps of a job only
whether it is queued, has an agent, or is over; `deferral` is its entry in
`capacityDeferrals`, without the time. An attempt is one call of spawnAttempt
with everything up to the release of its lease: `pc` says how far it is, `kind`
who called it, `expected` whether watchExit will find the row ended, `answer`
the generation it was told. Its number stands for its lease.

*Granularity.* A request is answered in one step, under the server's mutex, and
the answer is a message: it may wait for ever, time out, or find that its office
is gone. The client notes it under its own mutex, and its caller acts later.
So a release is `SendRelease`, `Release`, `NoteRelease`, `FinishRelease`; a
denial `Refuse`, `NoteDenial`, perhaps `RequeueDenied`, `RecordDenial`,
`CheckCapacity`; a ping `Ping`, `NotePing`, `NotifyCapacityChange`. Anything may
happen in between, on either side. A request whose caller is gone stays on its
way (`strayAcquire`, `strayRelease`), and the server may still read it as long
as the child is registered.

*Environment.* `MaxFaults` bounds timeouts, crashes of offices, the loss of the
company, stops by users, failed starts, and deferrals that outlast their
backoff (each would otherwise ask again for ever). `MaxSpawns` bounds the calls
of spawnAttempt, `MaxAttempts` those in progress together with leases whose
answer was lost. The processes of agents are taken to end with the process of
their office, which owns their terminals. Of pings only those are modelled whose
answer is news.

*Left out of it*: the request that a deferral remembers (its attempt number and
profile), deferred management spawns and restarts, halts, the usage verb and the
live state that pings carry.

### InputFIFO and AgentIO

`InputFIFO` is the promise of `agent.input`: inputs to one agent are typed in
the order in which they were accepted, and each is answered once, with success
only after it was typed. `AgentIO` is one agent with everything that reaches it.

*State.* `unread` and `notifiers` are the agent's mail and the `Send`s between
their commit and `Notify`; `wait`, `waiter`, `token` the handler of one `omo
wait`, its place in `waiters` and its channel; `pendingMail`, `pendingInput`,
`flushing`, `inputTimer` the fields of the supervisor with these names;
`sending` and `step` are the locals of `flushAgentInput`.

*Granularity.* The supervisor's mutex and the store are taken for a few
statements at a time, and every stretch between two of them is an action: an
input may be put back, its session end, and a timer fire while it is written.

*Environment.* Users type (`typing`, `recent`) and pause, `config` reloads
change the debounce, waits begin and time out, sessions end. `MaxEvents` bounds
these, `MaxMail` the mail.

*Left out of it*: routing of mail (who may write to whom), its text, and the
text of inputs. `waiting` of `InputFIFO` is the input in the flush followed by
the pending ones, or what watchExit has yet to answer.

### SmokeRounds and Incidents

`SmokeRounds` is `SmokeLoop` with its locals in `loop`: a tick, a timeout or a
resumption starts a round, expires hung alarms, spawns `PerRound` new ones or
finishes; `halted` stands for either halt flag. `Incidents` has the rows of
incidents, the firefighters, and every goroutine on its way to a new one
(`picks`), with what it read when it began.

*Environment.* Ticks, halts, alerts, failed starts, restarts of firefighters and
reboots, bounded. An alarm may be slow, missing at its handshake, or done.

*Left out of them*: what an alarm inspects; comments on incidents. The
replacement after a missed handshake is not a member of `activeRound`, which is
what the code does. A deferral for want of company capacity cannot concern these
roles, since they take none.

### CEORestart

A CEO is a number, in the order of their rows. `exit` is its process with
watchExit, `hand` its watchHandshake, `order` the one `omo agent kill` or
`restart` under way; `ceoFailures` and `ceoYoung` are the restart window.

*Limits.* respawnCEO and watchHandshake drop the error of a spawn that fails: the
office then has no CEO and nobody is told. The model marks it `noCEO = "lost"`,
and `CEOReturns` promises a CEO, or that the user knows of none, in all behaviours
but those that end so. A failed spawn of StopAgent is answered to its caller. Two goroutines that decide on one CEO's end may each start
the next; `OneCEO` accepts this after `overlapped`, which marks exactly that. So
does `RestartsBounded`: then a replacement by order starts the count of the
window anew while the retry of the other's handshake goes on, and there can be
more deaths in the window than `respawnCEO` counts (with one restart, one retry,
eight CEOs and eight events TLC shows it, which smaller bounds hide).
The gap between row and session is in `JobLifecycle` and not repeated here, nor
is the 5 s deadline of StopAgent.

### OfficeStop

An agent is its role and job, `<<post, 1>>`, so that what `<<post, 0>>` saved in
the last run is offered to it. `beginning`, `targets`, `awaiting`, `polled` are
the safe shutdown; `lifecycle` and `told` the two flags of EmitShutdown and what
plugins were told; `closing` the steps of `Close`; `loops` the runtime loops, one
of which may wait for a branch namer.

*Environment.* Agents work, save handoffs, end or never answer; stop requests
come twice and together; a crash restarts the office. Bounded by
`MaxStopEvents`.

### BranchNaming and Worktrees

`BranchNaming` is one call of branchNameForJob with the namers that
watchHandshake may start one after another, the waiter's channel, and the
fallback. A namer that is started by a handshake retry after the dispatcher has
given up is nobody's; it is ended by its own exit.

`Worktrees` is the git side of one top-level job, a product manager with
children or a developer. A branch is the set of the jobs whose commits it
holds; a tree is a directory with the branch it has checked out (`head`), where
its files are (`files`: also "aside", between the moves of a re-registration)
and the branch the database has for it (`recorded`). The per-repository mutex
makes a git call a step; everything between two of them is another, and the
office may crash between any two (`boot`).

*Limits, as the code has them* (each was met while modelling; where
`WorkIsKept` has to accept one, `excused` marks its jobs):

* a requeue of a cancelled job while its clean-up is past its checks can remove
  the worktree of the running job;
* a crash between AddWorktree and SetWorktree under AI naming leaves a recorded
  branch that is not the one checked out;
* a crash between AddWorktreeFromBase and SetIntegrationBranch makes a product
  manager's integration worktree impossible to create;
* a cancelled product manager that was cleaned at start, is requeued and
  restarted makes RecoverIntegrationWorktrees fail, and the office does not start;
* a child's verdict that merges after its product manager merged, but before
  the clean-up, is lost with the integration branch; a child of a finished one
  can never land;
* a crash inside a re-registration strands the files in `tmp`;
* wiki/concepts.md:200-201 says that as-is branches remain, and
  wiki/configuration.md:18-22 promises a developer's or freelancer's its branch;
  when the last agent of a done job without a product manager exits, the clean-up
  deletes it (worktree_cleanup.go:99). Until the job is done `CommitsAreKept` has
  its branch, and from then on it excepts these jobs;
* wiki/concepts.md:210 lets a completed freelancer keep its worktree until its
  session ends; cleanupMergeTarget removes it at once.

*Left out of them*: pull requests, the contents of commits, conflicts' texts.

### SessionLog and TerminalQueries

`SessionLog` is the transcript of one session: `screen` the virtual terminal,
`logLines` and `logSeen` what the last snapshot saw, `logMu` its mutex,
`segments` the live file and the rotated ones, `logged` every write so far, one
sequence for each file there ever was. The pump and `omo logs` (TailLog) both
snapshot. A line is a key, its text without the parts that change such as
counters, and the rest. `TerminalQueries` is the state between two reads,
`carry`, and all reads of bounded length; `Scanned` follows answerQueries byte by
byte.

*Limits.* A rotation that fails ends the log; TailLog after a rotation shows the
live segment only; callbacks of OnLogLine are called outside the mutex and may
swap order; PruneInactiveLogs can remove the log of a session that is started
and not yet registered. The office always keeps all rotated segments. Resizes
and the chrome of agent CLIs are left out.

### SemVer, PluginLoad, PluginRuntime, PluginUpdates, PluginWeb

`SemVer` is semver.go as operators on numbers and sequences of identifiers, and
beside it what versions and ranges mean, without a comparison or a bound
(`Precedes`, `Admits`): a version is spelt with letters, as in a dictionary.
`PluginLoad` is one load: what each scope holds, the manifests and requirements
of three plugins, shadowing, resolution through aliases, the order by Kahn's
algorithm with ties by directory, the check of versions, the durable catalog and
the load hooks. findDependencyCycle, which words the error, is left out.

`PluginRuntime` has the tasks that run hooks (emissions inside one another, the
queue's consumer, cron, manual triggers), the shared lock `lifecycleMu` (held by
the stages "hook" of lifecycle passes, or per hook), and the two callers of
Close: the office's own and the run loop's. A hook ends or is killed by its
timeout. `MaxPluginEvents` bounds emissions.

`PluginUpdates` has one root: remotes or embedded copies (`upstream`), managed
checkouts, active directories, backups, the configuration file, the update
under `.update.lock`, an editor that rewrites the configuration under another
lock or none, and a loader that copies. Every process may die between two steps,
and in the middle of a removal. A directory whose removal failed or was cut short
is `Half`. `PutBack` renames the backup back, or cannot; `TakeBack` first removes
the new directory, or a part of it; `Clean` removes the backup, whose failure
installTree ignores and replaceActive reports though the new copy is active.

`PluginWeb` is the declaration of files for the browser: parts, `*` and `**`,
what load rejects, and what a request gets when the tree has changed since.

*Limits, as the code has them.* `shutdown` may be told again by a second caller
(wiki/plugins.md:179 says exactly once). Office.Close calls Plugins.Close before
it waits for the loops, against the comment above Close in snapshot.go. An editor
that read the configuration before an update and writes after it undoes the
update's part (`raced`). After a commit that failed the checkout is ahead, so the
next update reports no change. A crash, a backup that cannot be renamed back
(manager.go:830) or a new directory that cannot be removed leave a plugin without
a directory or with half of one (`damaged`); the whole copy stays in a backup, which
no command puts back or cleans. A bundled plugin that is half there and has lost its
marker is taken for the user's, left alone and reported as updated. A declaration "a*/"
passes and serves nothing.

*Left out of them*: lua.go (the bindings), validation of settings, cron's clock,
HTTP.

### OfficeSetup and SelfUpdate

`OfficeSetup` knows five pieces of an office (messages, prompts, the nudge plugin,
the tools plugin, the version marker) and of each whether it is missing, partial,
the old defaults, the new ones or the user's. `setup` creates missing pieces and
rolls back what it made; `update` prepares, moves pieces aside, installs and
commits or restores. Both may fail or die at every step, and so may every step of
a roll-back: an installed piece that cannot be removed stays, whole or in part, and
its backup is not put back; a backup that cannot be renamed leaves nothing. User
edits and new binaries come between commands only, and setup and update do not
overlap.

*Limits, as the code has them.* What a roll-back could not put back (`spoiled`) is
named in the error (setup.go:914-922), but `defer os.RemoveAll(stage)` (setup.go:859)
removes its backup: the piece is lost. Where it is the new version marker that
stays, later commands take the old directories for current, until an update
succeeds. A setup whose configuration cannot be removed again says so (`marked`) and
is taken for complete by the next. A setup that fails after the tools leaves their
directory; a crash inside the update leaves its stage with the backups; a setup
that died after it wrote omo.yaml is taken for complete by the next; two setups at
once, one failing, remove the other's configuration; writers of omo.yaml share no
lock.

`SelfUpdate` has processes that look for, download, verify, stage and install a
release over one executable, on Unix with one rename, on Windows with two, and
the pin that an explicitly asked version sets. On Windows a crash between the
renames of one while another is under way can lose the only copy
(`discarded`), where the new file cannot be moved in nor the old one back the
program is left under its backup's name, a backup that still runs stays, and a start that is past its check can replace an asked version.

### CompanyService, CompanyProjects, CompanyTerminal, CompanyCommand

`CompanyService`: processes that run the company, start one in the background or
stop it, and meet in `run.lock`, `launch.lock` and `runtime.json`. A lock ends
with its process; `runtime.json` does not.

`CompanyProjects`: the trusted offices in the global configuration, edited by
requests from views that may be old; the children and their agents; the checks a
handler makes before it takes the server's mutex, as steps of their own;
the forced kill, which stops the child, lists processes and then kills them; and
Server.Close with its deadline. Launch and untrust of one path may overlap
(`overtaken`): the trust check comes before the mutex, so an office of a directory
that is no longer trusted starts, and nothing stops it. `OfficesAreTrusted` says
that no other order of requests and exits leads there; that this one does is the
code's, and no property forbids it. Of a kill and of Close the code promises no
more than it looks at: a SIGSTOP that is refused ends the kill with nothing killed,
`Instance.kill` tries once, and Close does not read its answer (`kill =
"refused"`); a failing ps is an empty list, so that only the child dies (`left =
"unlisted"`); and the agents of an office that crashed are in sessions of their own
that no kill finds (`left = "crash"`). `KilledIsGone` and `ClosedLeavesOnlyStrays`
name these and exclude everything else. An estop goes to whoever answers at the
path; setups of one path are not told apart; the snapshot of a kill misses
processes that detached themselves. process_windows.go is not modelled.

`CompanyTerminal`: reader, writer and waiter goroutines of one process, and the
connections of its viewers with their bounded streams. Chunks are numbered. A
viewer that is dropped for being slow is told that the stream ended, as if the
terminal had.

`CompanyCommand`: a request's handler, its child, the copier of its input, and
its client, with the limit of commands and of input. Output is os/exec's.

### TuiScreens and ModelUsage

`TuiScreens`: mode, tab, the selected index, the cached rows (only of the tab that
is shown), the dialogs and what they are about, the peeked session, and the
commands and triggers in the background. Every key is an action, and `effect`
records what it did, and to whom. The console's selected identity is an index
that stays while its list is queried again, and the composer's text is lost when
the dashboard switches the mode.

`ModelUsage`: the providers' levels, the cache with its one request per scope,
a spawner that selects or checks a profile, the scheduler, and both stops. Two
profiles of one scope share its answer. A waiter for a request gets the error of
whoever asked, a cancelled context too. With two scopes the "one user warning per
consecutive failure streak" of wiki/configuration.md is not kept: a success of
one ends the streak of both. `usageSoftStopOnce` is spent even when the shutdown
could not begin.

## What is checked

| Run | Properties | Instance |
|---|---|---|
| `life_cycle` | `OneAgentPerPost`, `OneMergeAtATime`, `DoneMeansLanded`, `MergedRetiresDeveloper`, `AssigneeIsDeveloper`, `EndedNeverActs`, `ImplementsBoard` | one child job, 8 rows, 3 events of all kinds but late, restart, requeue |
| `attended` | `ActiveJobAttended`, `RetryBudget` | one child job, 8 rows, 3 of exit, late, reject, quit, override, cancel, kill, halt |
| `two_jobs` | `DeveloperCap`, `ReviewerIsFresh` | two jobs, one developer slot, 8 rows, 3 of startfail, conflict, reject, quit, cancel, kill, halt, reboot; the jobs are symmetric |
| `all_events` | `TypeOK`, `MergingIsHandled`, `LivingIsWatched` | one child job, 6 rows, any 2 events but a blocked wait and a held-up ready |
| `staffed` | `ReviewIsStaffed`, `QueuedIsDispatched`, `OrphanIsRescued`, `JobsSettle` | one child job, 6 rows, 2 events, with fairness |
| `leases` | `TypeOK`, `LeasesCounted`, `AgentsHoldLeases`, `ReleasesAreKnown`, `NoLostWakeup` | two offices with two jobs and one, one lease, 2 attempts at a time, 3 spawns, 1 fault; the two jobs are symmetric |
| `fail_closed` | `UnusedLeaseReturns`, `LossEndsOffices` | one office, two jobs, one lease, 3 spawns, 2 faults, with fairness |
| `supervisor` | `TypesOK`, `InputsInOrder`, `AgentsAreAnswered`, `SessionsAreTrue`, `CEOIsReplaced`, `AlarmsAreAttended`, `OfficeStops`, `BranchesAreKept` | the parts of `Office`, see below, with fairness |
| `surroundings` | `TypesOK`, `PluginsInOrder`, `FilesAreWhole`, `CompanyIsTrue`, `CompanyAnswers`, `ScreenIsTrue`, `UsageStops` | the parts of `Home`, see below, with fairness |

`OneAgentPerPost` is `OneDeveloperPerJob` and `OneReviewerPerJob`. `DeveloperCap`
is about what the code counts, which are rows: a session that is being started when
its row is ended (CancelJob, StopAgent) is registered all the same, runs on, and is
counted by nobody, so that beside it the cap lets in as many developers as ever.

All runs of `JobLifecycle` have one handshake retry and one job retry, so that
first attempt, last attempt and exhaustion all occur. A child job has every edge
a top-level one has, and more (overrides, conflicts that go back to the
developer). One job is enough for everything but capacity and the dispatcher's
choice, as handlers share nothing else; `two_jobs` has both. Three events are
enough for a death, a second death and something in between, which is what it
takes to exhaust the retries and what the counterexamples below need at most.
TLC's deadlock check is off: an office whose agents do nothing, or whose rows
are used up, does stop.

For `ControlPlane` a second office is needed only to release a lease that the
first one waits for, and one lease is what makes both compete. Two attempts are
the one that was denied and the one whose release it must hear of; the third
spawn is the one that is deferred again. A lost lease costs an attempt, so
`fail_closed` has a second fault for the crash that must bring it back.

`Office` and `Home` compose parts that share no variable and no lock, so a
behaviour chooses one part and stays with it: running two at once would add
interleavings that neither can tell from stuttering. Their properties are the
parts' own, each stated for the behaviours of its part:

| Property | Is | Of |
|---|---|---|
| `InputsInOrder` | `FIFO!Spec`: inputs as `InputFIFO` promises | `AgentIO` |
| `AgentsAreAnswered` | `SleeperIsWoken`, `MailIsNoticed`, `InputsAnswered` | `AgentIO` |
| `SessionsAreTrue` | `TranscriptKept` | `SessionLog` |
| `CEOIsReplaced` | `OneCEO`, `RestartsBounded`, `CEOReturns` | `CEORestart` |
| `AlarmsAreAttended` | `IncidentAttended`; `DueRoundStarts`, `HungAlarmEnds` | `Incidents`; `SmokeRounds` |
| `OfficeStops` | `SafeShutdownKept`, `OfficeStops` | `OfficeStop` |
| `BranchesAreKept` | `AcceptedNameIsUsed`; `WorkIsKept` | `BranchNaming`; `Worktrees` |
| `PluginsInOrder` | `LoadIsOrdered`; `PluginsUnloadLast`, `PluginsClose` | `PluginLoad`; `PluginRuntime` |
| `FilesAreWhole` | `UpdatesAreWhole`; `OfficeFilesAreWhole`; `ExecutableIsTrue` | `PluginUpdates`; `OfficeSetup`; `SelfUpdate` |
| `CompanyIsTrue` | `OneCompany`; `ProjectsAreTrue`, `TrustIsKept`; `TerminalIsTrue`; `EventIsTrue`; `DeclaredIsServed` | the four `Company` modules; `PluginWeb` |
| `CompanyAnswers` | `ExitIsReported`; `CommandsAreAnswered`; `CloseEnds` | `CompanyTerminal`; `CompanyCommand`; `CompanyProjects` |
| `ScreenIsTrue` | `WhatYouSee`, `InteractionIsShown`, `OneAtATime`; `TerminalAnswers` | `TuiScreens`; `TerminalQueries` |
| `UsageStops` | `StopIsProven`, `UsedUpStops` | `ModelUsage` |

Their bounds, and why they are enough:

| Part | Bounds | Why |
|---|---|---|
| `AgentIO` | 2 inputs, 2 mails, 3 events; mail and inputs apart, as they meet only in the typing user | two inputs make an order; a wait, its timeout and one more mail or keystroke make the races |
| `SmokeRounds` | 3 alarms, 2 a round, 2 events | a round, its replacement, and a halt or alert between them |
| `Incidents` | 2 incidents, 2 firefighters, 1 event | one fought, one waiting; their safety is proved for any number |
| `CEORestart` | 5 CEOs, 1 restart, 1 retry, 4 events | every CEO the window allows, and one on demand |
| `OfficeStop` | 2 agents of two roles, 2 events | one acknowledges, one does not; a second stop |
| `BranchNaming` | 3 namers, 2 names | first, retry and late one; two names to confuse |
| `Worktrees` | a product manager with one child or a developer, one repository, 1 name, 2 events | a failure or crash and a second one in its recovery |
| `SessionLog` | 3 lines of 2 keys, 2 outputs, 1 `omo logs`; all and one rotated segment kept, one and two lines a segment | a line that differs only in its counter, one that is new, and a rotation in either snapshot |
| `TerminalQueries` | reads of 2 symbols, 6 carried | every cut of every query |
| `PluginLoad` | 3 directories, 2 requirements, versions around the ends of the ranges | shadowing, chains, cycles and ties |
| `PluginRuntime` | 2 plugins, 1 trigger, a queue of 1, 2 emissions | a full queue, two hooks, a trigger during Close |
| `PluginUpdates` | 2 plugins, one bundled, 3 revisions, one of them broken, 3 events | one replaced and one refused, a crash and an editor |
| `PluginWeb` | two names, patterns of two parts | a file, a directory, a link, and what is below |
| `OfficeSetup` | 2 events, any files edited before | an update and its failure, a crash, or a second command |
| `SelfUpdate` | 2 updaters, 2 releases, both platforms | two pairs of renames |
| `CompanyService` | 2 starters, 1 stopper, 2 companies, 2 events | a crash, its stale state, and the next start |
| `CompanyProjects` | 2 paths, 2 requests, 2 children | an old view needs one other request |
| `CompanyTerminal` | 1 viewer, 2 chunks, 2 inputs, all limits 1 | a full stream and a gap between replay and stream |
| `CompanyCommand` | 2 commands, 1 slot | one refused; one ends while its input is copied |
| `TuiScreens` | 2 agents, 1 plugin, 2 jobs, 1 event | rows that move under the cursor |
| `ModelUsage` | 2 scopes, one of them the role's, 2 events | one scope used up, the other not or unknown |

*What they show.* In a run of `JobLifecycle` the properties hold for exactly the
events of its `Env`; an event that is missing from a run is missing because the
code does not keep the property with it, and those are the places to look at in
a review:

* late breaks `OneReviewerPerJob` (the tick and the handshake's retry both
  replace a reviewer), `MergedRetiresDeveloper` and `DeveloperCap`;
* exit breaks `ReviewerIsFresh`: when the developer of a rejected job dies, its
  successor hands in from working, and the reviewer of the rejected round stays;
* restart breaks `OneDeveloperPerJob` (an agent whose session is being started
  survives the kill) and `MergedRetiresDeveloper` (a restarted reviewer becomes
  the assignee);
* requeue breaks `OneDeveloperPerJob` when the job failed because of its
  reviewers, whose developer still runs; requeueAny breaks it at once, as
  Store.Retry does not insist on a failed or cancelled job;
* cancel together with requeue breaks `DoneMeansLanded` and `OneMergeAtATime`: a
  job that is cancelled, requeued and approved again while its first merge still
  runs is merged twice and may be called done by the wrong handler;
* wait and slow break `LivingIsWatched`: the late write makes the row of a dead
  agent "working" again, and such a row counts against the limits until a restart.
  `EndedNeverActs`, which `life_cycle` checks with both, says that this is all that
  comes back; slow together with late breaks `OneDeveloperPerJob`, as the row that
  comes back is that of an agent already replaced;
* exit with conflict or startfail breaks `OrphanIsRescued` and
  `ActiveJobAttended`.

Three of them are runs of their own, because a document or a comment promises
the opposite:

| Run | Shows |
|---|---|
| `orphaned` | a developer that dies while its job is merging leaves the job in rework for ever when the merge conflicts |
| `resurrected` | an `omo wait` that returns after its agent was retired makes the row "working" again |
| `unretired_retry` | a developer from a handshake retry is nobody's assignee, and survives the merge of its job |

*The abstract specifications.* `JobBoard` has only `jstate` and `landed`. It
allows exactly the moves between states that some handler makes, lets a branch
land while its job is merging or was cancelled meanwhile, and lets a job be done
only after that. `ImplementsBoard` is checked with the identity mapping.
`InputFIFO` has a queue, what was typed, and how often each caller was answered;
`InputsInOrder` maps its queue to the input that a flush holds and those that
are pending (or that watchExit has yet to answer), so that an input which is put
back is a stutter.

*Fairness.* `OfficeFairness` gives weak fairness to the steps that the office's
own goroutines take without anybody's help: loops tick for ever
(dispatch.go:21), git, process starts and queries return (they run under
timeouts or locally), and the goroutines of watchHandshake, watchExit and
reapLater run. Nothing is assumed of agents and users in the first three
liveness properties of `JobLifecycle`. `JobsSettle` names its assumption,
`DiligentAgents`, in the formula: agents that answer, work and judge. In
`ControlPlane` the server answers, the goroutines of a spawn, of a release and
of Watch run, a call against a dead company fails (all calls have a timeout), a
stopped office exits (its loops end with their context, and KillAll waits a
bounded time) and its manager notices; nothing is assumed of agents, the
dispatcher and the backoff. Events are bounded by `MaxFaults`, which is the
usual assumption that trouble ends.

In `Office` and `Home` the parts' own steps are fair and those of others are
not: the goroutines and timers of input, notification and wait (`AgentIO`;
`Pauses` says that a user who types stops for the length of the debounce), the
loop and timer of `SmokeRounds`, the goroutines of watchExit, watchHandshake and
StopAgent (`CEORestart`), the announcement, poll and deadline of a safe shutdown,
the steps of Close and the namer's timeout (`OfficeStop`), hooks by their timeouts
and the lock they queue for (`PluginRuntime`; Go's RWMutex serves a waiting
writer), the reader, writer and waiter of a terminal with its drain timer
(`CompanyTerminal`), a command's handler and its kill (`CompanyCommand`), the
deadline and the forced kills of Server.Close (`CompanyProjects`), and the
scheduler and the requests of providers, which time out (`ModelUsage`). Where the
stages of one goroutine exclude each other, one condition stands for them all.
The one strong fairness is the scheduler's hold of `roleModelMu`: a spawner takes
the mutex again and again, and Go's mutex hands it to a waiter that has starved
for a millisecond. Agents, users, hooks, viewers, clients and children may do nothing.

Every property has a mutant (`PROJECT.json`): a plausible mistake in one
definition, kept beside the original and marked "Mutation" or "mutant", with
which TLC finds the property violated in the same run. Composite properties have
several, one for each part.

## What is proved

All theorems hold for all values of the constants. Their only assumptions are
the ones that the modules name (`ConstantsAssumption`, `OfficeConstants`,
`HomeConstants`: bounds are numbers, markers such as `NoJob` are not names,
children are not their lead, a replay holds at least one chunk, what is carried
over has room for a query, directories and commands are finitely many) and, where it says so below, which kinds of event `Env` has. An invariant
that takes more than itself to be inductive has the name of its strengthening
here.

### Jobs (`JobLifecycleProofs`)

* `TypeCorrect`: `Spec => []TypeOK`. `TypeOK` alone is not inductive: a new row
  needs a job that exists, and `attempt` stays in range only because a retry is
  planned while attempts are left. `RowInv` adds both: rows are inserted in
  order, nothing has happened to an agent without a row, and `RetriesLeft`.
* `MergingHandled`: `Spec => []MergingIsHandled`, in every environment. The
  argument: `QuietStep` shows that all but six kinds of step leave the handlers
  alone and let no job into merging; a handler ends only by moving its job on; a
  reboot, which ends all handlers, moves all merging jobs.
* `DoneLanded` and `OneMerge`, under `SafeEnv`: users requeue only jobs that are
  over, and where they requeue they do not cancel. The invariant `HandlerInv`
  says that a handler's job is merging or was cancelled under it, that a handler
  that got as far as `landed` can vouch for the branch, and that two handlers
  never share a job: a second one can begin only from review, which the first
  has left.

### Agents (`JobLifecycleProofs`)

`LifeStep` sums up, once, what any action does to a row: it is inserted, its
session starts or fails, it becomes ready or parked, it ends, it is marked for
replacement, or nothing happens to it. The invariants below are proved against
that summary, and against a second one (`SpawnMove`) of who inserts rows.

| Theorem | Property | Events assumed away | Inductive invariant |
|---|---|---|---|
| `LivingWatched` | `LivingIsWatched` | wait, slow | `WatchInv`: nobody is parked |
| `EndedStays` | `EndedNeverActs` | none | `ParkedInv`: the row of a parked agent is as its verb left it, or has ended |
| `AssigneesDevelop` | `AssigneeIsDeveloper` | restart | `AssigneeInv`: also what a verdict handler has read, and what is about to be recorded, is a developer of the job |
| `RetriesBounded` | `RetryBudget` | reboot, requeue, requeueAny | `retries` is beyond the budget only for jobs that failed, which nobody then requeues |
| `CapHeld` | `DeveloperCap` | late, restart | `CapInv`: the dispatcher that holds a job has counted it in, as nobody else adds a developer |
| `OnePerPost` | `OneAgentPerPost` | late, restart, requeue, requeueAny | `PostInv`: a job that is queued or picked has no engaged developer; `ReviewInv`: spawnReviewer holds a job only while nobody reviews it |
| `DeveloperRetired` | `MergedRetiresDeveloper` | late, restart, requeue, requeueAny | `MergeInv`: a running developer is the assignee, and the one that the handler read |
| `JobsAttended` | `ActiveJobAttended` | startfail, restart, conflict, requeue, requeueAny; late or slow | who is lost to a job under review is accounted for: the job can be rejected only into the hands of a developer that attends it |
| `ReviewersFresh` | `ReviewerIsFresh` | exit, late, restart, override, requeue, requeueAny, wait, slow | `RoundInv`: reviewers live only for jobs that were handed in, and nobody ends but who is killed |

An agent counts as *engaged* while its process runs, its exit has not been
noticed or its replacement is due, and also while it is parked in `omo wait` or
`omo ready` after its end: the return of that handler writes its row once more. What `Env`
must not have is needed, as far as TLC can tell, but for three cases:
`OneAgentPerPost` and `MergedRetiresDeveloper` fail with late, with restart, with
requeueAny and with requeue and cancel, each on its own; `AssigneeIsDeveloper`
with restart; `DeveloperCap` with late and restart and `LivingIsWatched` with
wait; `ReviewerIsFresh` with reject and one of exit, late, restart, override or
wait. `ActiveJobAttended` fails where startfail or conflict meet exit, late or
restart; restart alone and requeue alone keep it on small instances, and the
proof does without them for its own sake.

### The board (`JobLifecycleProofs`)

`BoardImplemented`, under `SafeEnv`: `Spec => ImplementsBoard`, with the identity
as refinement mapping. Every action of the life cycle is a move of one job along
an edge of the board, a reboot, a landing, or a stutter. `HandlerInv` is needed in
two places: done is reached only from merging by a handler that can vouch for
the branch, and a branch lands only while its job is merging or was cancelled.

### Leases (`ControlPlaneProofs`)

Any number of offices, jobs, attempts and faults:

* `TypeCorrect`, `LeasesCountedCorrect`, `LeasesHeld`, `ReleasesKnown`: all of
  them from one invariant, `LeaseInv`. `AttemptInv` says for every stage of an
  attempt whether its lease exists and whether its office still runs. The count
  needs it to know that a lease is granted to an attempt that has none; and only
  three kinds of step touch the count at all (`CompanySteps`). That the counter
  stays a number is part of the count and not of the types, so `TypesKept` takes
  it as an assumption and `CountKept` supplies it.
* `WakeupsKept`: `Spec => []NoLostWakeup`. `NoLostWakeup` needs three more
  facts: nobody has seen a generation the server has not reached (`GenInv`); a
  denial at the present generation is still true, since nothing was released
  after it, and the client knows the generation of every denial it acts on
  (`DenialInv`); Watch ends only as the office stops, and deferrals do not
  outlive their office (`OfficeInv`). Then a denial is either still true, or a
  later ping shows a change, or the client has seen it already and the last look
  of recordCapacityDenial finds it.

### The parts of an office (`OfficeProofs`)

The parts share no variable, so a step of `Office` is a step of one part and
leaves the others alone (`IOMoves`, `NamerMoves` and so on), and each part has an
invariant of its own. Those that are part of a composite property with a liveness
half state the safety half.

* `SleepersWoken`: `Spec => []IO!SleeperIsWoken`. `MailInv` adds only the types:
  the order of registration and look, of commit and notification does the rest.
* `InputsRefine`: `Spec => InputsInOrder`, that is `IO!FIFO!Spec`. `InputInv` says
  where an accepted input can be (`Taken`, `Queued`, `Typed`): in the queue, in
  the hands of one flush, on the screen, or with watchExit once the session has
  ended; with that, eight kinds of step are a step of the queue and all others
  stutter (`QueueMoves`). The queue that `InputFIFO` sees is a sequence computed
  from these, so the proof compares sequences and never counts.
* `NameKept` (`NamerInv`): a result is delivered while the waiter still has its
  channel, and that takes the channel away; so at most one name is accepted, and
  a dispatcher that leaves with a fallback has left nobody an accepted one.
* `FiresFought`: `IncidentAttended` is inductive with the types, given that the
  oldest open incident exists (`Smallest`).
* `ShutdownSafe` (`StopInv`): whom `List` has seen acknowledged stays so, as the
  handoff of a target that has ended keeps its row; the flag of EmitShutdown is
  read before it is told, and a begun safe shutdown is never unset.
* `OneCEOAtATime`: `OneCEO` and `RestartsBounded`. `CEOInv` says that the end of a
  CEO is claimed by one of watchExit, watchHandshake and an order (`OneClaim`),
  unless it was decided on twice; and it bounds the deaths of a burst by the
  failures the window has counted and the attempts of the handshake under way
  (`Paced`). The proof attempt is what showed that the bound needs `overlapped`.
* `TranscriptsKept`: `Spec => []SessionsAreTrue`. `Retained` is inductive with the
  types: file `i` is what was written before the `i`-th last rotation.
  `LastScreenLogged` needs `KeysLogged`: while the log is open, every key that
  counts as logged, or is on the last snapshot, was written or is in the hands of
  whoever holds logMu. That is the point at which the unlocked screen would hurt.
* `TypesCorrect`: `Spec => []TypesOK`, from these invariants, `SmokeInv` (a watcher
  has killed what it replaces, which bounds `retries`) and `TreeTypes`.
* `BranchesKept`: `Spec => []BranchesAreKept`, with `NameKept` and `WorkInv`, the
  largest of these invariants. Its parts, and what each is for:

| Part | Says | Is needed since |
|---|---|---|
| `TreeTypes`, `Roles` | types; who can commit, merge, be in the making | every step |
| `Stages` | what merges, clean-ups and recoveries have before them | a step that continues one must find what it left |
| `Named` | a tree has a branch of its own name, or none | a step on one tree must not disturb another's branch |
| `Dispatched` | what assign is about to record is what the tree has checked out | a crash between git and the database |
| `OwnTrees` | a worker's tree has its recorded branch checked out | commits go to the one, merges take the other |
| `Begun` | an integration tree in the making holds nothing that has not landed | its branch may be made anew |
| `Based` | a child's branch has the child's own work and its base's | a merge into an integration branch that its PM is through with brings one job, which `excused` then marks |
| `Integrated` | an integration branch that its PM is through with has landed, but for what is excused | the clean-up deletes it |
| `Kept` | until a job is done its own branch has its work, then its target has | the property itself |
| `FilesThere` | files of an integration tree are gone only when its PM is over | the property itself |

`Kept` is what `CommitsAreKept` becomes when it has to survive a step: the
property only asks that somebody has the work, while a step that deletes a
branch must know that another has it.

### What surrounds an office (`HomeFileProofs`, `HomeCompanyProofs`, `HomePluginProofs`, `HomeScreenProofs`, `HomeProofs`)

Here too a step is a step of one part. `TypesCorrect` is `Spec => []TypesOK` for
all thirteen. Three composite properties of the run are proved as they stand:
`FilesAreSafe` is `Spec => FilesAreWhole`, `CompanyTrue` is `Spec =>
CompanyIsTrue` and `ScreenTrue` is `Spec => ScreenIsTrue`. What the first two
except - failed removals, renames and roll-backs, refused signals, failed listings,
crashes, an overlapping untrust - is in the properties by name, and in the limits
above; the theorems say that nothing else goes wrong. Of the others, which
have a half that is liveness or data, the rest is proved.

| Theorem | States | Inductive invariant, and what it needs beside the property |
|---|---|---|
| `UpdatesAreTrue` | `Updates!UpdatesAreWhole` | `UpdatesInv`: at each stage of the plugin whose turn it is, where the old directory and the new one are (`Turn`); that the plans and the document read before are still so, as the root's lock is held |
| `OfficesAreTrue` | `Setup!OfficeFilesAreWhole` | `SetupInv`: the pieces before the current one are replaced, those after it are not, and what was moved aside is what was there (`SwapOrder`); an honest marker of the office before the update, as a roll-back restores it |
| `ExecutablesAreTrue` | `Self!ExecutableIsTrue` | `SelfInv`: what each updater has verified (`Knows`), and that the check was turned off before a pinned version was fetched (`Pinned`) |
| `OneCompanyRuns` | `Service!OneCompany` | `ServiceInv`: who holds `run.lock` is the one company that runs, a launcher that probes, or a stopper that clears up (`RunLocked`); what a stopper waits for does not come back (`TargetsEnd`) |
| `OfficesAreOne`, `TrustStays` | `Projects!ProjectsAreTrue`, `Projects!TrustIsKept` | `ProjectsInv`: what a handler looked at before it took the mutex still holds or was overtaken (`RequestInStep`); a frozen child gets no more agents before its victims are listed, and what is listed is all there is unless listing failed (`KillInStep`) |
| `TerminalsAreTrue` | `Terminal!TerminalIsTrue` | `TerminalInv`: shown, streamed and replayed chunks make one interval up to what is published (`InOrder`); of a viewer's acknowledgements only the last can tell of a failure (`Acknowledged`) |
| `EventsAreTrue` | `Command!EventIsTrue` | `CommandInv`: a child is killed for what the copier remembers (`KilledFor`); the slots are counted (`SlotsTaken`) |
| `DeclaredFilesAreServed` | `Web!DeclaredIsServed` | `WebInv`, and three facts about the matchers for patterns and paths of any length: `companyPatternMatch` is what a pattern stands for, a prefix is matched if something below it can be, and `MatchExists`, `PrefixExists`: the recursive functions are defined |
| `LoadsInOrder` | `Load!InOrder` | `LoadInv`: the ready plugins are exactly those whose dependencies are placed, by index, and `degree` counts the others (`ReadyInOrder`), so the first is the one that comes next; who is placed is so after its dependencies, so that a least one of a cycle cannot be |
| `LoadsAreOrdered` | `Load!LoadIsOrdered`, which is `InOrder` and `VersionsAdmitted` | `VersionsInv`: beyond the check no plugin's version is refused; see below |
| `PluginsEndInOrder` | `Runtime!PluginsUnloadLast` | `RuntimeInv`: hooks of a plugin are counted, and each close is behind the triggers and hooks it waits for (`ClosersInStep`) |
| `ScreensAreTrue` | `Tui!ScreenIsTrue` | `TuiInv`: the overview has loaded rows, and dialogs return to where nobody types (`ScreensFit`) |
| `StopsAreProven` | `Usage!StopIsProven` | `UsageInv`: a check remembers only scopes it saw at the limit (`CheckIsSound`) |
| `QueriesAreAnswered` | `Queries!TerminalAnswers` | nothing but the types; see below |

`QueriesAreAnswered` compares two runs of one scan. `ScanIs` names the states that
the scan passes through, one per symbol. The scan of the first read and that of
both reads together agree until something is carried over (`SameBefore`); from
there on, the scan of what was carried and read next is that of both, moved by as
many symbols (`SameAfter`). Two facts about `matchQuery` carry this, `MatchesStay`:
what is no partial query is read the same way whatever follows, and a partial one
that is longer than what may be carried never becomes a query. The second is where
the limit matters: no query has more than six symbols, and `MaxCarry >= 6` is what
`HomeConstants` assumes of it (`session/queries.go:21`). A whole query is answered
because what precedes it ends at its first symbol (`QueriesDoNotOverlap`): a query
has an escape only at its start and as the first of the two symbols of its end.

`LoadsAreOrdered` says of each plugin that is loaded that its version is one that
the constraint admits, whatever the versions. `compareSemVersion` compares part by
part, with a case for each end of the two prereleases; `LessPrecedes` and
`PrecedesLess` show that this is the dictionary's order, `PrecedesIsOrder` that the
order is total, and `TokensAdmit` that the one or two predicates a token is parsed
into hold of the versions that it admits. A caret or tilde range so holds the
prereleases of the first release beyond it (`^1.2.3` admits `2.0.0-rc.1`), as
`Admits` says. `VersionConstants` assumes that versions and constraints are such
as semver.go parses; an alphanumeric identifier is its place in the order of those
that occur in one load, of which there are finitely many.

The library's induction theorems cannot be used with these provers, but a least
counterexample can (`WFMin` on the naturals): it gives the lemmas about matchers,
the order of loaded plugins, the scans of queries (`Upward`) and the existence of
the recursive functions. For that the matchers of `PluginWeb` and the scan of
`TerminalQueries` are recursive functions, not operators.

### Only model-checked

* Liveness under fairness: the temporal properties of the job and lease runs; the
  halves of `AgentsAreAnswered`, `CEOIsReplaced`, `AlarmsAreAttended` and
  `OfficeStops` that are liveness; `CompanyAnswers`, `PluginsClose` of
  `PluginsInOrder` and `UsedUpStops` of `UsageStops`. TLAPS has no reasoning about
  ENABLED.
* The events that the table above assumes away though TLC finds nothing wrong
  with them: `ActiveJobAttended` with restart or requeue alone.

## Not modelled

* The instance lock (`internal/office/instance.go`). Whether a lock is stale is
  decided by a process id, a socket that answers and a grace of two seconds, so
  every claim about it is one about durations; two starts that find the same
  stale lock can each remove the other's.
* The socket server and client: a goroutine per request without state of its own,
  which is why every verb may run at any time in the other modules.
* Prompts, messages, names and the command lines of agent programs: text.
* Parsing and validation of omo.yaml, settings of plugins, the Lua bindings
  (`internal/plugins/lua.go`), the wizard's questions, the exporter, statistics
  and the reading verbs: sequential, and no state changes but the ones above.
* job.create with its checks. It applies the developer model policy before the
  `job.create` hook of plugins, which may change the model again
  (`sup/dispatch.go`).
* Deferred management spawns and restarts for want of company capacity, and
  freelancers and product managers as agents of `JobLifecycle` (their worktrees
  are in `Worktrees`).

## Plan

Product managers and freelancers in `JobLifecycle`, and what a deferred management
spawn remembers in `ControlPlane`.

## Running

    tlc -config MCJobLifecycle_life_cycle.cfg MCJobLifecycle.tla
    tlc -config MCControlPlane_leases.cfg MCControlPlane.tla
    tlc -workers 2 -config MCOffice_supervisor.cfg MCOffice.tla
    tlc -workers 2 -config MCHome_surroundings.cfg MCHome.tla
    tlapm ControlPlaneProofs.tla
    tlapm JobLifecycleProofs.tla
    tlapm OfficeProofs.tla
    tlapm HomeFileProofs.tla
    tlapm HomeCompanyProofs.tla
    tlapm HomePluginProofs.tla
    tlapm HomeScreenProofs.tla
    tlapm HomeProofs.tla

The first four take some minutes each, the others a quarter of an hour.
