-------------------------------- MODULE Home --------------------------------
(***************************************************************************)
(* What surrounds the running offices - plugins, the files of an office    *)
(* and of the program, the company and its dashboard, the terminals of     *)
(* agents, the terminal UI and the limits of model usage - one part at a   *)
(* time: a behaviour chooses its part and stays with it.  The parts share  *)
(* no variable and no lock, so that running them together shows nothing    *)
(* that running each alone does not.                                       *)
(***************************************************************************)
EXTENDS Integers, Sequences, FiniteSets

CONSTANTS
  LoadDirs, LoadNames, MaxRequires, Sources, Versions, Constraints,  \* PluginLoad
  PluginCount, Triggers, AsyncLimit, MaxPluginEvents,                \* PluginRuntime
  Installed, Bundled, Revisions, BrokenRevisions, MaxUpdateEvents,   \* PluginUpdates
  MaxSetupEvents,                                                    \* OfficeSetup
  Updaters, PublishedReleases, MaxSelfUpdates,                       \* SelfUpdate
  Launchers, Stoppers, MaxCompanies, MaxServiceEvents,               \* CompanyService
  Viewers, ReplayLimit, StreamLimit, TypingLimit, AckLimit, MaxChunks,
  MaxInputs,                                                         \* CompanyTerminal
  Commands, MaxCommands,                                             \* CompanyCommand
  ProjectPaths, ProjectRequests, Ids, InstanceLimit, OfficeAgents,
  MaxProjectRequests, FirstTrusted,                                  \* CompanyProjects
  TuiAgents, TuiPlugins, MaxUiJobs, MaxUiEvents,                     \* TuiScreens
  Scopes, RoleScopes, MaxUsageEvents, FirstLevels,                   \* ModelUsage
  WebNames, WebDirs, Literal,                                        \* PluginWeb
  MaxCarry, MaxRead                                                  \* TerminalQueries

ASSUME HomeConstants ==
  /\ {MaxRequires, PluginCount, AsyncLimit, MaxPluginEvents, MaxUpdateEvents, MaxSetupEvents,
      MaxSelfUpdates, MaxCompanies, MaxServiceEvents, ReplayLimit, StreamLimit, TypingLimit,
      AckLimit, MaxChunks, MaxInputs, MaxCommands, InstanceLimit, MaxProjectRequests, MaxUiJobs,
      MaxUiEvents, MaxUsageEvents, MaxCarry, MaxRead} \subseteq Nat
  /\ Installed \subseteq Nat /\ Installed # {} /\ Revisions \subseteq Nat \ {0} /\ 1 \in Revisions
  /\ PublishedReleases \subseteq Nat \ {0} /\ 1 \in PublishedReleases
  /\ IsFiniteSet(Commands) /\ ReplayLimit # 0 /\ RoleScopes \subseteq Scopes
  /\ MaxCarry >= 6    \* no query is longer
  /\ {1, 2} \subseteq TuiAgents /\ PluginCount # 0
  /\ IsFiniteSet(Triggers) /\ WebDirs \subseteq WebNames
  /\ LoadDirs \subseteq LoadNames /\ LoadDirs \subseteq Nat /\ IsFiniteSet(LoadDirs)
  /\ Triggers \cap {"create", "nested", "async", "startup", "shutdown", "cron"} = {}

VARIABLES
  part,  \* The part this behaviour is about.
  place, manifest, wanted, snapshot, phase, ready, degree, ordered, catalog, loadRan,
  task, at, queue, dropped, running, state, manualActive, manualClosing, requested,
  outcomes, closer, closed, snapshotDir, unloaded, shutdownBy, closing, pluginEvents,
  upstream, checkout, active, backup, pluginConfig, holder, pluginUpdate, editor, loader,
  damaged, kept, raced, updateEvents,
  content, officeConfig, ownTools, globals, locals, pluginLock, setup, officeUpdate, before,
  spoiled, setupEvents,
  platform, binary, previous, latest, checks, updater, asked, discarded, selfUpdates,
  company, launch, terminals, runLock, launchLock, runtime, launcher, stopper,
  serviceEvents,
  process, held, produced, published, reader, writer, typing, exit, cut, view, stream,
  acks, shown, typed, written, acked,
  handler, command, client, copier, input, cancel, slots, event,
  trusted, configured, child, request, server, outside, overtaken, budget,
  observer, mode, returnMode, tab, sel, peek, readOnly, cache, agents, jobs, plugins,
  interaction, compose, detail, menu, manual, triggers, console, commands, effect,
  uiEvents,
  level, entry, inflight, caller, roleModelMu, warned, shutdown, emergency, proven,
  usageEvents,
  tree, declared, export, edited,
  carry

\* The variables of each part.
loadVars == <<place, manifest, wanted, snapshot, phase, ready, degree, ordered, catalog,
  loadRan>>
runtimeVars == <<task, at, queue, dropped, running, state, manualActive, manualClosing,
  requested, outcomes, closer, closed, snapshotDir, unloaded, shutdownBy, closing,
  pluginEvents>>
updatesVars == <<upstream, checkout, active, backup, pluginConfig, holder, pluginUpdate,
  editor, loader, damaged, kept, raced, updateEvents>>
setupVars == <<content, officeConfig, ownTools, globals, locals, pluginLock, setup,
  officeUpdate, before, spoiled, setupEvents>>
selfVars == <<platform, binary, previous, latest, checks, updater, asked, discarded,
  selfUpdates>>
serviceVars == <<company, launch, terminals, runLock, launchLock, runtime, launcher,
  stopper, serviceEvents>>
terminalVars == <<process, held, produced, published, reader, writer, typing, exit, cut,
  view, stream, acks, shown, typed, written, acked>>
commandVars == <<handler, command, client, copier, input, cancel, slots, event>>
projectVars == <<trusted, configured, child, request, server, outside, overtaken, budget>>
tuiVars == <<observer, mode, returnMode, tab, sel, peek, readOnly, cache, agents, jobs,
  plugins, interaction, compose, detail, menu, manual, triggers, console, commands, effect,
  uiEvents>>
usageVars == <<level, entry, inflight, caller, roleModelMu, warned, shutdown, emergency,
  proven, usageEvents>>
webVars == <<tree, declared, export, edited>>

vars == <<part, loadVars, runtimeVars, updatesVars, setupVars, selfVars, serviceVars,
  terminalVars, commandVars, projectVars, tuiVars, usageVars, webVars, carry>>

----------------------------------------------------------------------------
\* The parts.
Load == INSTANCE PluginLoad WITH Dirs <- LoadDirs, Names <- LoadNames
Runtime == INSTANCE PluginRuntime WITH N <- PluginCount, QueueLimit <- AsyncLimit
Updates == INSTANCE PluginUpdates WITH Plugins <- Installed, Broken <- BrokenRevisions,
             config <- pluginConfig, update <- pluginUpdate
Setup == INSTANCE OfficeSetup WITH config <- officeConfig, update <- officeUpdate
Self == INSTANCE SelfUpdate WITH Releases <- PublishedReleases
Service == INSTANCE CompanyService
Terminal == INSTANCE CompanyTerminal WITH QueueLimit <- TypingLimit, queue <- typing
Command == INSTANCE CompanyCommand WITH child <- command
Projects == INSTANCE CompanyProjects WITH Paths <- ProjectPaths
Tui == INSTANCE TuiScreens WITH Agents <- TuiAgents, Plugins <- TuiPlugins, MaxJobs <- MaxUiJobs
Usage == INSTANCE ModelUsage
Web == INSTANCE PluginWeb WITH Names <- WebNames, Dirs <- WebDirs
Queries == INSTANCE TerminalQueries

\* The versions and constraints that semver.go can parse.
ASSUME VersionConstants ==
  /\ Versions \subseteq Load!SemVersions \cup {Load!NoVersion}
  /\ Constraints \subseteq Seq(Load!Tokens)

Parts == {"load", "runtime", "updates", "setup", "self", "service", "terminal", "command",
          "projects", "tui", "usage", "web", "queries"}

\* A part that is not chosen starts in one of its initial states, which one
\* does not matter.  FirstTrusted and FirstLevels narrow the beginnings of two
\* parts down, for TLC.
Init ==
  /\ part \in Parts
  /\ IF part = "load" THEN Load!Init
     ELSE /\ place = <<>> /\ manifest = <<>> /\ wanted = <<>> /\ snapshot = {}
          /\ phase = "start" /\ ready = <<>> /\ degree = <<>> /\ ordered = <<>>
          /\ catalog = <<>> /\ loadRan = <<>>
  /\ Runtime!Init /\ Service!Init /\ Terminal!Init /\ Command!Init
  /\ Updates!Init /\ (part # "updates" => \A p \in Installed : active[p] = 1)
  /\ Setup!Init /\ (part # "setup" =>
                   officeConfig.exists /\ ~ownTools /\ \A p \in Setup!Pieces : content[p] = "old")
  /\ Self!Init /\ (part # "self" => platform = "unix" /\ latest = 1)
  /\ Projects!Init /\ trusted \in FirstTrusted
  /\ part # "projects" => configured = {trusted[1]}
  /\ Tui!Init /\ (part # "tui" => agents = {} /\ ~observer)
  /\ Usage!Init /\ Queries!Init
  /\ IF part = "usage" THEN level \in FirstLevels ELSE level = [s \in Scopes |-> 0]
  /\ IF part = "web" THEN Web!Init
     ELSE /\ tree = [p \in Web!Paths |-> "absent"] /\ export = Web!None /\ edited = FALSE
          /\ declared = [pattern |-> <<"*">>, slash |-> FALSE]

\* The part p takes a step, which leaves the variables of the other parts alone.
Do(p) == part = p /\ part' = p
Others(p) ==
  /\ IF p = "load" THEN TRUE ELSE UNCHANGED loadVars
  /\ IF p = "runtime" THEN TRUE ELSE UNCHANGED runtimeVars
  /\ IF p = "updates" THEN TRUE ELSE UNCHANGED updatesVars
  /\ IF p = "setup" THEN TRUE ELSE UNCHANGED setupVars
  /\ IF p = "self" THEN TRUE ELSE UNCHANGED selfVars
  /\ IF p = "service" THEN TRUE ELSE UNCHANGED serviceVars
  /\ IF p = "terminal" THEN TRUE ELSE UNCHANGED terminalVars
  /\ IF p = "command" THEN TRUE ELSE UNCHANGED commandVars
  /\ IF p = "projects" THEN TRUE ELSE UNCHANGED projectVars
  /\ IF p = "tui" THEN TRUE ELSE UNCHANGED tuiVars
  /\ IF p = "usage" THEN TRUE ELSE UNCHANGED usageVars
  /\ IF p = "web" THEN TRUE ELSE UNCHANGED webVars
  /\ IF p = "queries" THEN TRUE ELSE UNCHANGED carry

Next ==
  \/ Do("load") /\ Load!Next /\ Others("load")
  \/ Do("runtime") /\ Runtime!Next /\ Others("runtime")
  \/ Do("updates") /\ Updates!Next /\ Others("updates")
  \/ Do("setup") /\ Setup!Next /\ Others("setup")
  \/ Do("self") /\ Self!Next /\ Others("self")
  \/ Do("service") /\ Service!Next /\ Others("service")
  \/ Do("terminal") /\ Terminal!Next /\ Others("terminal")
  \/ Do("command") /\ Command!Next /\ Others("command")
  \/ Do("projects") /\ Projects!Next /\ Others("projects")
  \/ Do("tui") /\ Tui!Next /\ Others("tui")
  \/ Do("usage") /\ Usage!Next /\ Others("usage")
  \/ Do("web") /\ Web!Next /\ Others("web")
  \/ Do("queries") /\ Queries!Next /\ Others("queries")

\* The fairness of the parts: what each assumes of its goroutines and timers.
Fairness ==
  /\ \A t \in Runtime!Tasks \ Triggers : WF_runtimeVars(Do("runtime") /\ Runtime!GoesOn(t))
  /\ \A t \in Triggers : WF_runtimeVars(Do("runtime") /\ Runtime!TriggerGoesOn(t))
  /\ WF_runtimeVars(Do("runtime") /\ Runtime!CloseStep)
  /\ WF_runtimeVars(Do("runtime") /\ Runtime!OfficeStep)
  /\ WF_terminalVars(Do("terminal") /\ (Terminal!Publish \/ Terminal!ReaderEnds))
  /\ WF_terminalVars(Do("terminal") /\ (\/ Terminal!WriterTakes \/ Terminal!WriteFails
                                        \/ Terminal!Acknowledge \/ Terminal!WriterStops))
  /\ \A v \in Viewers :
       WF_terminalVars(Do("terminal") /\ (Terminal!Serves(v) \/ Terminal!Stalls(v)))
  /\ WF_terminalVars(Do("terminal") /\ (\/ Terminal!Waits \/ Terminal!Drains
                                        \/ Terminal!ClosesPty \/ Terminal!SetsExited
                                        \/ Terminal!Finishes))
  /\ \A c \in Commands :
       /\ WF_commandVars(Do("command") /\ (\/ Command!Parses(c) \/ Command!Starts(c)
                           \/ Command!Waits(c) \/ Command!Settles(c) \/ Command!Reports(c)))
       /\ WF_commandVars(Do("command") /\ Command!Killed(c))
       /\ WF_commandVars(Do("command") /\ Command!Released(c))
  /\ WF_projectVars(Do("projects") /\ Projects!Deadline)
  /\ WF_projectVars(Do("projects") /\ Projects!CloseReturns)
  /\ \A i \in Ids :
       WF_projectVars(Do("projects") /\ (\/ Projects!ForceKill(i) \/ Projects!KillLists(i)
                                         \/ Projects!KillEnds(i)))
  /\ \A s \in Scopes : WF_usageVars(Do("usage") /\ Usage!Fetched(s))
  /\ WF_usageVars(Do("usage") /\ (Usage!Look("spawner") \/ Usage!Takes("spawner")))
  /\ WF_usageVars(Do("usage") /\ (Usage!Refresh \/ Usage!Look("scheduler")))
  /\ SF_usageVars(Do("usage") /\ Usage!Takes("scheduler"))

Spec == Init /\ [][Next]_vars /\ Fairness

----------------------------------------------------------------------------
(* The properties of the parts; what each says is beside its definition.     *)

\* The type invariants of the parts.
TypesOK ==
  /\ part = "load" => Load!TypeOK
  /\ part = "runtime" => Runtime!TypeOK
  /\ part = "updates" => Updates!TypeOK
  /\ part = "setup" => Setup!TypeOK
  /\ part = "self" => Self!TypeOK
  /\ part = "service" => Service!TypeOK
  /\ part = "terminal" => Terminal!TypeOK
  /\ part = "command" => Command!TypeOK
  /\ part = "projects" => Projects!TypeOK
  /\ part = "tui" => Tui!TypeOK
  /\ part = "usage" => Usage!TypeOK
  /\ part = "web" => Web!TypeOK
  /\ part = "queries" => Queries!TypeOK

\* Plugins load in the order of their dependencies, unload last and in reverse
\* order, and an office that closes gets past them.
PluginsInOrder ==
  /\ [](part = "load" => Load!LoadIsOrdered)
  /\ [](part = "runtime" => Runtime!PluginsUnloadLast)
  /\ Runtime!PluginsClose

\* However installs, updates, edits and crashes overlap, what an update reports
\* is what it did, and what it replaces is the old or the new, but for these:
\* where a removal or a rename back fails, or a crash cuts one short, a
\* plugin's directory is missing or half with a whole copy in a backup, and an
\* office's files can be lost with the stage; and on windows the program can be
\* left under its backup's name, or be lost to a second update.
FilesAreWhole ==
  /\ [](part = "updates" => Updates!UpdatesAreWhole)
  /\ Setup!OfficeFilesAreWhole
  /\ [](part = "self" => Self!ExecutableIsTrue)

\* There is one company and it is found and stopped as reported; its offices
\* are one per directory, trusted unless an untrust overlapped their launch, and
\* gone when it closes, but for a child that could not be stopped and for agents
\* whose office crashed or could not be listed; a terminal shows what its child
\* wrote, a command's event says how it ended, and a plugin's page gets the files
\* its manifest declares and no others.
CompanyIsTrue ==
  /\ Service!OneCompany
  /\ [](part = "projects" => Projects!ProjectsAreTrue) /\ Projects!TrustIsKept
  /\ Terminal!TerminalIsTrue
  /\ [](part = "command" => Command!EventIsTrue)
  /\ [](part = "web" => Web!DeclaredIsServed)

\* The company's own work ends: an exit is reported to the dashboard, every
\* command that ended is answered, and Close returns.
CompanyAnswers ==
  /\ Terminal!ExitIsReported
  /\ Command!CommandsAreAnswered
  /\ Projects!CloseEnds

\* What the terminal UI acts on is what the user saw, and the terminal answers an
\* agent's queries, however its output is cut into reads.
ScreenIsTrue == Tui!ScreenIsTrue /\ [](part = "queries" => Queries!TerminalAnswers)

\* An office stops for model usage when every limit is used up, and only when
\* that is proven.
UsageStops == [](part = "usage" => Usage!StopIsProven) /\ Usage!UsedUpStops
=============================================================================
