----------------------------- MODULE TuiScreens -----------------------------
(***************************************************************************)
(* The terminal UI of an office (tui/tui.go, actions.go, commands.go,        *)
(* manual_plugin.go, cache.go): one event loop that updates its model by a    *)
(* key, a click, a tick, a message from the company's dashboard or a finished *)
(* command, and then draws it. What is selected is an index into rows that    *)
(* were queried when the screen was drawn, while the office goes on.          *)
(*                                                                         *)
(* Only the rows of the tab being shown are cached; elsewhere a helper queries*)
(* afresh. Incidents, events, messages and statistics are lists that are only  *)
(* read and share the code below; texts, scrolling and layout are left out.   *)
(***************************************************************************)
EXTENDS Naturals, Sequences, FiniteSets

CONSTANTS
  Agents, Plugins,  \* Numbers: the agents and plugins that may appear.
  MaxJobs,          \* Bound: jobs that are ever created.
  MaxUiEvents       \* Bound: what the office and the dashboard do meanwhile.

Tabs == {"agents", "jobs", "plugins", "commands", "preview"}
Listed == {"agents", "jobs", "plugins"}
None == <<>>

VARIABLES
  observer,     \* Whether this is the read-only observer of a running office.
  mode, returnMode, tab, sel,
  peek, readOnly,
  cache,        \* The rows of this tab as they were drawn, if they are loaded.
  agents,       \* The office: the places of the living agents,
  jobs,         \* how many jobs there are, newest first on the screen,
  plugins,      \* and how many plugins.
  interaction,  \* The supervisor's interactiveAgent, if writable.
  compose,      \* The composer's target.
  detail,       \* The plugin whose detail was opened and where it returns to.
  menu,         \* The target of the action menu.
  manual,       \* [plugin -> "idle", "choosing" or "running"]
  triggers,     \* The manual triggers under way.
  console,      \* The command console: screen and running.
  commands,     \* How many commands are under way.
  effect,       \* Ghost: what the last key did in the office, and to whom.
  uiEvents

vars == <<observer, mode, returnMode, tab, sel, peek, readOnly, cache, agents, jobs, plugins,
          interaction, compose, detail, menu, manual, triggers, console, commands, effect,
          uiEvents>>

office == <<agents, jobs, plugins, uiEvents>>
position == <<observer, tab, sel>>
dialogs == <<returnMode, compose, detail, menu>>
background == <<manual, triggers, console, commands>>

NotLoaded == [loaded |-> FALSE, rows |-> <<>>]
Loaded(rows) == [loaded |-> TRUE, rows |-> rows]
NoDetail == [plugin |-> None, back |-> "overview"]
NoEffect == [kind |-> "none", target |-> None]
Agent(i) == <<"agent", i>>

TypeOK ==
  /\ mode \in {"overview", "peek", "quit_confirm", "compose_message", "detail",
               "safe_shutdown_confirm", "action_menu", "command_console", "prompt_input", "quit"}
  /\ tab \in Tabs /\ returnMode \in {"overview", "peek"} /\ agents \subseteq Agents
  /\ DOMAIN manual = Plugins /\ commands \in Nat
  /\ console.screen \in {"browse", "form", "confirm", "raw"}

\* The living agents, in the order of the screen.
AgentRows ==
  LET places == 1..Cardinality(agents)
      order == CHOOSE f \in [places -> agents] : \A i, j \in places : i < j => f[i] < f[j]
  IN [i \in places |-> Agent(order[i])]

\* What a query finds now, in the order of the screen.
Rows(t) ==
  CASE t = "agents"  -> AgentRows
    [] t = "jobs"    -> [i \in 1..jobs |-> <<"job", jobs + 1 - i>>]
    [] t = "plugins" -> [i \in 1..plugins |-> <<"plugin", i>>]
    [] OTHER         -> <<>>

\* The office's own screen starts in the peek of the CEO, agent 1, if it runs.
Init ==
  /\ observer \in BOOLEAN /\ agents \in {{}, {1}, {1, 2}} /\ jobs = 1 /\ plugins = 1
  /\ mode = IF observer \/ 1 \notin agents THEN "overview" ELSE "peek"
  /\ peek = IF mode = "peek" THEN Agent(1) ELSE None
  /\ interaction = peek
  /\ returnMode = "overview" /\ tab = "agents" /\ sel = [t \in Listed |-> 1]
  /\ readOnly = FALSE
  /\ cache = IF mode = "overview" THEN Loaded(Rows(tab)) ELSE NotLoaded
  /\ compose = None /\ detail = NoDetail /\ menu = None
  /\ manual = [p \in Plugins |-> "idle"] /\ triggers = {}
  /\ console = [screen |-> "browse", running |-> FALSE] /\ commands = 0
  /\ effect = NoEffect /\ uiEvents = 0

Screens == [t \in Tabs |-> Rows(t)]

\* View begins a new cache and loads what the new screen lists.
View == cache' = IF mode' = "overview" THEN Loaded(Screens'[tab']) ELSE NotLoaded

\* mutant: keys and clicks look at the office, not at what was drawn.
Fresh(t) == Rows(t)

\* The rows an update works with.
List(t) == IF cache.loaded THEN cache.rows ELSE Rows(t)

Selected == IF tab \in Listed /\ sel[tab] \in DOMAIN List(tab) THEN List(tab)[sel[tab]] ELSE None

Living(a) == \E i \in agents : a = Agent(i)   \* canMessage
DefaultReadOnly(a) == a # Agent(1) \/ 1 \notin agents

SetInteraction(a, writable) == interaction' = IF writable THEN a ELSE None
KeepInteraction == interaction' = interaction
Affects(kind, target) == effect' = [kind |-> kind, target |-> target]
Silent == effect' = NoEffect
In(m) == mode = m

\* Clamped: the selection of a tab within its rows.
Clamped(t) ==
  [sel EXCEPT ![t] = IF Rows(t) = <<>> THEN 1 ELSE IF @ > Len(Rows(t)) THEN Len(Rows(t)) ELSE @]

----------------------------------------------------------------------------
(* The overview.                                                             *)

TabOpen(t) == ~observer \/ t \in Listed

SelectTab(t) ==
  /\ In("overview") /\ TabOpen(t) /\ t # tab /\ tab' = t
  /\ sel' = IF t \in Listed THEN Clamped(t) ELSE sel
  /\ UNCHANGED <<observer, mode, peek, readOnly, dialogs, background, office>>
  /\ KeepInteraction /\ Silent /\ View

\* Up, down, or a click on a row that is not selected.
SelectRow(i) ==
  /\ In("overview") /\ tab \in Listed /\ i \in DOMAIN List(tab) \cup {sel[tab] - 1}
  /\ i > 0 /\ i # sel[tab] /\ sel' = [sel EXCEPT ![tab] = i]
  /\ UNCHANGED <<observer, tab, mode, peek, readOnly, dialogs, background, office>>
  /\ KeepInteraction /\ Silent /\ View

AsksToQuit ==
  /\ In("overview") /\ returnMode' = "overview" /\ mode' = "quit_confirm"
  /\ UNCHANGED <<position, peek, readOnly, compose, detail, menu, background, office>>
  /\ KeepInteraction /\ Silent /\ View

\* Enter, or a click on the selected row.
OpenPeek ==
  /\ In("overview") /\ tab = "agents" /\ ~observer /\ Selected # None
  /\ mode' = "peek" /\ peek' = Selected /\ readOnly' = DefaultReadOnly(Selected)
  /\ SetInteraction(peek', ~readOnly') /\ Affects("peek", peek')
  /\ UNCHANGED <<position, dialogs, background, office>> /\ View

OpenDetail ==
  /\ In("overview") /\ tab \in {"jobs", "plugins"} /\ Selected # None
  /\ detail' = [NoDetail EXCEPT !.plugin = IF tab = "plugins" THEN Selected ELSE None]
  /\ mode' = "detail" /\ Affects("show", Selected)
  /\ IF observer THEN KeepInteraction ELSE SetInteraction(None, FALSE)
  /\ UNCHANGED <<position, peek, readOnly, returnMode, compose, menu, background, office>> /\ View

OpenMenu ==
  /\ In("overview") /\ ~observer /\ tab \in {"agents", "jobs"} /\ Selected # None
  /\ menu' = Selected /\ mode' = "action_menu" /\ SetInteraction(None, FALSE)
  /\ Affects("show", Selected)
  /\ UNCHANGED <<position, peek, readOnly, returnMode, compose, detail, background, office>> /\ View

OpensComposer(target, back) ==
  /\ returnMode' = back /\ mode' = "compose_message" /\ compose' = target
  /\ SetInteraction(None, FALSE)

ComposeFromOverview ==
  /\ In("overview") /\ ~observer /\ tab = "agents" /\ Living(Selected)
  /\ OpensComposer(Selected, "overview") /\ Affects("show", Selected)
  /\ UNCHANGED <<position, peek, readOnly, detail, menu, background, office>> /\ View

OpenConsole ==
  /\ In("overview") /\ tab = "commands"
  /\ mode' = "command_console" /\ console' = [console EXCEPT !.screen = "browse"]
  /\ SetInteraction(None, FALSE) /\ Silent
  /\ UNCHANGED <<position, peek, readOnly, dialogs, manual, triggers, commands, office>> /\ View

OpenPromptInput ==
  /\ In("overview") /\ tab = "preview" /\ mode' = "prompt_input"
  /\ SetInteraction(None, FALSE) /\ Silent
  /\ UNCHANGED <<position, peek, readOnly, dialogs, background, office>> /\ View

Overview ==
  \/ \E t \in Tabs : SelectTab(t)
  \/ \E i \in 1..2 : SelectRow(i)
  \/ AsksToQuit \/ OpenPeek \/ OpenDetail \/ OpenMenu \/ ComposeFromOverview
  \/ OpenConsole \/ OpenPromptInput

----------------------------------------------------------------------------
(* The peek.                                                                 *)

LeavePeek ==
  /\ In("peek") /\ mode' = "overview" /\ peek' = None /\ SetInteraction(None, FALSE) /\ Silent
  /\ UNCHANGED <<position, readOnly, dialogs, background, office>> /\ View

ToggleWritable ==
  /\ In("peek") /\ readOnly' = ~readOnly /\ SetInteraction(peek, readOnly) /\ Silent
  /\ UNCHANGED <<position, mode, peek, dialogs, background, office>> /\ View

TypeIntoPeek ==
  /\ In("peek") /\ ~readOnly /\ Living(peek) /\ Affects("type", peek)
  /\ UNCHANGED <<position, mode, peek, readOnly, dialogs, background, office>>
  /\ KeepInteraction /\ View

ComposeFromPeek ==
  /\ In("peek") /\ readOnly /\ Living(peek) /\ OpensComposer(peek, "peek") /\ Affects("show", peek)
  /\ UNCHANGED <<position, peek, readOnly, detail, menu, background, office>> /\ View

OpenReadyPrompt ==
  /\ In("peek") /\ readOnly /\ detail' = [plugin |-> None, back |-> "peek"] /\ mode' = "detail"
  /\ SetInteraction(None, FALSE) /\ Affects("show", peek)
  /\ UNCHANGED <<position, peek, readOnly, returnMode, compose, menu, background, office>> /\ View

Peek == LeavePeek \/ ToggleWritable \/ TypeIntoPeek \/ ComposeFromPeek \/ OpenReadyPrompt

----------------------------------------------------------------------------
(* The dialogs.                                                              *)

Goes(to) == mode' = to /\ UNCHANGED <<position, peek, readOnly, background, office>>

QuitConfirm ==
  /\ In("quit_confirm") /\ KeepInteraction
  /\ \/ Goes(returnMode) /\ Silent
     \/ ~observer /\ Goes("safe_shutdown_confirm") /\ Silent
  /\ UNCHANGED dialogs /\ View

SafeShutdownConfirm ==
  /\ In("safe_shutdown_confirm") /\ Goes("overview") /\ KeepInteraction
  /\ Silent \/ Affects("safe shutdown", None)
  /\ UNCHANGED dialogs /\ View

\* closeComposer: an escape, or a message that was sent.
Composer ==
  /\ In("compose_message") /\ Goes(returnMode) /\ compose' = None
  /\ \/ Silent
     \/ Living(compose) /\ Affects("mail", compose)
  /\ IF returnMode = "peek" THEN SetInteraction(peek, ~readOnly) ELSE KeepInteraction
  /\ UNCHANGED <<returnMode, detail, menu>> /\ View

\* mutant: the chosen action is resolved again by the selection's index.
ActsOnSelection == Selected

ActionTarget == menu

ActionMenu ==
  /\ In("action_menu") /\ KeepInteraction
  /\ \/ /\ mode' = "overview" /\ menu' = None /\ Silent /\ sel' = sel
     \/ /\ Affects("manage", ActionTarget) /\ mode' = "overview" /\ menu' = None
        /\ sel' = Clamped(tab)
     \/ /\ Affects("manage", ActionTarget) /\ UNCHANGED <<mode, menu, sel>>   \* It failed.
  /\ UNCHANGED <<observer, tab, peek, readOnly, returnMode, compose, detail, background, office>>
  /\ View

PromptInput ==
  /\ In("prompt_input") /\ KeepInteraction /\ Silent
  /\ \/ Goes("overview") /\ detail' = detail
     \/ Goes("detail") /\ detail' = NoDetail
  /\ UNCHANGED <<returnMode, compose, menu>> /\ View

----------------------------------------------------------------------------
(* A detail, and the manual actions of a plugin.                              *)

Shown == IF detail.plugin = None THEN 0 ELSE detail.plugin[2]
Stays == UNCHANGED <<position, mode, peek, readOnly, dialogs, office>> /\ KeepInteraction

LeaveDetail ==
  /\ In("detail") /\ ~(Shown # 0 /\ manual[Shown] = "choosing")
  /\ Goes(detail.back) /\ detail' = NoDetail /\ KeepInteraction /\ Silent
  /\ UNCHANGED <<returnMode, compose, menu>> /\ View

\* The list of actions, or the arguments of the only one.
ChooseAction ==
  /\ In("detail") /\ ~observer /\ Shown # 0 /\ manual[Shown] = "idle"
  /\ manual' = [manual EXCEPT ![Shown] = "choosing"]
  /\ UNCHANGED <<triggers, console, commands>> /\ Stays /\ Silent /\ View

LeaveChoice ==
  /\ In("detail") /\ ~observer /\ Shown # 0 /\ manual[Shown] = "choosing"
  /\ manual' = [manual EXCEPT ![Shown] = "idle"]
  /\ UNCHANGED <<triggers, console, commands>> /\ Stays /\ Silent /\ View

\* Enter, or a click on the chosen action; an action without arguments starts
\* from the idle detail.
StartManualPlugin ==
  /\ In("detail") /\ ~observer /\ Shown # 0 /\ manual[Shown] # "running"
  /\ manual' = [manual EXCEPT ![Shown] = "running"]
  /\ triggers' = triggers \cup {Shown} /\ Affects("trigger", detail.plugin)
  /\ UNCHANGED <<console, commands>> /\ Stays /\ View

\* finishManualPlugin, in whatever mode: the detail is refreshed if it is that
\* plugin's and still selected.
FinishManualPlugin(p) ==
  /\ p \in triggers /\ triggers' = triggers \ {p}
  /\ manual' = [manual EXCEPT ![p] = "idle"]
  /\ UNCHANGED <<console, commands, uiEvents>> /\ Stays /\ Silent /\ View

Detail == LeaveDetail \/ ChooseAction \/ LeaveChoice \/ StartManualPlugin

----------------------------------------------------------------------------
(* The command console.                                                      *)

Screen(s) == console.screen = s
Console(new) == console' = new /\ UNCHANGED <<manual, triggers>> /\ Stays /\ View

LeaveConsole ==
  /\ In("command_console") /\ Screen("browse") /\ Goes("overview") /\ KeepInteraction /\ Silent
  /\ UNCHANGED dialogs /\ View

\* A form for a command's inputs, or the raw line, which keeps the last command.
BrowseConsole ==
  /\ In("command_console")
  /\ \/ /\ Screen("browse") /\ \E s \in {"form", "raw"} : Console([console EXCEPT !.screen = s])
     \/ /\ ~Screen("browse")
        /\ Console([console EXCEPT !.screen = IF Screen("confirm") THEN "form" ELSE "browse"])
  /\ commands' = commands /\ Silent

\* mutant: the running flag does not keep a second command from starting.
StartsAnyway(c) ==
  /\ commands' = commands + 1 /\ Affects("command", None)
  /\ Console([c EXCEPT !.running = TRUE])

StartCommand(c) ==
  IF console.running
  THEN commands' = commands /\ Silent /\ Console(c)
  ELSE /\ commands' = commands + 1 /\ Affects("command", None)
       /\ Console([c EXCEPT !.running = TRUE])

\* A guided command; a destructive one asks for "yes" first.
PrepareCommand ==
  /\ In("command_console") /\ Screen("form")
  /\ \/ StartCommand([console EXCEPT !.screen = "browse"])
     \/ /\ Console([console EXCEPT !.screen = "confirm"])
        /\ commands' = commands /\ Silent

ConfirmCommand ==
  /\ In("command_console") /\ Screen("confirm")
  /\ StartCommand([console EXCEPT !.screen = "browse"])

RunRawCommand ==
  /\ In("command_console") /\ Screen("raw")
  /\ StartCommand(console)

FinishCommand ==
  /\ commands > 0 /\ commands' = commands - 1
  /\ Console([console EXCEPT !.running = FALSE]) /\ Silent

CommandConsole ==
  LeaveConsole \/ BrowseConsole \/ PrepareCommand \/ ConfirmCommand \/ RunRawCommand

----------------------------------------------------------------------------
(* What comes from outside.                                                  *)

Event == uiEvents < MaxUiEvents /\ uiEvents' = uiEvents + 1

\* Ctrl+C in whatever mode, or an emergency stop: the screen ends as it is.
Quits ==
  /\ ~In("quit") /\ Goes("quit") /\ UNCHANGED dialogs /\ KeepInteraction /\ Silent /\ View

\* tuiStateMsg: the dashboard shows the overview, or an agent's peek, whatever
\* is on the screen.
ShowOverview ==
  /\ ~observer /\ ~In("quit") /\ Event
  /\ mode' = "overview" /\ peek' = None /\ readOnly' = FALSE /\ SetInteraction(None, FALSE)
  /\ UNCHANGED <<position, dialogs, background, agents, jobs, plugins>> /\ Silent /\ View

ShowPeek ==
  /\ ~observer /\ ~In("quit") /\ Event
  /\ \E i \in Agents :
       /\ mode' = "peek" /\ peek' = Agent(i) /\ readOnly' = DefaultReadOnly(Agent(i))
       /\ SetInteraction(peek', ~readOnly')
  /\ UNCHANGED <<position, dialogs, background, agents, jobs, plugins>> /\ Silent /\ View

Tick ==
  /\ UNCHANGED <<position, mode, peek, readOnly, dialogs, background, office>>
  /\ KeepInteraction /\ Silent /\ View

\* The office goes on between two screens.
OfficeMoves ==
  /\ Event
  /\ \/ \E i \in Agents :
          /\ agents' \in {agents \cup {i}, agents \ {i}} \ {agents} /\ UNCHANGED <<jobs, plugins>>
     \/ jobs < MaxJobs /\ jobs' = jobs + 1 /\ UNCHANGED <<agents, plugins>>
     \/ plugins' \in Plugins \ {plugins} /\ UNCHANGED <<agents, jobs>>
  /\ UNCHANGED <<position, mode, peek, readOnly, cache, dialogs, background>>
  /\ KeepInteraction /\ Silent

Next ==
  \/ Overview \/ Peek \/ QuitConfirm \/ SafeShutdownConfirm \/ Composer \/ ActionMenu
  \/ PromptInput \/ Detail \/ CommandConsole
  \/ \E p \in Plugins : FinishManualPlugin(p)
  \/ Quits \/ FinishCommand \/ ShowOverview \/ ShowPeek \/ (~In("quit") /\ Tick)
  \/ (~In("quit") /\ OfficeMoves)

Spec == Init /\ [][Next]_vars

----------------------------------------------------------------------------
\* What the screen names as the one that a key is about: the row drawn as
\* selected, or the one that a dialog, the peek or a detail was opened for.
OnScreen ==
  CASE In("overview")        -> IF tab \in Listed /\ sel[tab] \in DOMAIN cache.rows THEN cache.rows[sel[tab]]
                                ELSE None
    [] In("peek")            -> peek
    [] In("compose_message") -> compose
    [] In("action_menu")     -> menu
    [] In("detail")          -> detail.plugin
    [] OTHER                 -> None

\* A key acts on the agent, job or plugin that the screen shows it for, though
\* the rows have moved meanwhile, and an observer's acts on nothing.
WhatYouSee ==
  [][effect' # NoEffect =>
       /\ effect'.target = OnScreen
       /\ observer => effect'.kind = "show"]_vars

\* The supervisor holds back an agent's inputs exactly while the screen lets
\* the user type to that agent.
InteractionIsShown ==
  ~In("quit") => interaction = IF In("peek") /\ ~readOnly THEN peek ELSE None

\* One command and one trigger of a plugin run at a time, wherever the user
\* has gone since, and the screen knows which do.
OneAtATime ==
  /\ commands = IF console.running THEN 1 ELSE 0
  /\ \A p \in Plugins : (manual[p] = "running") = (p \in triggers)

ScreenIsTrue == WhatYouSee /\ [](InteractionIsShown /\ OneAtATime)
=============================================================================
