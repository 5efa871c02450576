------------------------------- MODULE Office -------------------------------
(***************************************************************************)
(* The parts of a running office that keep their state apart, one at a     *)
(* time: a behaviour chooses its part and stays with it.  The parts share  *)
(* no variable and no lock, so that running them together shows nothing    *)
(* that running each alone does not.                                       *)
(***************************************************************************)
EXTENDS Integers, Sequences, FiniteSets

CONSTANTS
  Requests, NoRequest, MaxMail, MaxEvents,            \* AgentIO
  MaxAlarms, MaxAlarmEvents, PerRound,                \* SmokeRounds
  MaxIncidents, MaxFirefighters, MaxFireEvents,       \* Incidents
  Agents, MaxStopEvents,                              \* OfficeStop
  MaxNamers, ValidNames, NoName, Failed, Fallback,    \* BranchNaming
  Lead, Kids, Repos, RepoOf, MaxNames, MaxTreeEvents, \* Worktrees
  MaxCEOs, MaxRestarts, MaxRetries, MaxCEOEvents,     \* CEORestart
  Lines, Limits, Rows, MaxOutputs, MaxTails, MaxMinutes   \* SessionLog

ASSUME OfficeConstants ==
  /\ {MaxMail, MaxEvents, MaxAlarms, MaxAlarmEvents, PerRound, MaxIncidents,
      MaxFirefighters, MaxFireEvents, MaxStopEvents, MaxNamers, MaxTreeEvents,
      MaxRestarts, MaxRetries, MaxCEOEvents, Rows, MaxOutputs, MaxTails,
      MaxMinutes} \subseteq Nat
  /\ MaxCEOs \in Nat \ {0} /\ MaxNames \in Nat \ {0}
  /\ NoRequest \notin Requests
  /\ \A a, b \in Agents : a # <<b[1], 0>>     \* see OfficeStop!Earlier
  /\ {NoName, Failed, Fallback} \cap ValidNames = {}
  /\ NoName # Failed /\ NoName # Fallback /\ Failed # Fallback
  /\ Lead \notin Kids /\ RepoOf \in [Kids \cup {Lead} -> Repos]
  /\ Limits \subseteq Int \X Nat /\ Limits # {}
  /\ IsFiniteSet(Lines)

VARIABLES
  part,  \* The part this behaviour is about.
  terminal, unread, notifiers, told, missed, wait, waiter, token, pendingMail,
  mailFlush, pendingInput, flushing, inputFlush, inputTimer, sending, step, screen,
  answers, typing, recent, debounce, mails, events,
  alarm, retries, loop, round, armed, timedOut, due, smokeResumeWake, halted, alert,
  alarmEvents,
  incident, firefighter, fights, replacing, picks, stranded, fireEvents,
  row, running, handoff, finished, shutdownInProgress, beginning, targets, awaiting,
  polled, lifecycle, toldPlugins, emergencyStop, stopping, closing, read, loops,
  stopEvents,
  asking, waiting, result, by, chosen, namer, exits, retry, accepted, jobCancelled,
  policy, leadRole, naming, job, crew, exiting, recorded, head, files, branch, landed,
  dispatch, making, merge, cleaning, boot, lostTrees, wrote, excused, treeEvents,
  ceo, exit, hand, attempt, order, ceoFailures, ceoYoung, burst, noCEO, overlapped,
  ceoEvents,
  limit, shown, logLines, logSeen, logMu, delta, segments, open, pump, tail, logged,
  logEvents

\* The variables of each part.
ioVars == <<terminal, unread, notifiers, told, missed, wait, waiter, token, pendingMail,
  mailFlush, pendingInput, flushing, inputFlush, inputTimer, sending, step, screen,
  answers, typing, recent, debounce, mails, events>>
smokeVars == <<alarm, retries, loop, round, armed, timedOut, due, smokeResumeWake, halted,
  alert, alarmEvents>>
fireVars == <<incident, firefighter, fights, replacing, picks, stranded, fireEvents>>
stopVars == <<row, running, handoff, finished, shutdownInProgress, beginning, targets,
  awaiting, polled, lifecycle, toldPlugins, emergencyStop, stopping, closing, read, loops,
  stopEvents>>
namerVars == <<asking, waiting, result, by, chosen, namer, exits, retry, accepted,
  jobCancelled>>
treeVars == <<policy, leadRole, naming, job, crew, exiting, recorded, head, files, branch,
  landed, dispatch, making, merge, cleaning, boot, lostTrees, wrote, excused, treeEvents>>
ceoVars == <<ceo, exit, hand, attempt, order, ceoFailures, ceoYoung, burst, noCEO,
  overlapped, ceoEvents>>
logVars == <<limit, shown, logLines, logSeen, logMu, delta, segments, open, pump, tail,
  logged, logEvents>>

vars == <<part, ioVars, smokeVars, fireVars, stopVars, namerVars, treeVars, ceoVars,
          logVars>>

\* The parts.
IO == INSTANCE AgentIO
Smoke == INSTANCE SmokeRounds
Fire == INSTANCE Incidents
Stop == INSTANCE OfficeStop WITH told <- toldPlugins
Namer == INSTANCE BranchNaming WITH Names <- ValidNames, waiter <- waiting, branch <- chosen
Trees == INSTANCE Worktrees
CEO == INSTANCE CEORestart
Log == INSTANCE SessionLog WITH screen <- shown

\* AgentIO is two parts: mail and waits, and inputs, which meet only in the user
\* who types.
Parts == {"mail", "input", "smoke", "fire", "stop", "namer", "trees", "ceo", "log"}

\* A part that is not chosen starts in one of its initial states, which one
\* does not matter.
Init ==
  /\ part \in Parts
  /\ IO!Init /\ Fire!Init /\ Stop!Init /\ Namer!Init
  /\ Smoke!Init /\ (part # "smoke" => loop = Smoke!Idle)
  /\ Trees!Init
  /\ part # "trees" => (\A r \in Repos : policy[r] = "asis") /\ leadRole = "developer" /\ naming = "ai"
  /\ CEO!Init
  /\ Log!Init /\ (part # "log" => limit = (CHOOSE l \in Limits : TRUE))

\* The part p takes a step, which leaves the variables of the other parts alone.
Do(p) == part = p /\ part' = p
Others(p) ==
  /\ IF p \in {"mail", "input"} THEN TRUE ELSE UNCHANGED ioVars
  /\ IF p = "smoke" THEN TRUE ELSE UNCHANGED smokeVars
  /\ IF p = "fire" THEN TRUE ELSE UNCHANGED fireVars
  /\ IF p = "stop" THEN TRUE ELSE UNCHANGED stopVars
  /\ IF p = "namer" THEN TRUE ELSE UNCHANGED namerVars
  /\ IF p = "trees" THEN TRUE ELSE UNCHANGED treeVars
  /\ IF p = "ceo" THEN TRUE ELSE UNCHANGED ceoVars
  /\ IF p = "log" THEN TRUE ELSE UNCHANGED logVars

Next ==
  \/ Do("mail") /\ (IO!MailStep \/ IO!SessionStep \/ IO!UserStep) /\ Others("mail")
  \/ Do("input") /\ (IO!InputStep \/ IO!SessionStep \/ IO!UserStep) /\ Others("input")
  \/ Do("smoke") /\ (\/ Smoke!Tick \/ Smoke!TimeoutFires \/ Smoke!LoopStep \/ Smoke!AlarmStep
                     \/ Smoke!Halt \/ Smoke!Resume \/ Smoke!Alert) /\ Others("smoke")
  \/ Do("fire") /\ (Fire!IncidentStep \/ Fire!PickStep \/ Fire!FirefighterStep
                    \/ Fire!OfficeRestarts) /\ Others("fire")
  \/ Do("stop") /\ (\/ Stop!AgentStep \/ Stop!ShutdownStep \/ Stop!CloseStepTaken
                    \/ Stop!LoopStep \/ Stop!Begin \/ Stop!EmergencyStop \/ Stop!Exit
                    \/ Stop!Restart) /\ Others("stop")
  \/ Do("namer") /\ (\/ Namer!NamerStep \/ Namer!DispatcherStep \/ Namer!RetryHandshake
                     \/ Namer!CancelJob) /\ Others("namer")
  \/ Do("trees") /\ (\/ Trees!JobStep \/ Trees!AssignRecords \/ Trees!PMStep
                     \/ Trees!BootStep) /\ Others("trees")
  \/ Do("ceo") /\ (\/ CEO!ExitStep \/ CEO!HandshakeStep \/ CEO!OrderStep \/ CEO!CEOStep
                   \/ CEO!GrowsUp) /\ Others("ceo")
  \/ Do("log") /\ Log!LogStep /\ Others("log")

\* The fairness of the parts. Goroutines that are ready run, the debounce of a
\* user who stopped typing ends, timers fire; see the parts.
Fairness ==
  /\ WF_ioVars(Do("mail") /\ IO!Deliver) /\ WF_ioVars(Do("mail") /\ IO!Notice)
  /\ WF_ioVars(Do("mail") /\ IO!WaitStep) /\ WF_ioVars(Do("mail") /\ IO!Pauses)
  /\ WF_ioVars(Do("input") /\ IO!FlushStep) /\ WF_ioVars(Do("input") /\ IO!Write)
  /\ WF_ioVars(Do("input") /\ IO!PutBack) /\ WF_ioVars(Do("input") /\ IO!Finish)
  /\ WF_ioVars(Do("input") /\ IO!TimerFires) /\ WF_ioVars(Do("input") /\ IO!WatchExit)
  /\ WF_ioVars(Do("input") /\ IO!Pauses)
  /\ WF_smokeVars(Do("smoke") /\ Smoke!LoopStep) /\ WF_smokeVars(Do("smoke") /\ Smoke!TimeoutFires)
  /\ WF_stopVars(Do("stop") /\ Stop!Announce) /\ WF_stopVars(Do("stop") /\ Stop!List)
  /\ WF_stopVars(Do("stop") /\ Stop!AllAcknowledged) /\ WF_stopVars(Do("stop") /\ Stop!Expires)
  /\ WF_stopVars(Do("stop") /\ emergencyStop /\ Stop!Exit)
  /\ WF_stopVars(Do("stop") /\ Stop!CloseStepTaken) /\ WF_stopVars(Do("stop") /\ Stop!NamerTimesOut)
  /\ WF_stopVars(Do("stop") /\ Stop!LoopsEnd)
  /\ WF_ceoVars(Do("ceo") /\ CEO!ExitStep) /\ WF_ceoVars(Do("ceo") /\ CEO!HandshakeStep)
  /\ WF_ceoVars(Do("ceo") /\ CEO!OrderStep)

Spec == Init /\ [][Next]_vars /\ Fairness

----------------------------------------------------------------------------
(* The properties of the parts; what each says is beside its definition.     *)

\* The type invariants of the parts.
TypesOK ==
  /\ part \in {"mail", "input"} => IO!TypeOK
  /\ part = "smoke" => Smoke!TypeOK
  /\ part = "fire" => Fire!TypeOK
  /\ part = "stop" => Stop!TypeOK
  /\ part = "namer" => Namer!TypeOK
  /\ part = "trees" => Trees!TypeOK
  /\ part = "ceo" => CEO!TypeOK
  /\ part = "log" => Log!TypeOK

\* Inputs reach an agent as a queue promises, each caller answered at most once
\* (agent.input, flushAgentInput and watchExit refine InputFIFO).
InputsInOrder == IO!InputsInOrder

\* An agent learns of its unread mail, no `omo wait` sleeps over it, and whoever
\* types into an agent gets an answer, in spite of the debounce, of lost sessions
\* and of waits that time out.
AgentsAreAnswered == []IO!SleeperIsWoken /\ IO!MailIsNoticed /\ IO!InputsAnswered

\* What a session prints is recorded once and in whole (pump, TailLog, rotate).
SessionsAreTrue == part = "log" => Log!TranscriptKept

\* There is one CEO; one that ended is replaced or the user knows that none comes,
\* except where the spawn of the next one fails in a goroutine, whose error the code
\* drops; and one that cannot start is not started for ever (respawnCEO,
\* watchHandshake, StopAgent).
CEOIsReplaced ==
  [](part = "ceo" => CEO!OneCEO /\ CEO!RestartsBounded) /\ CEO!CEOReturns

\* An open incident has somebody on the way to it, a smoke round that fell due or
\* timed out during a halt is taken up after it, and a hung alarm is ended.
AlarmsAreAttended ==
  /\ [](part = "fire" => Fire!IncidentAttended)
  /\ Smoke!DueRoundStarts /\ Smoke!HungAlarmEnds

\* A safe shutdown waits for every acknowledgement or its deadline, plugins are
\* told of a stop as it is, and whoever asks for a stop gets it: Close ends,
\* whatever loops and namers do (BeginSafeShutdown, awaitSafeShutdown, Close).
OfficeStops == Stop!SafeShutdownKept /\ Stop!OfficeStops

\* The branch name that a namer was told is accepted is the one the job gets, and
\* no merge, clean-up, restart or requeue loses the work on a branch, but for the
\* done as-is jobs of a single developer or freelancer, whose branch the clean-up
\* can delete, and for the races named at CommitsAreKept.
BranchesAreKept ==
  /\ part = "namer" => Namer!AcceptedNameIsUsed
  /\ part = "trees" => Trees!WorkIsKept
=============================================================================
