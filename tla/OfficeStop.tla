----------------------------- MODULE OfficeStop -----------------------------
(* How an office stops: the safe shutdown, which asks its agents to finish  *)
(* or to save a handoff and waits for them; the emergency stop; and Close,  *)
(* which ends loops, sessions and files in order.  What an agent saved is   *)
(* given to the next agent of its role and job.                             *)
EXTENDS Naturals, FiniteSets

CONSTANTS Agents,         \* pairs: a role and its job; which agent of these
          MaxStopEvents   \* stop requests, failures, restarts

VARIABLES
  row,             \* agents.state: none, spawning, ready, over (done or dead)
  running,         \* the agents whose session is registered
  handoff,         \* the agents with a row in shutdown_contexts
  finished,        \* safeShutdownRoleComplete: its job is past its role
  shutdownInProgress,
  beginning,       \* beginSafeShutdown: no, tell, list, over
  targets,         \* the agents awaitSafeShutdown waits for
  awaiting,        \* where it is: no, poll, ready, expired
  polled,          \* the targets it has looked at in this poll
  lifecycle,       \* shutdownLifecycleStarted and ...Safe: unset, safe, ordinary
  told,            \* what plugins were told: nothing, safe, ordinary
  emergencyStop,   \* the channel is closed
  stopping,        \* no session is registered any more
  closing,         \* the step of Close
  read,            \* what its EmitShutdown has read
  loops,           \* runtime loops: run, busy (one waits for a namer), ended
  stopEvents

agentVars == <<row, running, handoff, finished>>
shutdownVars == <<shutdownInProgress, beginning, targets, awaiting, polled>>
tellVars == <<lifecycle, told, read>>
closeVars == <<emergencyStop, stopping, closing, loops>>
vars == <<agentVars, shutdownVars, tellVars, closeVars, stopEvents>>

Post(a) == a[1]
Earlier == {<<Post(a), 0>> : a \in Agents}    \* who saved a handoff in the last run

TypeOK ==
  /\ row \in [Agents -> {"none", "spawning", "ready", "over"}]
  /\ running \subseteq Agents /\ handoff \subseteq Agents \cup Earlier /\ finished \subseteq Agents
  /\ {shutdownInProgress, emergencyStop, stopping} \subseteq BOOLEAN
  /\ beginning \in {"no", "tell", "list", "over"}
  /\ targets \subseteq Agents /\ polled \subseteq Agents
  /\ awaiting \in {"no", "poll", "ready", "expired"}
  /\ {lifecycle, told, read} \subseteq {"unset", "safe", "ordinary"}
  /\ closing \in {"open", "emit", "claim", "cancel", "loops", "kill", "closed"}
  /\ loops \in {"run", "busy", "ended"}
  /\ stopEvents \in 0 .. MaxStopEvents

Init ==
  /\ row = [a \in Agents |-> "none"]
  /\ running = {} /\ handoff = Earlier /\ finished = {}
  /\ shutdownInProgress = FALSE /\ beginning = "no" /\ targets = {}
  /\ awaiting = "no" /\ polled = {}
  /\ lifecycle = "unset" /\ told = "unset" /\ read = "unset"
  /\ emergencyStop = FALSE /\ stopping = FALSE /\ closing = "open" /\ loops = "run"
  /\ stopEvents = 0

StopEvent == stopEvents < MaxStopEvents /\ stopEvents' = stopEvents + 1
Alive == {a \in Agents : row[a] \in {"spawning", "ready"}}
Serving == closing \in {"open", "emit", "claim", "cancel"}  \* the socket is open
Open == closing # "closed"

-----------------------------------------------------------------------------
(* Agents                                                                   *)

(* A spawn that has passed spawnAllowed is not called back by a shutdown;   *)
(* a post has one living agent.                                             *)
Insert(a) ==
  /\ Open /\ row[a] = "none" /\ \A b \in Alive : Post(b) # Post(a)
  /\ row' = [row EXCEPT ![a] = "spawning"]
  /\ UNCHANGED <<running, handoff, finished, shutdownVars, tellVars, closeVars, stopEvents>>

(* The session is registered under the lock under which KillAll begins.     *)
Register(a) ==
  /\ Open /\ row[a] = "spawning" /\ a \notin running
  /\ IF stopping THEN row' = [row EXCEPT ![a] = "over"] /\ UNCHANGED running
                 ELSE running' = running \cup {a} /\ UNCHANGED row
  /\ UNCHANGED <<handoff, finished, shutdownVars, tellVars, closeVars, stopEvents>>

(* omo ready: a handoff for this role and job, whoever saved it, goes into  *)
(* the prompt and is deleted.                                               *)
Ready(a) ==
  /\ Serving /\ row[a] = "spawning" /\ a \in running
  /\ row' = [row EXCEPT ![a] = "ready"]
  /\ LET saved == {b \in handoff : Post(b) = Post(a)} IN
     IF saved = {} THEN UNCHANGED handoff
                   ELSE \E b \in saved : handoff' = handoff \ {b}
  /\ UNCHANGED <<running, finished, shutdownVars, tellVars, closeVars, stopEvents>>

(* omo context save                                                         *)
Save(a) ==
  /\ Serving /\ a \in running \ handoff /\ row[a] = "ready"
  /\ handoff' = handoff \cup {a}
  /\ UNCHANGED <<row, running, finished, shutdownVars, tellVars, closeVars, stopEvents>>

(* omo done of a role whose agent stays, or the next step of its job.       *)
Completes(a) ==
  /\ Serving /\ a \in running \ finished /\ row[a] = "ready"
  /\ finished' = finished \cup {a}
  /\ UNCHANGED <<row, running, handoff, shutdownVars, tellVars, closeVars, stopEvents>>

(* Its row is over and its process ends (watchExit).                        *)
Ends(a) ==
  /\ Open /\ a \in running
  /\ running' = running \ {a}
  /\ row' = [row EXCEPT ![a] = "over"]
  /\ UNCHANGED <<handoff, finished, shutdownVars, tellVars, closeVars, stopEvents>>

-----------------------------------------------------------------------------
(* The safe shutdown                                                        *)

(* Mutation: the lifecycle is prepared after the lock is released.          *)
BeginUnprepared ==
  /\ Open /\ ~shutdownInProgress /\ StopEvent
  /\ shutdownInProgress' = TRUE /\ beginning' = "tell"
  /\ UNCHANGED <<agentVars, targets, awaiting, polled, tellVars, closeVars>>

(* The critical section of beginSafeShutdown; a second request is ignored.  *)
Begin ==
  /\ Open /\ ~shutdownInProgress /\ StopEvent
  /\ shutdownInProgress' = TRUE /\ beginning' = "tell"
  /\ lifecycle' = IF lifecycle = "unset" THEN "safe" ELSE lifecycle
  /\ UNCHANGED <<agentVars, targets, awaiting, polled, told, read, closeVars>>

(* EmitShutdown tells plugins once, and what was fixed first.               *)
Claim(what) ==
  /\ lifecycle' = IF lifecycle = "unset" THEN what ELSE lifecycle
  /\ told' = IF told = "unset" THEN lifecycle' ELSE told

Announce ==
  /\ Open /\ beginning = "tell" /\ beginning' = "list"
  /\ Claim("safe")
  /\ UNCHANGED <<agentVars, shutdownInProgress, targets, awaiting, polled, read, closeVars,
                 stopEvents>>

List ==
  /\ Open /\ beginning = "list" /\ beginning' = "over"
  /\ targets' = Alive /\ awaiting' = "poll"
  /\ UNCHANGED <<agentVars, shutdownInProgress, polled, tellVars, closeVars, stopEvents>>

Acknowledged(a) == row[a] = "over" \/ a \in finished \cup handoff

(* complete() looks at one target after the other and begins anew at the    *)
(* next tick when one has not acknowledged.                                 *)
Poll ==
  /\ Open /\ awaiting = "poll" /\ polled # targets
  /\ \E a \in targets \ polled :
       polled' = IF Acknowledged(a) THEN polled \cup {a} ELSE {}
  /\ UNCHANGED <<agentVars, shutdownInProgress, beginning, targets, awaiting, tellVars,
                 closeVars, stopEvents>>

(* Mutation: one target that acknowledged is enough.                        *)
SomeAcknowledged ==
  /\ Open /\ awaiting = "poll" /\ (polled # {} \/ targets = {})
  /\ awaiting' = "ready" /\ emergencyStop' = TRUE
  /\ UNCHANGED <<agentVars, shutdownInProgress, beginning, targets, polled, tellVars,
                 stopping, closing, loops, stopEvents>>

AllAcknowledged ==
  /\ Open /\ awaiting = "poll" /\ polled = targets
  /\ awaiting' = "ready" /\ emergencyStop' = TRUE
  /\ UNCHANGED <<agentVars, shutdownInProgress, beginning, targets, polled, tellVars,
                 stopping, closing, loops, stopEvents>>

(* SafeShutdownTimeout, between two polls.                                  *)
Expires ==
  /\ Open /\ awaiting = "poll" /\ polled # targets
  /\ awaiting' = "expired" /\ emergencyStop' = TRUE
  /\ UNCHANGED <<agentVars, shutdownInProgress, beginning, targets, polled, tellVars,
                 stopping, closing, loops, stopEvents>>

(* office.estop, a hard usage limit, or the loss of the company, which      *)
(* forbids spawns at once.                                                  *)
EmergencyStop ==
  /\ Open /\ ~emergencyStop /\ StopEvent
  /\ emergencyStop' = TRUE
  /\ stopping' \in {stopping, TRUE}
  /\ UNCHANGED <<agentVars, shutdownVars, tellVars, closing, loops>>

-----------------------------------------------------------------------------
(* Close                                                                    *)

CloseStep(from, to) == closing = from /\ closing' = to

(* The owner of the office sees the emergency stop, or the user quits.      *)
Exit ==
  /\ CloseStep("open", "emit")
  /\ \/ emergencyStop /\ UNCHANGED stopEvents
     \/ ~emergencyStop /\ StopEvent
  /\ UNCHANGED <<agentVars, shutdownVars, tellVars, emergencyStop, stopping, loops>>

EmitReads ==
  /\ CloseStep("emit", "claim")
  /\ read' = IF shutdownInProgress THEN "safe" ELSE "ordinary"
  /\ UNCHANGED <<agentVars, shutdownVars, lifecycle, told, emergencyStop, stopping, loops,
                 stopEvents>>

EmitClaims ==
  /\ CloseStep("claim", "cancel") /\ Claim(read)
  /\ UNCHANGED <<agentVars, shutdownVars, read, emergencyStop, stopping, loops, stopEvents>>

(* The context is cancelled, the listener closed.                           *)
Cancel ==
  /\ CloseStep("cancel", "loops")
  /\ UNCHANGED <<agentVars, shutdownVars, tellVars, emergencyStop, stopping, loops,
                 stopEvents>>

(* runtimeWG.Wait, and the beginning of KillAll.                            *)
LoopsJoined ==
  /\ loops = "ended" /\ CloseStep("loops", "kill")
  /\ stopping' = TRUE
  /\ row' = [a \in Agents |-> IF a \in Alive THEN "over" ELSE row[a]]
  /\ UNCHANGED <<running, handoff, finished, shutdownVars, tellVars, emergencyStop, loops,
                 stopEvents>>

(* The sessions ended, or KillAll has waited for five seconds.              *)
Closed ==
  /\ CloseStep("kill", "closed") /\ running' = {}
  /\ UNCHANGED <<row, handoff, finished, shutdownVars, tellVars, emergencyStop, stopping,
                 loops, stopEvents>>

(* The dispatcher waits in branchNameForJob, which does not look at the     *)
(* context: an answer ends the wait as long as the socket is open.          *)
AwaitsNamer ==
  /\ loops = "run" /\ closing \in {"open", "emit", "claim"} /\ loops' = "busy"
  /\ UNCHANGED <<agentVars, shutdownVars, tellVars, emergencyStop, stopping, closing,
                 stopEvents>>

NamerAnswers ==
  /\ loops = "busy" /\ Serving /\ loops' = "run"
  /\ UNCHANGED <<agentVars, shutdownVars, tellVars, emergencyStop, stopping, closing,
                 stopEvents>>

(* Mutation: a namer that is not heard is waited for as long as it lives.   *)
NamerDies ==
  /\ loops = "busy" /\ loops' = "run" /\ stopping
  /\ UNCHANGED <<agentVars, shutdownVars, tellVars, emergencyStop, stopping, closing,
                 stopEvents>>

NamerTimesOut ==
  /\ loops = "busy" /\ loops' = "run"
  /\ UNCHANGED <<agentVars, shutdownVars, tellVars, emergencyStop, stopping, closing,
                 stopEvents>>

LoopsEnd ==
  /\ loops = "run" /\ closing = "loops" /\ loops' = "ended"
  /\ UNCHANGED <<agentVars, shutdownVars, tellVars, emergencyStop, stopping, closing,
                 stopEvents>>

(* The next run of the office: its agents are new, handoffs were kept.      *)
Restart ==
  /\ closing = "closed" /\ StopEvent
  /\ row' = [a \in Agents |-> IF a \in Alive THEN "over" ELSE row[a]]
  /\ finished' = {} /\ shutdownInProgress' = FALSE /\ beginning' = "no" /\ targets' = {}
  /\ awaiting' = "no" /\ polled' = {}
  /\ lifecycle' = "unset" /\ told' = "unset" /\ read' = "unset"
  /\ emergencyStop' = FALSE /\ stopping' = FALSE /\ closing' = "open" /\ loops' = "run"
  /\ UNCHANGED <<running, handoff>>

AgentStep == \E a \in Agents : \/ Insert(a) \/ Register(a) \/ Ready(a) \/ Save(a)
                               \/ Completes(a) \/ Ends(a)
ShutdownStep == Announce \/ List \/ Poll \/ AllAcknowledged \/ Expires
CloseStepTaken == \/ EmitReads \/ EmitClaims \/ Cancel \/ LoopsJoined \/ Closed
LoopStep == AwaitsNamer \/ NamerAnswers \/ NamerTimesOut \/ LoopsEnd

Next == \/ AgentStep \/ ShutdownStep \/ CloseStepTaken \/ LoopStep
        \/ Begin \/ EmergencyStop \/ Exit \/ Restart

Fairness == /\ WF_vars(Announce) /\ WF_vars(List) /\ WF_vars(AllAcknowledged)
            /\ WF_vars(Expires) /\ WF_vars(Exit /\ emergencyStop)
            /\ WF_vars(CloseStepTaken) /\ WF_vars(NamerTimesOut) /\ WF_vars(LoopsEnd)
Spec == Init /\ [][Next]_vars /\ Fairness

-----------------------------------------------------------------------------
(* The safe shutdown ends before its deadline only when every agent it      *)
(* asked has acknowledged, although it looks at one after the other; and    *)
(* plugins are told that the office stops as it does: an ordinary close     *)
(* that comes first does not hide a safe shutdown that had begun.           *)
AgentsHeard == awaiting = "ready" => \A a \in targets : Acknowledged(a)
ToldAsItIs == [][told' # told /\ told' # "unset" =>
                   (told' = "safe") = shutdownInProgress]_vars
SafeShutdownKept == []AgentsHeard /\ ToldAsItIs

(* Whoever asks for a stop gets it.                                         *)
OfficeStops == []<>(shutdownInProgress \/ emergencyStop => closing = "closed")
=============================================================================
