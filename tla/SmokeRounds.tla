---------------------------- MODULE SmokeRounds ----------------------------
(* Smoke alarms inspect the office in rounds: SmokeLoop starts a round on   *)
(* every tick, times it, replaces it when an alarm hangs, and remembers     *)
(* what fell due while spawning was halted.                                 *)
EXTENDS Naturals, FiniteSets

CONSTANTS MaxAlarms,
          MaxAlarmEvents,      \* ticks, halts, alerts
          PerRound             \* alarms of a round (mode per_agent)

VARIABLES
  alarm,        \* the rows of the smoke alarms
  retries,      \* handshake watchers about to replace the alarm they killed
  loop,         \* where SmokeLoop is, and its local variables
  round,        \* activeRound
  armed,        \* timeoutC will fire
  timedOut, due,
  smokeResumeWake,
  halted,       \* firefighterPaused or ceoSpawnHalted
  alert,        \* an incident is open or a firefighter lives
  alarmEvents

Alarms == 1 .. MaxAlarms

roundVars == <<loop, round, armed, timedOut, due>>
alarmVars == <<alarm, retries>>
controlVars == <<smokeResumeWake, halted, alert, alarmEvents>>
vars == <<roundVars, alarmVars, controlVars>>

Idle == [at |-> "select", by |-> "tick", todo |-> 0, fresh |-> {}, left |-> {},
         expired |-> {}, incomplete |-> FALSE]

TypeOK ==
  /\ alarm \in [Alarms -> {"none", "spawning", "working", "done", "dead"}]
  /\ retries \in 0 .. MaxAlarms
  /\ loop \in [at : {"select", "gate", "start", "survey", "spawn", "late", "due"},
               by : {"tick", "due", "late"}, todo : 0 .. PerRound,
               fresh : SUBSET Alarms, left : SUBSET Alarms,
               expired : SUBSET Alarms, incomplete : BOOLEAN]
  /\ round \subseteq Alarms
  /\ {armed, timedOut, due, smokeResumeWake, halted, alert} \subseteq BOOLEAN
  /\ alarmEvents \in 0 .. MaxAlarmEvents

(* run_on_start decides whether the first round waits for a tick.           *)
Init ==
  /\ alarm = [a \in Alarms |-> "none"] /\ retries = 0
  /\ loop \in {Idle, [Idle EXCEPT !.at = "start"]}
  /\ round = {} /\ armed = FALSE /\ timedOut = FALSE /\ due = FALSE
  /\ smokeResumeWake = FALSE /\ halted = FALSE /\ alert = FALSE
  /\ alarmEvents = 0

AlarmEvent == alarmEvents < MaxAlarmEvents /\ alarmEvents' = alarmEvents + 1

Living == {"spawning", "working"}
LivingAlarms == {a \in Alarms : alarm[a] \in Living}
spawnAllowed == ~halted
NextAlarm(a) == alarm[a] = "none" /\ \A b \in Alarms : alarm[b] = "none" => a <= b

-----------------------------------------------------------------------------
(* SmokeLoop.  A step is what it does between two looks at state that       *)
(* others change; killing and starting an alarm excludes a halt             *)
(* (smokeTransitionMu) and is one step with the check before it.            *)

At(s) == loop.at = s
Goto(s) == loop' = [loop EXCEPT !.at = s]

Tick ==
  /\ At("select") /\ AlarmEvent
  /\ loop' = [Idle EXCEPT !.at = "start", !.by = "tick"]
  /\ UNCHANGED <<round, armed, timedOut, due, alarmVars, smokeResumeWake, halted, alert>>

TimeoutFires ==
  /\ At("select") /\ armed
  /\ armed' = FALSE /\ timedOut' = TRUE /\ Goto("gate")
  /\ UNCHANGED <<round, due, alarmVars, controlVars>>

Wake ==
  /\ At("select") /\ smokeResumeWake
  /\ smokeResumeWake' = FALSE /\ Goto("gate")
  /\ UNCHANGED <<round, armed, timedOut, due, alarmVars, halted, alert, alarmEvents>>

(* Mutation: a timeout that is handled during a halt is forgotten.          *)
GateForgets ==
  /\ At("gate")
  /\ timedOut' = FALSE
  /\ \/ ~spawnAllowed /\ Goto("select") /\ UNCHANGED round
     \/ /\ spawnAllowed /\ timedOut /\ round' = {}
        /\ loop' = [Idle EXCEPT !.at = "late", !.by = "late", !.left = round,
                                !.expired = round]
     \/ spawnAllowed /\ ~timedOut /\ Goto("due") /\ UNCHANGED round
  /\ UNCHANGED <<armed, due, alarmVars, controlVars>>

Gate ==
  /\ At("gate")
  /\ \/ ~spawnAllowed /\ Goto("select") /\ UNCHANGED <<round, timedOut>>
     \/ /\ spawnAllowed /\ timedOut
        /\ timedOut' = FALSE /\ round' = {}
        /\ loop' = [Idle EXCEPT !.at = "late", !.by = "late", !.left = round,
                                !.expired = round]
     \/ spawnAllowed /\ ~timedOut /\ Goto("due") /\ UNCHANGED <<round, timedOut>>
  /\ UNCHANGED <<armed, due, alarmVars, controlVars>>

Due ==
  /\ At("due")
  /\ due' = FALSE
  /\ loop' = [Idle EXCEPT !.at = IF due THEN "start" ELSE "select", !.by = "due"]
  /\ UNCHANGED <<round, armed, timedOut, alarmVars, controlVars>>

AfterRound(by) == CASE by = "tick" -> "gate" [] by = "due" -> "select" [] by = "late" -> "due"

(* The first check of startRound.                                           *)
Start ==
  /\ At("start")
  /\ Goto(IF spawnAllowed THEN "survey" ELSE AfterRound(loop.by))
  /\ due' = (due \/ ~spawnAllowed)
  /\ UNCHANGED <<round, armed, timedOut, alarmVars, controlVars>>

(* runSmokeRound decides whether there is a round, and how many alarms the  *)
(* reports ask for.                                                         *)
Survey ==
  /\ At("survey")
  /\ IF ~spawnAllowed \/ LivingAlarms # {} \/ alert
       THEN Goto("spawn")
       ELSE \E n \in 0 .. PerRound :
              loop' = [loop EXCEPT !.at = "spawn", !.todo = n]
  /\ UNCHANGED <<round, armed, timedOut, due, alarmVars, controlVars>>

Spawn ==
  /\ At("spawn") /\ loop.todo > 0
  /\ \/ /\ spawnAllowed
        /\ \E a \in Alarms :
             /\ NextAlarm(a)
             /\ alarm' = [alarm EXCEPT ![a] = "spawning"]
             /\ loop' = [loop EXCEPT !.todo = @ - 1, !.fresh = @ \cup {a}]
     \/ /\ ~spawnAllowed \/ \A a \in Alarms : alarm[a] # "none"
        /\ loop' = [loop EXCEPT !.todo = @ - 1] /\ UNCHANGED alarm
  /\ UNCHANGED <<round, armed, timedOut, due, retries, controlVars>>

(* armTimeout, and the check after the round.                               *)
RoundDone ==
  /\ At("spawn") /\ loop.todo = 0
  /\ LET kept == loop.by = "late" /\ loop.fresh = {} /\ ~spawnAllowed IN
     /\ round' = IF loop.fresh # {} THEN loop.fresh
                 ELSE IF kept THEN loop.expired ELSE round
     /\ timedOut' = (timedOut \/ kept)
     /\ armed' = (armed \/ loop.fresh # {})
     /\ due' = (due \/ (loop.by # "late" /\ ~spawnAllowed))
  /\ Goto(AfterRound(loop.by))
  /\ UNCHANGED <<alarmVars, controlVars>>

(* restartTimedOutSmokeRound: an alarm that is not done is killed.  A halt  *)
(* ends it without a replacement.                                           *)
Late ==
  /\ At("late")
  /\ \/ ~spawnAllowed /\ Goto("spawn") /\ UNCHANGED alarm
     \/ /\ spawnAllowed
        /\ \E a \in loop.left :
             /\ loop' = [loop EXCEPT !.left = @ \ {a},
                                     !.incomplete = @ \/ alarm[a] # "done"]
             /\ alarm' = IF alarm[a] \in Living THEN [alarm EXCEPT ![a] = "dead"]
                                                ELSE alarm
     \/ /\ loop.left = {} /\ UNCHANGED alarm
        /\ Goto(IF loop.incomplete THEN "survey" ELSE "spawn")
  /\ UNCHANGED <<round, armed, timedOut, due, retries, controlVars>>

LoopStep == Wake \/ Gate \/ Due \/ Start \/ Survey \/ Spawn \/ RoundDone \/ Late

-----------------------------------------------------------------------------
(* The alarms                                                               *)

Ready(a) ==
  /\ alarm[a] = "spawning" /\ alarm' = [alarm EXCEPT ![a] = "working"]
  /\ UNCHANGED <<roundVars, retries, controlVars>>

(* omo done, the end of the process, or a kill by management.               *)
AlarmEnds(a) ==
  /\ alarm[a] \in Living
  /\ \E s \in {"done", "dead"} : alarm' = [alarm EXCEPT ![a] = s]
  /\ UNCHANGED <<roundVars, retries, controlVars>>

(* watchHandshake holds back its kill while spawning is halted.             *)
HandshakeFails(a) ==
  /\ alarm[a] = "spawning" /\ spawnAllowed
  /\ alarm' = [alarm EXCEPT ![a] = "dead"]
  /\ retries' \in {retries, retries + 1}     \* maxSpawnRetries may be reached
  /\ UNCHANGED <<roundVars, controlVars>>

(* The replacement is not a member of the round that the loop times.        *)
RetryAlarm ==
  /\ retries > 0 /\ retries' = retries - 1
  /\ \/ ~spawnAllowed /\ UNCHANGED alarm
     \/ /\ spawnAllowed
        /\ \E a \in Alarms : NextAlarm(a) /\ alarm' = [alarm EXCEPT ![a] = "spawning"]
  /\ UNCHANGED <<roundVars, controlVars>>

-----------------------------------------------------------------------------
(* Management                                                               *)

Halt ==
  /\ ~halted /\ AlarmEvent /\ halted' = TRUE
  /\ UNCHANGED <<roundVars, alarmVars, smokeResumeWake, alert>>

Resume ==
  /\ halted /\ halted' = FALSE /\ smokeResumeWake' = TRUE
  /\ UNCHANGED <<roundVars, alarmVars, alert, alarmEvents>>

(* An incident is filed, or the last firefighter is through with the last.  *)
Alert ==
  /\ AlarmEvent /\ alert' = ~alert
  /\ UNCHANGED <<roundVars, alarmVars, smokeResumeWake, halted>>

AlarmStep == \/ RetryAlarm
             \/ \E a \in Alarms : Ready(a) \/ AlarmEnds(a) \/ HandshakeFails(a)
Next == \/ Tick \/ TimeoutFires \/ LoopStep \/ AlarmStep
        \/ Halt \/ Resume \/ Alert

Fairness == WF_vars(LoopStep) /\ WF_vars(TimeoutFires)
Spec == Init /\ [][Next]_vars /\ Fairness

-----------------------------------------------------------------------------
(* A round that fell due, or timed out, during a halt is taken up after it. *)
DueRoundStarts == []<>(due \/ timedOut => halted)

(* An alarm of the round that never completes is ended by the timeout.      *)
HungAlarmEnds == \A a \in Alarms : []<>(a \in round /\ alarm[a] \in Living => halted)
=============================================================================
