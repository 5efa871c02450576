----------------------------- MODULE CEORestart -----------------------------
(* The CEO has no job that could be queued again: its death, its missed      *)
(* handshake and a restart on demand each bring the next CEO by themselves.  *)
(* One goroutine per CEO waits for its process, another one for its `ready`, *)
(* and the user or the firefighter ends it with `omo agent kill` or restart. *)
EXTENDS Naturals, FiniteSets

CONSTANTS MaxCEOs,         \* CEOs, one after the other
          MaxRestarts,     \* ceo.max_restarts
          MaxRetries,      \* agents.max_spawn_retries
          MaxCEOEvents     \* deaths, missed handshakes and orders

VARIABLES
  ceo,          \* rows of the agents table: none, spawning, working, dead
  exit,         \* a CEO's process and watchExit: none, runs, exited, unexpected,
                \* backoff, over
  hand,         \* watchHandshake: none, watches, expired, retry, over
  attempt,
  order,        \* StopAgent: what it does, to whom, and how far it is
  ceoFailures,
  ceoYoung,     \* less than ceo.restart_window since ceoSpawnedAt
  burst,        \* CEOs started since ceoYoung was last false, or since the last
                \* restart on demand
  noCEO,        \* why there may be no CEO: killed, told (the user or the caller
                \* knows that none comes), lost (a goroutine's spawn failed, of
                \* which nobody is told); none
  overlapped,   \* a CEO that had ended or was ending was ended again
  ceoEvents

vars == <<ceo, exit, hand, attempt, order, ceoFailures, ceoYoung, burst, noCEO,
          overlapped, ceoEvents>>

CEOs == 1 .. MaxCEOs
Living == {c \in CEOs : ceo[c] \in {"spawning", "working"}}
NoOrder == [action |-> "none", agent |-> 1, step |-> "over"]

TypeOK ==
  /\ ceo \in [CEOs -> {"none", "spawning", "working", "dead"}]
  /\ exit \in [CEOs -> {"none", "runs", "exited", "unexpected", "backoff", "over"}]
  /\ hand \in [CEOs -> {"none", "watches", "expired", "retry", "over"}]
  /\ attempt \in [CEOs -> 0 .. MaxRetries]
  /\ order \in [action : {"none", "kill", "restart"}, agent : CEOs,
                step : {"read", "killed", "over"}]
  /\ ceoFailures \in 0 .. MaxCEOEvents /\ {ceoYoung, overlapped} \subseteq BOOLEAN
  /\ burst \in 0 .. MaxCEOs
  /\ noCEO \in {"none", "killed", "told", "lost"}

----------------------------------------------------------------------------
Free(c) == ceo[c] = "none" /\ \A d \in CEOs : ceo[d] = "none" => c <= d

(* spawnAttempt: nothing but the end of the office keeps a CEO from being    *)
(* started; its process may fail to start.  exits and hands are what exit    *)
(* and hand are once the caller has gone on.                                 *)
Spawn(n, exits, hands) ==
  \E c \in CEOs : /\ Free(c)
                  /\ ceo' = [ceo EXCEPT ![c] = "spawning"]
                  /\ exit' = [exits EXCEPT ![c] = "runs"]
                  /\ hand' = [hands EXCEPT ![c] = "watches"]
                  /\ attempt' = [attempt EXCEPT ![c] = n]
                  /\ ceoYoung' = TRUE /\ noCEO' = "none"

(* No profile is eligible, or the process does not start.                    *)
SpawnFails(exits, hands, why) ==
  /\ exit' = exits /\ hand' = hands /\ noCEO' = why
  /\ UNCHANGED <<ceo, attempt, ceoYoung>>

(* respawnCEO and watchHandshake drop the error; StopAgent answers with it.  *)
SpawnOrFail(n, exits, hands, why) == Spawn(n, exits, hands) \/ SpawnFails(exits, hands, why)

Counted == burst' = IF ceo' = ceo THEN burst ELSE burst + 1

Init ==
  /\ ceo = [c \in CEOs |-> IF c = 1 THEN "spawning" ELSE "none"]
  /\ exit = [c \in CEOs |-> IF c = 1 THEN "runs" ELSE "none"]
  /\ hand = [c \in CEOs |-> IF c = 1 THEN "watches" ELSE "none"]
  /\ attempt = [c \in CEOs |-> 0] /\ order = NoOrder
  /\ ceoFailures = 0 /\ ceoYoung = TRUE /\ burst = 1 /\ noCEO = "none"
  /\ overlapped = FALSE /\ ceoEvents = 0

Happens == ceoEvents < MaxCEOEvents /\ ceoEvents' = ceoEvents + 1

(* KillAgent marks the row and kills the process, if the session is there.   *)
Kill(c) ==
  /\ ceo' = [ceo EXCEPT ![c] = "dead"]
  /\ exit' = [exit EXCEPT ![c] = IF @ = "runs" THEN "exited" ELSE @]
  /\ overlapped' = (overlapped \/ c \notin Living \/ exit[c] \notin {"runs", "exited"})

----------------------------------------------------------------------------
Ready(c) ==
  /\ ceo[c] = "spawning" /\ exit[c] = "runs" /\ ceo' = [ceo EXCEPT ![c] = "working"]
  /\ UNCHANGED <<exit, hand, attempt, order, ceoFailures, ceoYoung, burst, noCEO,
                 overlapped, ceoEvents>>

Dies(c) ==
  /\ exit[c] = "runs" /\ Happens /\ exit' = [exit EXCEPT ![c] = "exited"]
  /\ UNCHANGED <<ceo, hand, attempt, order, ceoFailures, ceoYoung, burst, noCEO,
                 overlapped>>

(* The restart window ends.                                                  *)
GrowsUp ==
  /\ ceoYoung /\ ceoYoung' = FALSE /\ burst' = 0
  /\ UNCHANGED <<ceo, exit, hand, attempt, order, ceoFailures, noCEO, overlapped,
                 ceoEvents>>

(* Mutant: no end is expected.                                               *)
NeverExpected(c) == FALSE

(* watchExit returns for the rows somebody else has ended.                   *)
Expected(c) == ceo[c] = "dead"

WatchExit(c) ==
  /\ exit[c] = "exited"
  /\ exit' = [exit EXCEPT ![c] = IF Expected(c) THEN "over" ELSE "unexpected"]
  /\ UNCHANGED <<ceo, hand, attempt, order, ceoFailures, ceoYoung, burst, noCEO,
                 overlapped, ceoEvents>>

(* Mutant: only the deaths of CEOs that were ready are counted.              *)
CountsTheReady(c) ==
  IF ceo[c] = "spawning" THEN ceoFailures ELSE IF ceoYoung THEN ceoFailures + 1 ELSE 1

(* respawnCEO counts deaths within the window of the CEO started last.       *)
FailuresAfter(c) == IF ceoYoung THEN ceoFailures + 1 ELSE 1

RespawnCEO(c) ==
  /\ exit[c] = "unexpected" /\ ceo' = [ceo EXCEPT ![c] = "dead"]
  /\ ceoFailures' = FailuresAfter(c)
  /\ IF ceoFailures' > MaxRestarts
     THEN /\ exit' = [exit EXCEPT ![c] = "over"]
          /\ noCEO' = "told"
     ELSE exit' = [exit EXCEPT ![c] = "backoff"] /\ UNCHANGED noCEO
  /\ UNCHANGED <<hand, attempt, order, ceoYoung, burst, overlapped, ceoEvents>>

(* After ceo.restart_backoff; the error of this spawn is dropped.            *)
BackoffEnds(c) ==
  /\ exit[c] = "backoff" /\ SpawnOrFail(0, [exit EXCEPT ![c] = "over"], hand, "lost") /\ Counted
  /\ UNCHANGED <<order, ceoFailures, overlapped, ceoEvents>>

----------------------------------------------------------------------------
(* watchHandshake looks at the row once more when its deadline has passed;   *)
(* once the row is no longer spawning it returns, which changes nothing.     *)
Deadline(c) ==
  /\ hand[c] = "watches" /\ ceo[c] = "spawning" /\ Happens
  /\ hand' = [hand EXCEPT ![c] = "expired"]
  /\ UNCHANGED <<ceo, exit, attempt, order, ceoFailures, ceoYoung, burst, noCEO,
                 overlapped>>

(* Mutant: only jobs are told of their spent retries.                        *)
ToldOfJobsOnly == noCEO

OnceSpent == "told"

HandshakeKills(c) ==
  /\ hand[c] = "expired" /\ Kill(c)
  /\ IF attempt[c] < MaxRetries
     THEN hand' = [hand EXCEPT ![c] = "retry"] /\ UNCHANGED noCEO
     ELSE /\ hand' = [hand EXCEPT ![c] = "over"]
          /\ noCEO' = OnceSpent
  /\ UNCHANGED <<attempt, order, ceoFailures, ceoYoung, burst, ceoEvents>>

(* The next attempt does not wait for the process of this one.               *)
HandshakeRetry(c) ==
  /\ hand[c] = "retry"
  /\ SpawnOrFail(attempt[c] + 1, exit, [hand EXCEPT ![c] = "over"], "lost")
  /\ Counted
  /\ UNCHANGED <<order, ceoFailures, overlapped, ceoEvents>>

----------------------------------------------------------------------------
(* StopAgent, for one caller at a time.                                      *)
Order(c) ==
  /\ order.step = "over" /\ c \in Living /\ Happens
  /\ \E a \in {"kill", "restart"} : order' = [action |-> a, agent |-> c, step |-> "read"]
  /\ UNCHANGED <<ceo, exit, hand, attempt, ceoFailures, ceoYoung, burst, noCEO,
                 overlapped>>

OrderKills ==
  /\ order.step = "read" /\ Kill(order.agent)
  /\ IF order.action = "kill"
     THEN order' = NoOrder /\ noCEO' = "killed"
     ELSE order' = [order EXCEPT !.step = "killed"] /\ UNCHANGED noCEO
  /\ UNCHANGED <<hand, attempt, ceoFailures, ceoYoung, burst, ceoEvents>>

(* The replacement is started when the session is gone from the table, which *)
(* watchExit sees to before it reads the row.                                *)
OrderReplaces ==
  /\ order.step = "killed" /\ exit[order.agent] \notin {"runs", "exited"}
  /\ order' = NoOrder /\ SpawnOrFail(0, exit, hand, "told")
  /\ burst' = IF ceo' = ceo THEN burst ELSE 1
  /\ UNCHANGED <<ceoFailures, overlapped, ceoEvents>>

ExitStep == \E c \in CEOs : WatchExit(c) \/ RespawnCEO(c) \/ BackoffEnds(c)
HandshakeStep == \E c \in CEOs : HandshakeKills(c) \/ HandshakeRetry(c)
OrderStep == OrderKills \/ OrderReplaces
CEOStep == \E c \in CEOs : Ready(c) \/ Dies(c) \/ Deadline(c) \/ Order(c)

Next == ExitStep \/ HandshakeStep \/ OrderStep \/ CEOStep \/ GrowsUp

(* The goroutines go on; a process that was told to die does.                *)
Spec == Init /\ [][Next]_vars /\ WF_vars(ExitStep) /\ WF_vars(HandshakeStep) /\ WF_vars(OrderStep)

----------------------------------------------------------------------------
(* A CEO that cannot start is not started for ever: within the window, its   *)
(* deaths, each of them followed by missed handshakes, are bounded, unless   *)
(* the end of one was decided on twice: then a replacement by order starts   *)
(* the count anew, while the retry of the handshake goes on beside it.       *)
RestartsBounded == overlapped \/ burst <= (MaxRestarts + 1) * (MaxRetries + 1)

(* There is one CEO, unless its end was decided on twice: it died, or was    *)
(* ended, between the moment somebody read its row and acted on it.          *)
OneCEO == overlapped \/ Cardinality(Living) <= 1

(* The office has a CEO, or the user has killed it, or knows that none comes. *)
Accounted == (\E c \in Living : exit[c] = "runs") \/ noCEO \in {"killed", "told"}

(* Whatever ends a CEO, a restart, a death, a missed `ready`, is followed by  *)
(* the next one or by the news that none comes.  One end is excepted, and is  *)
(* silent: respawnCEO and watchHandshake drop the error of a spawn that fails *)
(* (noCEO = "lost"), the office then has no CEO and nobody is told.           *)
CEOReturns == ([]<>Accounted) \/ <>[](noCEO = "lost")
=============================================================================
