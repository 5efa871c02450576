----------------------------- MODULE ModelUsage -----------------------------
(***************************************************************************)
(* What the providers meter and what the office does about it               *)
(* (supervisor/usage.go, usage_scheduler.go, roleProfile; modelusage): a      *)
(* credential scope is low, at the ceiling of the safe shutdown, or at the    *)
(* hard one. A spawner that selects a profile or checks an explicit one and   *)
(* the scheduler ask one cache, which asks the provider once for all who  *)
(* wait.                                                                    *)
(*                                                                         *)
(* Profiles stand for their scopes: two profiles of one scope share an answer.*)
(* Which of the eligible profiles is taken is left out.                       *)
(***************************************************************************)
EXTENDS Naturals

CONSTANTS
  Scopes,           \* The metered scopes that the roles' profiles name.
  RoleScopes,       \* Those of the role that is being spawned.
  MaxUsageEvents    \* Bound: changes of a level, expiries, failed requests, timeouts.

Low == 0
Soft == 1
Hard == 2
Levels == {Low, Soft, Hard}
None == 9
Failed == 8
Nobody == "nobody"
Callers == {"spawner", "scheduler"}

VARIABLES
  level,        \* The providers: [Scopes -> Levels]
  entry,        \* The cache: [Scopes -> the level it keeps, or None]
  inflight,     \* [Scopes -> the caller whose request is under way, or Nobody]
  caller,       \* [Callers -> [doing, at, scope, todo, seen, answer]]
  roleModelMu,  \* Whether the spawner holds it.
  warned,       \* usageFailureActive
  shutdown,     \* A safe shutdown for usage has begun.
  emergency,    \* An emergency stop for usage was requested.
  proven,       \* Ghost: each check that decided on a stop saw every scope used up.
  usageEvents

vars == <<level, entry, inflight, caller, roleModelMu, warned, shutdown, emergency, proven,
          usageEvents>>

Idle == [doing |-> "none", at |-> "idle", scope |-> None, todo |-> {}, seen |-> {}, answer |-> None]

TypeOK ==
  /\ level \in [Scopes -> Levels] /\ entry \in [Scopes -> Levels \cup {None}]
  /\ \A s \in Scopes : inflight[s] \in Callers \cup {Nobody}
  /\ \A c \in Callers :
       /\ caller[c].doing \in {"none", "select", "explicit", "refresh", "hard", "soft"}
       /\ caller[c].at \in {"idle", "asking", "leading", "joined", "answered"}
       /\ caller[c].seen \subseteq Scopes \X Levels

\* The preflight has asked for every scope before the office starts.
Init ==
  /\ level \in [Scopes -> Levels] /\ entry = level /\ inflight = [s \in Scopes |-> Nobody]
  /\ caller = [c \in Callers |-> Idle] /\ roleModelMu = FALSE /\ warned = FALSE
  /\ shutdown = FALSE /\ emergency = FALSE /\ proven = TRUE
  /\ usageEvents = 0

Event == usageEvents < MaxUsageEvents /\ usageEvents' = usageEvents + 1
Quiet == usageEvents' = usageEvents
Keeps == UNCHANGED <<shutdown, emergency, proven>>

----------------------------------------------------------------------------
(* The cache.                                                                *)

At(c, step) == caller[c].at = step
Goes(c, fields) == caller' = [caller EXCEPT ![c] = fields]

\* Fetch takes a fresh entry, Refresh does not; both join a request under way.
Look(c) ==
  /\ At(c, "asking")
  /\ \E s \in caller[c].todo :
       LET asked == [caller[c] EXCEPT !.scope = s, !.todo = @ \ {s}] IN
       \/ /\ caller[c].doing # "refresh" /\ entry[s] # None
          /\ Goes(c, [asked EXCEPT !.at = "answered", !.answer = entry[s]])
          /\ inflight' = inflight
       \/ /\ caller[c].doing = "refresh" \/ entry[s] = None
          /\ IF inflight[s] # Nobody
             THEN Goes(c, [asked EXCEPT !.at = "joined"]) /\ inflight' = inflight
             ELSE /\ Goes(c, [asked EXCEPT !.at = "leading"])
                  /\ inflight' = [inflight EXCEPT ![s] = c]
  /\ UNCHANGED <<level, entry, roleModelMu, warned>> /\ Keeps /\ Quiet

\* The answer goes to all who joined.
Answers(s, answer) ==
  /\ inflight' = [inflight EXCEPT ![s] = Nobody]
  /\ caller' = [c \in Callers |->
       IF caller[c].scope = s /\ caller[c].at \in {"leading", "joined"}
       THEN [caller[c] EXCEPT !.at = "answered", !.answer = answer] ELSE caller[c]]
  /\ UNCHANGED <<level, roleModelMu, warned>> /\ Keeps

\* One request, and for a token that Codex has let expire its refresh and a
\* second request.
Fetched(s) ==
  /\ inflight[s] # Nobody /\ Answers(s, level[s]) /\ entry' = [entry EXCEPT ![s] = level[s]]
  /\ Quiet

FetchFails(s) == inflight[s] # Nobody /\ Answers(s, Failed) /\ entry' = entry /\ Event

\* A waiter's own budget runs out.
WaitFails(c) ==
  /\ At(c, "joined") /\ Goes(c, [caller[c] EXCEPT !.at = "answered", !.answer = Failed])
  /\ UNCHANGED <<level, entry, inflight, roleModelMu, warned>> /\ Keeps /\ Event

Expires(s) ==
  /\ entry[s] # None /\ entry' = [entry EXCEPT ![s] = None]
  /\ UNCHANGED <<level, inflight, caller, roleModelMu, warned>> /\ Keeps /\ Event

\* Agents use it up; a window ends.
LevelChanges(s) ==
  /\ \E l \in Levels \ {level[s]} : level' = [level EXCEPT ![s] = l]
  /\ UNCHANGED <<entry, inflight, caller, roleModelMu, warned>> /\ Keeps /\ Event

----------------------------------------------------------------------------
(* The callers.                                                              *)

Begins(c, doing, scopes) ==
  /\ At(c, "idle")
  /\ Goes(c, [Idle EXCEPT !.doing = doing, !.at = "asking", !.todo = scopes])
  /\ UNCHANGED <<level, entry, inflight, warned>> /\ Keeps /\ Quiet

\* roleProfile: the mutex is held over all the role's requests.
Select == ~roleModelMu /\ roleModelMu' = TRUE /\ Begins("spawner", "select", RoleScopes)

CheckExplicit ==
  \E s \in RoleScopes : Begins("spawner", "explicit", {s}) /\ roleModelMu' = roleModelMu

Refresh == Begins("scheduler", "refresh", Scopes) /\ roleModelMu' = roleModelMu

\* notifyUsageFailure and clearUsageFailure.
Warns(now) == ~roleModelMu /\ warned' = now

Seen(c) == IF caller[c].answer = Failed THEN caller[c].seen
           ELSE caller[c].seen \cup {<<caller[c].scope, caller[c].answer>>}
Asks(c) == Goes(c, [caller[c] EXCEPT !.at = "asking", !.seen = Seen(c), !.answer = None, !.scope = None])

\* mutant: the role's scopes stand for all that are configured.
OnlyTheRoles(c, limit) ==
  Goes(c, [Idle EXCEPT !.doing = limit, !.at = "asking",
                       !.todo = IF c = "spawner" THEN RoleScopes ELSE Scopes])

\* hasRemainingConfiguredUsage for a limit.
ChecksLimit(c, limit) == Goes(c, [Idle EXCEPT !.doing = limit, !.at = "asking", !.todo = Scopes])

TakesSelection(c) ==
  /\ At(c, "answered") /\ caller[c].doing = "select"
  /\ \/ \* Round robin over all the role's profiles, eligible or not.
        /\ caller[c].answer = Failed /\ roleModelMu' = FALSE /\ warned' = TRUE /\ Goes(c, Idle)
     \/ /\ caller[c].answer # Failed /\ caller[c].todo # {} /\ Asks(c)
        /\ UNCHANGED <<roleModelMu, warned>>
     \/ /\ caller[c].answer # Failed /\ caller[c].todo = {} /\ roleModelMu' = FALSE /\ warned' = FALSE
        /\ IF \E s \in RoleScopes : <<s, Low>> \in Seen(c)
           THEN Goes(c, Idle) ELSE ChecksLimit(c, "hard")
  /\ UNCHANGED <<level, entry, inflight, shutdown, emergency, proven>> /\ Quiet

TakesExplicit(c) ==
  /\ At(c, "answered") /\ caller[c].doing = "explicit"
  /\ Warns(caller[c].answer = Failed) /\ Goes(c, Idle)
  /\ UNCHANGED <<level, entry, inflight, roleModelMu>> /\ Keeps /\ Quiet

\* A scope that fails does not keep the others from being refreshed.
TakesRefresh(c) ==
  /\ At(c, "answered") /\ caller[c].doing = "refresh" /\ Warns(caller[c].answer = Failed)
  /\ IF caller[c].todo # {} THEN Asks(c) ELSE ChecksLimit(c, "hard")
  /\ UNCHANGED <<level, entry, inflight, roleModelMu>> /\ Keeps /\ Quiet

Limit(c) == IF caller[c].doing = "hard" THEN Hard ELSE Soft
Checking(c) == At(c, "answered") /\ caller[c].doing \in {"hard", "soft"}

\* What is left is enough: the soft limit is checked next, or nothing is done.
Remains(c) == IF caller[c].doing = "hard" THEN ChecksLimit(c, "soft") ELSE Goes(c, Idle)

\* mutant: a scope whose usage is unknown counts as used up.
UnknownIsUsedUp(c) ==
  /\ Checking(c) /\ caller[c].answer = Failed /\ caller[c].todo # {} /\ Warns(TRUE) /\ Asks(c)
  /\ UNCHANGED <<level, entry, inflight, roleModelMu>> /\ Keeps /\ Quiet

\* A failed request is no proof that the scope is used up.
LimitUnknown(c) ==
  /\ Checking(c) /\ caller[c].answer = Failed /\ Warns(TRUE) /\ Remains(c)
  /\ UNCHANGED <<level, entry, inflight, roleModelMu>> /\ Keeps /\ Quiet

LimitSeen(c) ==
  /\ Checking(c) /\ caller[c].answer # Failed
  /\ \/ caller[c].answer < Limit(c) /\ Remains(c)
     \/ caller[c].answer >= Limit(c) /\ caller[c].todo # {} /\ Asks(c)
  /\ UNCHANGED <<level, entry, inflight, roleModelMu, warned>> /\ Keeps /\ Quiet

\* beginHardUsageStop and beginSoftUsageShutdown, each once.
Exhausted(c) ==
  /\ Checking(c) /\ caller[c].answer # Failed /\ caller[c].answer >= Limit(c)
  /\ caller[c].todo = {} /\ Goes(c, Idle)
  /\ shutdown' = TRUE /\ emergency' = (emergency \/ caller[c].doing = "hard")
  /\ proven' = (proven /\ \A s \in Scopes : \E l \in Levels : <<s, l>> \in Seen(c) /\ l >= Limit(c))
  /\ UNCHANGED <<level, entry, inflight, roleModelMu, warned>> /\ Quiet

Takes(c) ==
  TakesSelection(c) \/ TakesExplicit(c) \/ TakesRefresh(c) \/ LimitUnknown(c) \/ LimitSeen(c)
    \/ Exhausted(c)

----------------------------------------------------------------------------
Next ==
  \/ Select \/ CheckExplicit \/ Refresh
  \/ \E s \in Scopes : Fetched(s) \/ FetchFails(s) \/ Expires(s) \/ LevelChanges(s)
  \/ \E c \in Callers : Look(c) \/ WaitFails(c) \/ Takes(c)

\* A request is answered within its budget, callers go on, and the scheduler's
\* timer fires again and again; between a spawner's uses of the mutex the
\* scheduler gets it. Nobody need spawn.
Fairness ==
  /\ \A s \in Scopes : WF_vars(Fetched(s))
  /\ WF_vars(Look("spawner") \/ Takes("spawner"))
  /\ WF_vars(Refresh \/ Look("scheduler")) /\ SF_vars(Takes("scheduler"))

Spec == Init /\ [][Next]_vars /\ Fairness

----------------------------------------------------------------------------
\* The office is stopped for its usage only by a check that saw every
\* configured scope at the ceiling it stops for: one that is unknown, or a
\* scope of another role, keeps it running.
StopIsProven == proven /\ (emergency => shutdown)

\* While every scope is used up for good, the office is stopped at once.
UsedUpStops == []<>((\A s \in Scopes : level[s] = Hard) => emergency)
=============================================================================
