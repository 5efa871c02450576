---------------------------- MODULE BranchNaming ----------------------------
(* The dispatcher asks a branch naming agent for the name of a job's branch *)
(* and waits for one answer: a name, a failure, or a timeout after which    *)
(* the branch is named after the job.                                       *)
EXTENDS Naturals, FiniteSets

CONSTANTS MaxNamers,     \* naming agents, one after the other
          Names,         \* valid branch names
          NoName, Failed, Fallback

VARIABLES
  asking,      \* branchNameForJob: no, asked, waiting, late, finish, over
  waiter,      \* branchNameWaiters[job] is its channel
  result,      \* what the channel holds
  by,          \* and which agent's answer that is (0: a failure)
  branch,      \* what branchNameForJob returned
  namer,       \* rows of the naming agents: none, living, done, dead
  exits,       \* the naming agents whose end watchExit has yet to handle
  retry,       \* watchHandshake is about to start another one
  accepted,    \* the names for which branch.name returned success
  jobCancelled

vars == <<asking, waiter, result, by, branch, namer, exits, retry, accepted, jobCancelled>>

Namers == 1 .. MaxNamers
Living == {n \in Namers : namer[n] = "living"}

TypeOK ==
  /\ asking \in {"no", "asked", "waiting", "late", "over"}
  /\ {waiter, retry, jobCancelled} \subseteq BOOLEAN
  /\ result \in Names \cup {NoName, Failed}
  /\ branch \in Names \cup {NoName, Failed, Fallback}
  /\ namer \in [Namers -> {"none", "living", "done", "dead"}]
  /\ by \in 0 .. MaxNamers /\ exits \subseteq Namers /\ accepted \subseteq Names

Init ==
  /\ asking = "no" /\ waiter = FALSE /\ result = NoName /\ by = 0 /\ branch = NoName
  /\ namer = [n \in Namers |-> "none"] /\ exits = {} /\ retry = FALSE
  /\ accepted = {} /\ jobCancelled = FALSE

(* The waiter is there before the agent that may answer it.                 *)
Ask ==
  /\ asking = "no" /\ asking' = "asked" /\ waiter' = TRUE
  /\ UNCHANGED <<result, by, branch, namer, exits, retry, accepted, jobCancelled>>

StartNamer ==
  \E n \in Namers : /\ namer[n] = "none" /\ \A m \in Namers : namer[m] = "none" => n <= m
                    /\ namer' = [namer EXCEPT ![n] = "living"]

SpawnSucceeds ==
  /\ asking = "asked" /\ asking' = "waiting" /\ StartNamer
  /\ UNCHANGED <<waiter, result, by, branch, exits, retry, accepted, jobCancelled>>

SpawnFails ==
  /\ asking = "asked" /\ asking' = "over"
  /\ branch' = Failed /\ waiter' = FALSE
  /\ UNCHANGED <<result, by, namer, exits, retry, accepted, jobCancelled>>

(* deliverBranchNameResult: the first result takes the waiter away.         *)
Deliver(r, n) ==
  IF waiter THEN result' = r /\ by' = n /\ waiter' = FALSE
            ELSE UNCHANGED <<result, by, waiter>>

(* branch.name.  The verb looks at the role of its caller, not at its row.  *)
Answer(n, name) ==
  /\ namer[n] # "none" /\ (n \in Living \/ n \in exits)
  /\ Deliver(name, n)
  /\ accepted' = IF waiter THEN accepted \cup {name} ELSE accepted
  /\ UNCHANGED <<asking, branch, namer, exits, retry, jobCancelled>>

(* omo done by a naming agent is a failure, and the agent goes on.          *)
DoneWithoutName(n) ==
  /\ n \in Living /\ Deliver(Failed, 0)
  /\ UNCHANGED <<asking, branch, namer, exits, retry, accepted, jobCancelled>>

(* Its row is over: management kills it, or it is stopped (see Stopped).    *)
Killed(n) ==
  /\ n \in Living
  /\ namer' = [namer EXCEPT ![n] = "dead"] /\ exits' = exits \cup {n}
  /\ UNCHANGED <<asking, waiter, result, by, branch, retry, accepted, jobCancelled>>

(* watchExit: of a row that is over, or of an agent that died.              *)
Exits(n) ==
  \/ /\ n \in exits /\ exits' = exits \ {n}
     /\ IF namer[n] = "dead" /\ jobCancelled THEN Deliver(Failed, 0)
                                             ELSE UNCHANGED <<result, by, waiter>>
     /\ UNCHANGED <<asking, branch, namer, retry, accepted, jobCancelled>>
  \/ /\ n \in Living /\ namer' = [namer EXCEPT ![n] = "dead"]
     /\ Deliver(Failed, 0)
     /\ UNCHANGED <<asking, branch, exits, retry, accepted, jobCancelled>>

(* watchHandshake ends an agent that is not ready, and tries another one or *)
(* gives up.                                                                *)
HandshakeFails(n) ==
  /\ n \in Living /\ ~retry
  /\ namer' = [namer EXCEPT ![n] = "dead"] /\ exits' = exits \cup {n}
  /\ \/ /\ \E m \in Namers : namer[m] = "none"
        /\ retry' = TRUE /\ UNCHANGED <<result, by, waiter>>
     \/ Deliver(Failed, 0) /\ UNCHANGED retry
  /\ UNCHANGED <<asking, branch, accepted, jobCancelled>>

RetryHandshake ==
  /\ retry /\ retry' = FALSE
  /\ \/ StartNamer /\ UNCHANGED <<result, by, waiter>>
     \/ Deliver(Failed, 0) /\ UNCHANGED namer
  /\ UNCHANGED <<asking, branch, exits, accepted, jobCancelled>>

CancelJob ==
  /\ ~jobCancelled /\ jobCancelled' = TRUE
  /\ namer' = [n \in Namers |-> IF n \in Living THEN "dead" ELSE namer[n]]
  /\ exits' = exits \cup Living
  /\ UNCHANGED <<asking, waiter, result, by, branch, retry, accepted>>

(* finishBranchNameResult: the agent that answered is done, even if its row *)
(* was over; a failure ends every naming agent (stopBranchNamers).          *)
Finish ==
  /\ asking' = "over" /\ branch' = result
  /\ namer' = IF result = Failed
                THEN [n \in Namers |-> IF n \in Living THEN "dead" ELSE namer[n]]
                ELSE [namer EXCEPT ![by] = "done"]
  /\ exits' = exits \cup (Living \cap IF result = Failed THEN Living ELSE {by})

Receive ==
  /\ asking = "waiting" /\ result # NoName /\ Finish
  /\ UNCHANGED <<waiter, result, by, retry, accepted, jobCancelled>>

(* Mutation: the timeout does not ask whether an answer was taken.          *)
TimeoutWins ==
  /\ asking = "waiting"
  /\ waiter' = FALSE /\ asking' = "late"
  /\ UNCHANGED <<branch, namer, exits, result, by, retry, accepted, jobCancelled>>

(* The timeout: cancelBranchNameWaiter fails when a result was delivered.   *)
Timeout ==
  /\ asking = "waiting"
  /\ \/ /\ waiter /\ waiter' = FALSE /\ asking' = "late"
        /\ UNCHANGED <<branch, namer, exits>>
     \/ /\ ~waiter /\ result # NoName /\ Finish /\ UNCHANGED waiter
  /\ UNCHANGED <<result, by, retry, accepted, jobCancelled>>

(* stopBranchNamers, and the name that needs no agent.                      *)
UseFallback ==
  /\ asking = "late" /\ asking' = "over" /\ branch' = Fallback
  /\ namer' = [n \in Namers |-> IF n \in Living THEN "dead" ELSE namer[n]]
  /\ exits' = exits \cup Living
  /\ UNCHANGED <<waiter, result, by, retry, accepted, jobCancelled>>

NamerStep == \E n \in Namers : \/ \E name \in Names : Answer(n, name)
                               \/ DoneWithoutName(n) \/ Killed(n) \/ Exits(n)
                               \/ HandshakeFails(n)
DispatcherStep == Ask \/ SpawnSucceeds \/ SpawnFails \/ Receive \/ Timeout \/ UseFallback

Next == NamerStep \/ DispatcherStep \/ RetryHandshake \/ CancelJob
Spec == Init /\ [][Next]_vars

-----------------------------------------------------------------------------
(* A name that a naming agent was told is accepted becomes the branch of    *)
(* the job, whatever the timeout, other agents and failures do meanwhile.   *)
AcceptedNameIsUsed ==
  /\ Cardinality(accepted) <= 1
  /\ asking = "over" /\ accepted # {} => branch \in accepted
=============================================================================
