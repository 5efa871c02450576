--------------------------- MODULE CompanyCommand ---------------------------
(***************************************************************************)
(* Commands that the dashboard's client runs and whose output it is streamed*)
(* (company/commands.go): the handler that waits for the child, the          *)
(* goroutine that copies the rest of the request into the child's stdin, and  *)
(* the client, which may stall, go away or send too much.                    *)
(***************************************************************************)
EXTENDS Naturals, FiniteSets

CONSTANTS
  Commands,
  MaxCommands   \* Bound: the 8 commands that may run.

VARIABLES
  handler,   \* [Commands -> where the request's handler is]
  child,     \* [Commands -> "none", "running", "exited" (by itself) or "killed"]
  client,    \* [Commands -> "sending", "sent", "tooMuch" or "gone"]
  copier,    \* [Commands -> "none", "reading", "writing" or how it ended]
  input,     \* [Commands -> "open" or "closed"]: the request's body.
  cancel,    \* The commands whose context is cancelled.
  slots,     \* How many of the commands' places are taken.
  event      \* [Commands -> the exit event the client is sent]

vars == <<handler, child, client, copier, input, cancel, slots, event>>

Errors == {"pipe", "tooMuch", "broken"}

TypeOK ==
  /\ handler \in [Commands -> {"none", "parsing", "starting", "waiting", "settling",
                               "releasing", "joining", "ended", "refused"}]
  /\ child \in [Commands -> {"none", "running", "exited", "killed"}]
  /\ copier \in [Commands -> {"none", "reading", "writing", "whole"} \cup Errors]
  /\ event \in [Commands -> {"none", "status", "killed", "tooMuch", "broken"}]

Init ==
  /\ handler = [c \in Commands |-> "none"] /\ child = [c \in Commands |-> "none"]
  /\ client = [c \in Commands |-> "sending"] /\ copier = [c \in Commands |-> "none"]
  /\ input = [c \in Commands |-> "open"] /\ cancel = {} /\ slots = 0
  /\ event = [c \in Commands |-> "none"]

At(c, step) == handler[c] = step
Goes(c, step) == handler' = [handler EXCEPT ![c] = step]

----------------------------------------------------------------------------
(* The handler.                                                              *)

\* A place is taken or the request refused.
Arrives(c) ==
  /\ At(c, "none")
  /\ \/ slots < MaxCommands /\ slots' = slots + 1 /\ Goes(c, "parsing")
     \/ slots = MaxCommands /\ slots' = slots /\ Goes(c, "refused")
  /\ UNCHANGED <<child, client, copier, input, cancel, event>>

GivesBack == slots' = slots - 1

\* The first part of the request: what to run, and where.
Parses(c) ==
  /\ At(c, "parsing")
  /\ \/ Goes(c, "starting") /\ slots' = slots
     \/ Goes(c, "refused") /\ GivesBack
  /\ UNCHANGED <<child, client, copier, input, cancel, event>>

\* A request in JSON has no stdin; a multipart one has a copier for it.
Starts(c) ==
  /\ At(c, "starting")
  /\ \/ /\ Goes(c, "waiting") /\ child' = [child EXCEPT ![c] = "running"] /\ slots' = slots
        /\ copier' \in {copier, [copier EXCEPT ![c] = "reading"]}
     \/ Goes(c, "refused") /\ GivesBack /\ UNCHANGED <<child, copier>>
  /\ UNCHANGED <<client, input, cancel, event>>

\* cmd.Wait, which closes this side of the child's stdin.
Waits(c) ==
  /\ At(c, "waiting") /\ child[c] \in {"exited", "killed"} /\ Goes(c, "settling")
  /\ UNCHANGED <<child, client, copier, input, cancel, slots, event>>

CopierEnded(c) == copier[c] \in {"none", "whole"} \cup Errors

\* mutant: the handler waits for the client to finish its request.
WaitsForClient(c) == input' = input

\* The read deadline and the closed body release a copier that still reads.
Releases(c) == input' = [input EXCEPT ![c] = "closed"]

Settles(c) ==
  /\ At(c, "settling")
  /\ IF CopierEnded(c) THEN Goes(c, "joining") /\ input' = input
                       ELSE Goes(c, "joining") /\ Releases(c)
  /\ UNCHANGED <<child, client, copier, cancel, slots, event>>

\* mutant: whatever ended the copier is the command's error.
AnyError(c) == copier[c] \in Errors

\* A pipe the child closed, or one that was closed to release the copier, is
\* no error of the command.
InputError(c) == copier[c] \in Errors \ {"pipe"}

\* The exit event is the last: what went wrong with the input, or else the status.
Reports(c) ==
  /\ At(c, "joining") /\ CopierEnded(c) /\ Goes(c, "ended") /\ GivesBack
  /\ event' = [event EXCEPT ![c] =
       IF InputError(c) THEN (IF copier[c] = "tooMuch" THEN "tooMuch" ELSE "broken")
       ELSE IF child[c] = "killed" THEN "killed" ELSE "status"]
  /\ cancel' = cancel \cup {c}
  /\ UNCHANGED <<child, client, copier, input>>

----------------------------------------------------------------------------
(* The child, which may close its stdin early or never read it, and may run  *)
(* for ever.                                                                 *)

Exits(c) ==
  /\ child[c] = "running" /\ child' = [child EXCEPT ![c] = "exited"]
  /\ UNCHANGED <<handler, client, copier, input, cancel, slots, event>>

\* The context's cancellation kills the child's group.
Killed(c) ==
  /\ child[c] = "running" /\ c \in cancel /\ child' = [child EXCEPT ![c] = "killed"]
  /\ UNCHANGED <<handler, client, copier, input, cancel, slots, event>>

----------------------------------------------------------------------------
(* The copier.                                                               *)

StopsCopying(c, how) ==
  /\ copier' = [copier EXCEPT ![c] = how]
  /\ input' = IF how = "whole" THEN input ELSE [input EXCEPT ![c] = "closed"]
  /\ cancel' = IF how \in Errors \ {"pipe"} THEN cancel \cup {c} ELSE cancel

CopierReads(c) ==
  /\ copier[c] = "reading"
  /\ \/ /\ input[c] = "open" /\ client[c] # "gone"
        /\ copier' = [copier EXCEPT ![c] = "writing"] /\ UNCHANGED <<input, cancel>>
     \/ input[c] = "open" /\ client[c] = "sent" /\ StopsCopying(c, "whole")
     \/ input[c] = "open" /\ client[c] = "tooMuch" /\ StopsCopying(c, "tooMuch")
     \/ input[c] = "open" /\ client[c] = "gone" /\ StopsCopying(c, "broken")
     \/ input[c] = "closed" /\ StopsCopying(c, "pipe")
  /\ UNCHANGED <<handler, child, client, slots, event>>

\* A child that does not read blocks the write; one that is gone, or closed its
\* stdin, fails it.
CopierWrites(c) ==
  /\ copier[c] = "writing"
  /\ \/ /\ child[c] = "running" /\ copier' = [copier EXCEPT ![c] = "reading"]
        /\ UNCHANGED <<input, cancel>>
     \/ StopsCopying(c, "pipe")
  /\ UNCHANGED <<handler, child, client, slots, event>>

\* The client finishes the request, exceeds the limit or goes away, with which
\* the server cancels the request's context.
ClientActs(c) ==
  /\ client[c] = "sending" /\ handler[c] \notin {"none", "refused", "ended"}
  /\ \E now \in {"sent", "tooMuch", "gone"} :
       /\ client' = [client EXCEPT ![c] = now]
       /\ cancel' = IF now = "gone" THEN cancel \cup {c} ELSE cancel
  /\ UNCHANGED <<handler, child, copier, input, slots, event>>

----------------------------------------------------------------------------
Handles(c) == Arrives(c) \/ Parses(c) \/ Starts(c) \/ Waits(c) \/ Settles(c) \/ Reports(c)

\* The copier goes on where its reader or its writer is released.
Released(c) ==
  \/ copier[c] = "reading" /\ (input[c] = "closed" \/ client[c] # "sending") /\ CopierReads(c)
  \/ copier[c] = "writing" /\ child[c] # "running" /\ CopierWrites(c)

Next == \E c \in Commands :
  Handles(c) \/ Exits(c) \/ Killed(c) \/ CopierReads(c) \/ CopierWrites(c) \/ ClientActs(c)

\* Handlers run, a cancelled child dies, and a released copier ends; a child
\* may run for ever and a client may stall for ever.
Fairness == \A c \in Commands :
  /\ WF_vars(Parses(c) \/ Starts(c) \/ Waits(c) \/ Settles(c) \/ Reports(c))
  /\ WF_vars(Killed(c)) /\ WF_vars(Released(c))

Spec == Init /\ [][Next]_vars /\ Fairness

----------------------------------------------------------------------------
\* The client is told the child's own status when it ended by itself, though
\* its input was not read to the end, and what was wrong with the input when
\* that is why it was killed; no more commands run than there are places, and
\* every end gives its place back.
EventIsTrue ==
  /\ \A c \in Commands :
       /\ event[c] = "status" => child[c] = "exited"
       /\ event[c] = "killed" => client[c] = "gone"
       /\ event[c] = "broken" => client[c] = "gone"
       /\ event[c] = "tooMuch" => client[c] = "tooMuch"
  /\ slots = Cardinality({c \in Commands : handler[c] \notin {"none", "refused", "ended"}})
  /\ slots <= MaxCommands

\* A command that is over is answered, and leaves its place, though the client
\* never finishes the input that the child did not want.
CommandsAreAnswered ==
  \A c \in Commands : []<>(child[c] \in {"exited", "killed"} => At(c, "ended"))
=============================================================================
