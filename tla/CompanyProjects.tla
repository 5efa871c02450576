--------------------------- MODULE CompanyProjects ---------------------------
(***************************************************************************)
(* The dashboard's offices (src/internal/company/manager.go, server.go,    *)
(* projects.go, process_unix.go and src/internal/globalhome/home.go): the  *)
(* list of trusted offices in the global config.yaml, which several        *)
(* requests edit, each from a view that may be old; the children the       *)
(* server starts (offices, shells and project setups), whose checks are    *)
(* made before the server's mutex is taken; the forced kill of a child and *)
(* its agents; and the server's Close, with what it can leave behind.      *)
(*                                                                         *)
(* Every write of config.yaml here is a read and a replacement under       *)
(* config.lock, so it is one step.  What start does under s.mu is one      *)
(* step too; what a handler checks before it takes s.mu is a step before.  *)
(* A path is a small number; a child's terminal is CompanyTerminal's.  A   *)
(* SIGSTOP that is accepted has stopped the process when the call returns. *)
(***************************************************************************)
EXTENDS Integers, FiniteSets, SequencesExt

CONSTANTS Paths,            \* office directories
          ProjectRequests,  \* requests that may be in flight at once
          Ids,              \* instance ids: bounds the children ever started
          InstanceLimit,    \* the 64 of start, as small as Ids allows
          OfficeAgents,     \* agent sessions an office may run
          MaxProjectRequests \* bound on the requests a run makes

VARIABLES
    trusted,     \* config.yaml's trusted_offices, in order
    configured,  \* directories with a .omo/omo.yaml
    child,       \* id -> Instance, its process and its control token
    request,     \* what each request has established so far
    server,      \* "serving", "closing", "forcing" or "returned": Server.Close
    outside,     \* path -> an office run outside this company
    overtaken,   \* ghost: paths whose launch and untrust overlapped
    budget       \* requests the run may still make

projectVars == <<trusted, configured, child, request, server, outside, overtaken, budget>>

Idle == [kind |-> "none", path |-> 0, view |-> <<>>, id |-> 0]
NoChild == [path |-> 0, mode |-> "none", state |-> "unused", process |-> "none", ok |-> FALSE,
            agents |-> {}, token |-> FALSE, listed |-> FALSE, kill |-> "no",
            victims |-> {}, left |-> "no", done |-> FALSE, stopping |-> FALSE]

Living(i) == child[i].process \in {"booting", "up"}
Listed == {i \in Ids : child[i].listed}
RunningAt(p, mode) == {i \in Listed : child[i].path = p /\ child[i].state = "running"
                                      /\ child[i].mode \in mode}

TypeOK ==
    /\ trusted \in Seq(Paths) /\ configured \subseteq Paths
    /\ child \in [Ids -> [path : Paths \union {0}, mode : {"none", "omo", "shell", "setup"},
           state : {"unused", "running", "exited"},
           process : {"none", "booting", "up", "dead"}, ok : BOOLEAN,
           agents : SUBSET OfficeAgents, token : BOOLEAN, listed : BOOLEAN,
           kill : {"no", "frozen", "snapshot", "done", "refused"}, victims : SUBSET OfficeAgents,
           left : {"no", "crash", "unlisted"}, done : BOOLEAN, stopping : BOOLEAN]]
    /\ request \in [ProjectRequests -> [kind : {"none", "launch", "setup", "untrust", "reorder", "forget"},
           path : Paths \union {0}, view : Seq(Paths), id : Ids \union {0}]]
    /\ server \in {"serving", "closing", "forcing", "returned"}
    /\ outside \in [Paths -> {"no", "starting", "up"}]
    /\ overtaken \subseteq Paths /\ budget \in 0..MaxProjectRequests

Init ==
    /\ trusted \in {<<p>> : p \in Paths} /\ configured \in {{trusted[1]}, Paths}
    /\ child = [i \in Ids |-> NoChild]
    /\ request = [r \in ProjectRequests |-> Idle]
    /\ server = "serving"
    /\ outside = [p \in Paths |-> "no"]
    /\ overtaken = {} /\ budget = MaxProjectRequests

\* A request arrives, and what it has established is kept for its next step.
Asks(r, what) ==
    /\ request[r] = Idle /\ budget > 0 /\ server # "returned"
    /\ budget' = budget - 1
    /\ request' = [request EXCEPT ![r] = what]

Pending(kind, p) == \E r \in ProjectRequests : request[r].kind = kind /\ request[r].path = p

Answers(r) == request' = [request EXCEPT ![r] = Idle]

----------------------------------------------------------------------------
(* The trusted offices (globalhome.Home).                                   *)

\* Home.Trust: appends the path unless it is there.
WithTrust(p) == IF p \in ToSet(trusted) THEN trusted ELSE Append(trusted, p)

\* projectAction "trust": an existing office is approved.
TrustProject(p) ==
    /\ server # "returned" /\ budget > 0
    /\ p \in configured
    /\ trusted' = WithTrust(p)
    /\ budget' = budget - 1
    /\ UNCHANGED <<configured, child, request, server, outside, overtaken>>

\* MUTANT of MayUntrust: only what runs in a terminal of its own is looked at.
MayAlwaysUntrust(p) == RunningAt(p, {"shell", "setup"}) = {}

\* projectAction "untrust": no running child may use the path ...
MayUntrust(p) == RunningAt(p, {"omo", "shell", "setup"}) = {}

UntrustLooks(r, p) ==
    /\ MayUntrust(p)
    /\ Asks(r, [Idle EXCEPT !.kind = "untrust", !.path = p])
    /\ UNCHANGED <<trusted, configured, child, server, outside, overtaken>>

\* ... and then, with s.mu released, the approval is taken from config.yaml,
\* which names an office at most once (TrustedOnce): the first is the only one.
Untrust(r) ==
    /\ request[r].kind = "untrust"
    /\ LET p == request[r].path IN
         /\ trusted' = RemoveFirst(trusted, p)
         /\ overtaken' = overtaken \union {q \in {p} : Pending("launch", q)}
    /\ Answers(r)
    /\ UNCHANGED <<configured, child, server, outside, budget>>

\* The dashboard asks for another order of the list it was shown.
ReorderLooks(r, view) ==
    /\ ToSet(view) = ToSet(trusted) /\ Len(view) = Len(trusted)
    /\ Asks(r, [Idle EXCEPT !.kind = "reorder", !.view = view])
    /\ UNCHANGED <<trusted, configured, child, server, outside, overtaken>>

\* MUTANT of SamePermutation: an office that is gone is noticed, a new one is not.
OnlyKnown(requested) == ToSet(requested) \subseteq ToSet(trusted)

\* samePermutation: the stored list has not gained or lost an office since.
SamePermutation(requested) == ToSet(requested) = ToSet(trusted) /\ Len(requested) = Len(trusted)

\* Home.Reorder.
Reorder(r) ==
    /\ request[r].kind = "reorder"
    /\ trusted' = IF SamePermutation(request[r].view) THEN request[r].view ELSE trusted
    /\ Answers(r)
    /\ UNCHANGED <<configured, child, server, outside, overtaken, budget>>

----------------------------------------------------------------------------
(* Starting children.                                                       *)

\* TrustedProject, before start takes s.mu.
LaunchLooks(r, p) ==
    /\ p \in ToSet(trusted) /\ p \in configured
    /\ Asks(r, [Idle EXCEPT !.kind = "launch", !.path = p])
    /\ UNCHANGED <<trusted, configured, child, server, outside, overtaken>>

\* ValidateProjectRequest, before startProject takes s.mu.
SetupLooks(r, p) ==
    /\ p \notin configured
    /\ Asks(r, [Idle EXCEPT !.kind = "setup", !.path = p])
    /\ UNCHANGED <<trusted, configured, child, server, outside, overtaken>>

\* MUTANT of Accepts: Close's flag is not looked at under s.mu.
AcceptsWhileClosing == Cardinality(Listed) < InstanceLimit

\* The company takes new children: not closing, and below its limit.
Accepts == server = "serving" /\ Cardinality(Listed) < InstanceLimit

\* MUTANT of Starts: only the lock file is asked, which a booting office has yet to write.
StartsUnlocked(p, mode) ==
    /\ Accepts
    /\ (mode = "omo") => (outside[p] = "no" /\ \A i \in Ids : ~(child[i].path = p /\ child[i].process = "up"))

\* start: a running office of the path is returned as it is.
Starts(p, mode) ==
    /\ Accepts
    /\ (mode = "omo") => (RunningAt(p, {"omo"}) = {} /\ outside[p] = "no")

\* start and startProject under s.mu: a child is started and listed, with a
\* control token unless it is a setup.
Spawned(p, mode) ==
    \E i \in Ids :
        /\ child[i].state = "unused"
        /\ child' = [child EXCEPT ![i] = [NoChild EXCEPT !.path = p, !.mode = mode,
             !.state = "running", !.process = IF mode = "omo" THEN "booting" ELSE "up",
             !.token = mode # "setup", !.listed = TRUE]]

\* The request's second half: a child, or an error (the limit, an office
\* already there, a process that cannot be started).
Start(r) ==
    /\ request[r].kind \in {"launch", "setup"}
    /\ LET mode == IF request[r].kind = "launch" THEN "omo" ELSE "setup"
           p == request[r].path IN
         \/ /\ Starts(p, mode) /\ Spawned(p, mode)
            /\ overtaken' = overtaken \union {q \in {p} : Pending("untrust", q)}
         \/ UNCHANGED <<child, overtaken>>
    /\ Answers(r)
    /\ UNCHANGED <<trusted, configured, server, outside, budget>>

\* launch of a shell, which needs no trusted office.
StartShell(p) ==
    /\ budget > 0 /\ budget' = budget - 1
    /\ Starts(p, "shell") /\ Spawned(p, "shell")
    /\ UNCHANGED <<trusted, configured, request, server, outside, overtaken>>

----------------------------------------------------------------------------
(* What the children do by themselves.                                      *)

\* MUTANT of Frozen: the owner is killed without being stopped first.
NotFrozen(i) == FALSE

Frozen(i) == child[i].kill \in {"frozen", "snapshot"}

\* office.Open of the child takes the instance lock, or fails: on another's,
\* or for a reason of its own.
OfficeOpens(i) ==
    /\ child[i].process = "booting" /\ ~Frozen(i)
    /\ LET held == outside[child[i].path] # "no"
                   \/ \E o \in Ids \ {i} : child[o].path = child[i].path /\ child[o].mode = "omo"
                                           /\ child[o].process = "up"
       IN \E process \in {"dead"} \union (IF held THEN {} ELSE {"up"}) :
            child' = [child EXCEPT ![i].process = process]
    /\ UNCHANGED <<trusted, configured, request, server, outside, overtaken, budget>>

\* A running office starts an agent's session: also one that replaces another.
AgentStarts(i, a) ==
    /\ child[i].mode = "omo" /\ child[i].process = "up" /\ ~child[i].stopping /\ ~Frozen(i)
    /\ a \notin child[i].agents
    /\ child' = [child EXCEPT ![i].agents = @ \union {a}]
    /\ UNCHANGED <<trusted, configured, request, server, outside, overtaken, budget>>

\* The child ends: an office after closing its sessions, a setup with its
\* project written or not.
ChildEnds(i, ok) ==
    /\ child[i].process = "up" /\ ~Frozen(i)
    /\ ok => child[i].mode = "setup"
    /\ child' = [child EXCEPT ![i].process = "dead", ![i].agents = {}, ![i].ok = ok]
    /\ configured' = IF ok THEN configured \union {child[i].path} ELSE configured
    /\ UNCHANGED <<trusted, request, server, outside, overtaken, budget>>

\* An office ends without closing its sessions (a crash, a kill from outside):
\* an agent is in a session of its own and may go on.
OfficeCrashes(i, orphans) ==
    /\ child[i].mode = "omo" /\ child[i].process = "up" /\ ~Frozen(i)
    /\ orphans # {} /\ orphans \subseteq child[i].agents
    /\ child' = [child EXCEPT ![i].process = "dead", ![i].agents = orphans, ![i].left = "crash"]
    /\ UNCHANGED <<trusted, configured, request, server, outside, overtaken, budget>>

\* The waiter of the instance, once its terminal is drained.
Exited(i) ==
    /\ child[i].process = "dead" /\ child[i].state = "running"
    /\ child' = [child EXCEPT ![i].state = "exited"]
    /\ UNCHANGED <<trusted, configured, request, server, outside, overtaken, budget>>

\* Its onExit: the control token is returned; a finished setup trusts its project.
OnExit(i) ==
    /\ child[i].state = "exited" /\ ~child[i].done
    /\ child' = [child EXCEPT ![i].done = TRUE, ![i].token = FALSE]
    /\ trusted' = IF child[i].ok THEN WithTrust(child[i].path) ELSE trusted
    /\ UNCHANGED <<configured, request, server, outside, overtaken, budget>>

\* An office is started and stopped outside the company; its lock is empty
\* while it opens.
OutsideMoves(p) ==
    /\ \/ /\ outside[p] = "no" /\ p \in configured /\ budget > 0
          /\ \A i \in Ids : ~(child[i].path = p /\ child[i].process = "up" /\ child[i].mode = "omo")
          /\ outside' = [outside EXCEPT ![p] = "starting"] /\ budget' = budget - 1
       \/ /\ outside[p] # "no" /\ UNCHANGED budget
          /\ outside' = [outside EXCEPT ![p] = IF @ = "starting" THEN "up" ELSE "no"]
    /\ UNCHANGED <<trusted, configured, child, request, server, overtaken>>

----------------------------------------------------------------------------
(* Stopping and forgetting children.                                        *)

\* probeOffice and office.estop: whoever answers at the path is told to stop,
\* and there is no answer while the office opens.
EstopInstance(i) ==
    /\ child[i].listed /\ child[i].mode = "omo" /\ child[i].state = "running"
    /\ \/ child[i].process = "up" /\ ~Frozen(i)
          /\ child' = [child EXCEPT ![i].stopping = TRUE] /\ UNCHANGED outside
       \/ outside[child[i].path] = "up"
          /\ outside' = [outside EXCEPT ![child[i].path] = "no"] /\ UNCHANGED child

Estop(i) ==
    /\ server = "serving" /\ ~child[i].stopping /\ EstopInstance(i)
    /\ UNCHANGED <<trusted, configured, request, server, overtaken, budget>>

\* Instance.kill, once per instance, and killTree's first step: the owner is
\* stopped with SIGSTOP.  There is nothing to do when it has ended; when the
\* signal is refused, nothing is killed, and no later call tries again.
KillBegins(i) ==
    /\ child[i].listed /\ child[i].kill = "no"
    /\ \E kill \in IF Living(i) THEN {"frozen", "refused"} ELSE {"done"} :
         child' = [child EXCEPT ![i].kill = kill]
    /\ UNCHANGED <<trusted, configured, request, outside, overtaken>>

Kill(i) == server = "serving" /\ budget > 0 /\ KillBegins(i) /\ budget' = budget - 1 /\ UNCHANGED server

\* killTree's snapshot of the descendants, which is empty when ps fails: the
\* error is dropped, and agents there are none of the victims.
KillLists(i) ==
    /\ child[i].kill = "frozen"
    /\ \/ child' = [child EXCEPT ![i].kill = "snapshot", ![i].victims = child[i].agents]
       \/ /\ child[i].agents # {}
          /\ child' = [child EXCEPT ![i].kill = "snapshot", ![i].left = "unlisted"]
    /\ UNCHANGED <<trusted, configured, request, server, outside, overtaken, budget>>

\* Every descendant in the snapshot is killed, then the owner: a process that
\* took the SIGSTOP takes the SIGKILL.
KillEnds(i) ==
    /\ child[i].kill = "snapshot"
    /\ child' = [child EXCEPT ![i].kill = "done", ![i].process = "dead",
                              ![i].agents = @ \ child[i].victims]
    /\ UNCHANGED <<trusted, configured, request, server, outside, overtaken, budget>>

\* forget: only an exited instance leaves the list.
ForgetLooks(r, i) ==
    /\ child[i].listed /\ child[i].state = "exited"
    /\ Asks(r, [Idle EXCEPT !.kind = "forget", !.id = i])
    /\ UNCHANGED <<trusted, configured, child, server, outside, overtaken>>

Forget(r) ==
    /\ request[r].kind = "forget"
    /\ child' = [child EXCEPT ![request[r].id].listed = FALSE]
    /\ Answers(r)
    /\ UNCHANGED <<trusted, configured, server, outside, overtaken, budget>>

----------------------------------------------------------------------------
(* Server.Close.                                                            *)

\* RunWithReady has returned: no child is accepted any more.
CloseBegins ==
    /\ server = "serving" /\ server' = "closing"
    /\ UNCHANGED <<trusted, configured, child, request, outside, overtaken, budget>>

\* One goroutine for each child: an office is stopped over its socket, any
\* other child is killed.
CloseAsks(i) ==
    /\ server = "closing"
    /\ IF child[i].mode = "omo"
       THEN ~child[i].stopping /\ EstopInstance(i) /\ UNCHANGED <<trusted, configured, request, overtaken>>
       ELSE KillBegins(i)
    /\ UNCHANGED <<server, budget>>

\* A child whose control channel is gone stops by itself (watchdog).
WatchdogStops(i) ==
    /\ server # "serving" /\ child[i].mode \in {"omo", "shell"} /\ child[i].process = "up"
    /\ ~Frozen(i) /\ ~child[i].stopping
    /\ child' = [child EXCEPT ![i].stopping = TRUE]
    /\ UNCHANGED <<trusted, configured, request, server, outside, overtaken, budget>>

\* The five seconds are over.
Deadline ==
    /\ server = "closing" /\ \E i \in Listed : ~child[i].done
    /\ server' = "forcing"
    /\ UNCHANGED <<trusted, configured, child, request, outside, overtaken, budget>>

ForceKill(i) == server = "forcing" /\ KillBegins(i) /\ UNCHANGED <<server, budget>>

\* MUTANT of MayReturn: the five seconds end Close.
ReturnsAtDeadline == server = "forcing" \/ (server = "closing" /\ \A i \in Listed : child[i].done)

\* Close ends when every child is done or, once kill has been called on each,
\* when the last three seconds are over: what kill answered is not looked at.
MayReturn ==
    \/ server = "closing" /\ \A i \in Listed : child[i].done
    \/ server = "forcing" /\ \A i \in Listed : child[i].kill \in {"done", "refused"}

CloseReturns ==
    /\ MayReturn /\ server' = "returned"
    /\ UNCHANGED <<trusted, configured, child, request, outside, overtaken, budget>>

----------------------------------------------------------------------------
Next ==
    \/ \E p \in Paths : TrustProject(p) \/ StartShell(p) \/ OutsideMoves(p)
    \/ \E r \in ProjectRequests :
         \/ \E p \in Paths : UntrustLooks(r, p) \/ LaunchLooks(r, p) \/ SetupLooks(r, p)
         \/ \E view \in SetToSeqs(ToSet(trusted)) : ReorderLooks(r, view)
         \/ \E i \in Ids : ForgetLooks(r, i)
         \/ Untrust(r) \/ Reorder(r) \/ Start(r) \/ Forget(r)
    \/ \E i \in Ids :
         \/ OfficeOpens(i) \/ Exited(i) \/ OnExit(i) \/ WatchdogStops(i)
         \/ \E a \in OfficeAgents : AgentStarts(i, a)
         \/ \E ok \in BOOLEAN : ChildEnds(i, ok)
         \/ \E orphans \in SUBSET OfficeAgents : OfficeCrashes(i, orphans)
         \/ Estop(i) \/ Kill(i) \/ KillLists(i) \/ KillEnds(i)
         \/ CloseAsks(i) \/ ForceKill(i)
    \/ CloseBegins \/ Deadline \/ CloseReturns

\* Timers expire and a system call returns; nothing obliges an office to stop.
Spec ==
    /\ Init /\ [][Next]_projectVars
    /\ WF_projectVars(Deadline) /\ WF_projectVars(CloseReturns)
    /\ \A i \in Ids : /\ WF_projectVars(ForceKill(i)) /\ WF_projectVars(KillLists(i))
                      /\ WF_projectVars(KillEnds(i))

----------------------------------------------------------------------------
\* However launches, exits and removals overlap, two living children are never
\* offices of one directory.
OneOfficePerPath ==
    \A i, o \in Ids : (i # o /\ Living(i) /\ Living(o) /\ child[i].mode = "omo" /\ child[o].mode = "omo")
                      => child[i].path # child[o].path

\* A living child can be seen, stopped and killed from the dashboard and holds
\* its control token.
LivingIsListed ==
    \A i \in Ids : Living(i) => child[i].listed /\ (child[i].mode # "setup" => child[i].token)

\* A running office that is not trusted was untrusted between the check and the
\* start of its own launch, or launched between the check and the removal of the
\* untrust.  The code lets those two overlap (overtaken), and nothing stops such
\* an office afterwards; no other order of requests, orders, exits and setups
\* leaves an office running that is not trusted.
OfficesAreTrusted ==
    \A i \in Ids : (child[i].mode = "omo" /\ child[i].state = "running" /\ Living(i))
                   => child[i].path \in ToSet(trusted) \union overtaken

\* A kill that took hold and had its list of descendants leaves no agent, also
\* one that replaces another while the kill goes on.  The code drops the error of
\* a failed list, and finds no agent whose office has crashed: those stay alive.
KilledIsGone ==
    \A i \in Ids : (child[i].kill = "done" /\ child[i].left = "no") => child[i].agents = {}

\* When Close has returned, a child that is alive is one whose SIGSTOP was
\* refused, and an agent that is alive belongs to such a child, to an office that
\* crashed, or to one whose descendants could not be listed.
ClosedLeavesOnlyStrays ==
    server = "returned" => \A i \in Ids :
        /\ Living(i) => child[i].kill = "refused"
        /\ child[i].agents # {} => Living(i) \/ child[i].left # "no"

\* The list of trusted offices names none twice.
TrustedOnce == IsInjective(trusted)

ProjectsAreTrue ==
    /\ OneOfficePerPath /\ LivingIsListed /\ OfficesAreTrusted
    /\ KilledIsGone /\ ClosedLeavesOnlyStrays /\ TrustedOnce

\* An office leaves the list only by an untrust of it: an order asked for from
\* an old view of the list takes none away and brings none back.
TrustIsKept ==
    [][\A p \in Paths :
          /\ (p \in ToSet(trusted) /\ p \notin ToSet(trusted'))
             => \E r \in ProjectRequests : request[r].kind = "untrust" /\ request[r].path = p
          /\ (p \notin ToSet(trusted) /\ p \in ToSet(trusted')) => p \in configured]_projectVars

\* Close ends whatever the children do.
CloseEnds == []<>(server \notin {"closing", "forcing"})
=============================================================================
