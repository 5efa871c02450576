--------------------------- MODULE CompanyService ---------------------------
(***************************************************************************)
(* One company per global home (companyservice/service.go): processes that  *)
(* run the company, commands that start one detached and wait until it is   *)
(* ready, and commands that stop it. They meet in two lock files and in      *)
(* runtime.json, where the company that is ready says how it is reached.     *)
(*                                                                         *)
(* A lock is taken or given up after 150 ms, and goes with its process. A     *)
(* company that crashes leaves runtime.json behind. The listener's address    *)
(* and token name one process, so a request to a stale state reaches nobody.  *)
(***************************************************************************)
EXTENDS Naturals

CONSTANTS
  Launchers,         \* The commands that start a company in the background.
  Stoppers,          \* The commands that stop it.
  MaxCompanies,      \* Bound: processes that run a company.
  MaxServiceEvents   \* Bound: crashes, interrupts, failed starts and timeouts.

Companies == 1..MaxCompanies
Nobody == 0
NoState == [owner |-> Nobody, launch |-> Nobody]

VARIABLES
  company,      \* [Companies -> step]: where each process is.
  launch,       \* [Companies -> process or Nobody]: the launch id it was given, its own number.
  terminals,    \* The companies whose owned terminals are alive.
  runLock,      \* run.lock: held by a company, a launcher's probe or a stopper.
  launchLock,   \* launch.lock
  runtime,      \* runtime.json: its owner and that owner's launch id.
  launcher,     \* [Launchers -> [at, child]]
  stopper,      \* [Stoppers -> [at, target]]
  serviceEvents

vars == <<company, launch, terminals, runLock, launchLock, runtime, launcher, stopper,
          serviceEvents>>

Owning == {"owning", "preparing", "ready", "stopping", "cleaned", "cleared"}
Alive(c) == company[c] \in Owning \cup {"starting"}

TypeOK ==
  /\ company \in [Companies -> Owning \cup {"none", "starting", "gone"}]
  /\ runtime.owner \in Companies \cup {Nobody}
  /\ launcher \in [Launchers -> [at : {"idle", "locked", "probing", "spawning", "polling",
                                       "interrupted", "started", "failed"},
                                 child : Companies \cup {Nobody}]]
  /\ stopper \in [Stoppers -> [at : {"idle", "locking", "clearing", "notRunning", "reading",
                                     "requesting", "waiting", "releasing", "stopped", "error"},
                               target : Companies \cup {Nobody}]]

Init ==
  /\ company = [c \in Companies |-> "none"] /\ launch = [c \in Companies |-> Nobody]
  /\ terminals = {} /\ runLock = <<>> /\ launchLock = Nobody /\ runtime = NoState
  /\ launcher = [l \in Launchers |-> [at |-> "idle", child |-> Nobody]]
  /\ stopper = [s \in Stoppers |-> [at |-> "idle", target |-> Nobody]]
  /\ serviceEvents = 0

Event == serviceEvents < MaxServiceEvents /\ serviceEvents' = serviceEvents + 1
Quiet == serviceEvents' = serviceEvents

----------------------------------------------------------------------------
(* A process that runs the company.                                          *)

Holds(who) == runLock = who
Becomes(c, step) == company' = [company EXCEPT ![c] = step]
Fresh(c) == company[c] = "none" /\ \A d \in Companies : d < c => company[d] # "none"

\* omo company in a terminal, with no launch id.
RunForeground(c) ==
  /\ Fresh(c) /\ Becomes(c, "starting")
  /\ UNCHANGED <<launch, terminals, runLock, launchLock, runtime, launcher, stopper>> /\ Quiet

RunLocks(c) ==
  /\ company[c] = "starting"
  /\ \/ runLock = <<>> /\ runLock' = <<"company", c>> /\ Becomes(c, "owning")
     \/ runLock # <<>> /\ runLock' = runLock /\ Becomes(c, "gone")
  /\ UNCHANGED <<launch, terminals, launchLock, runtime, launcher, stopper>> /\ Quiet

\* What a crashed predecessor left is removed.
ClearState(c) ==
  /\ company[c] = "owning" /\ Becomes(c, "preparing") /\ runtime' = NoState
  /\ UNCHANGED <<launch, terminals, runLock, launchLock, launcher, stopper>> /\ Quiet

\* The dashboard serves before ready writes runtime.json; from then on users
\* start terminals.
Ready(c) ==
  /\ company[c] = "preparing" /\ Becomes(c, "ready")
  /\ runtime' = [owner |-> c, launch |-> launch[c]] /\ terminals' = terminals \cup {c}
  /\ UNCHANGED <<launch, runLock, launchLock, launcher, stopper>> /\ Quiet

\* The listener, a plugin or the state file fails.
RunFails(c) ==
  /\ company[c] \in {"owning", "preparing", "ready"} /\ Event /\ Becomes(c, "stopping")
  /\ UNCHANGED <<launch, terminals, runLock, launchLock, runtime, launcher, stopper>>

\* The context ends: a signal, or POST /stop.
Cancelled(c) == [company EXCEPT ![c] =
  CASE @ \in {"owning", "preparing", "ready"} -> "stopping"
    [] @ = "starting" -> "gone"
    [] OTHER -> @]

Interrupt(c) ==
  /\ Alive(c) /\ Event /\ company' = Cancelled(c)
  /\ UNCHANGED <<launch, terminals, runLock, launchLock, runtime, launcher, stopper>>

\* Server.Close waits for the owned terminals; then, in this order, the control
\* server closes, runtime.json is removed and the lock is released.
CleanUp(c) ==
  /\ company[c] = "stopping" /\ Becomes(c, "cleaned") /\ terminals' = terminals \ {c}
  /\ UNCHANGED <<launch, runLock, launchLock, runtime, launcher, stopper>> /\ Quiet

RemoveState(c) ==
  /\ company[c] = "cleaned" /\ Becomes(c, "cleared") /\ runtime' = NoState
  /\ UNCHANGED <<launch, terminals, runLock, launchLock, launcher, stopper>> /\ Quiet

RunUnlocks(c) ==
  /\ company[c] = "cleared" /\ Becomes(c, "gone") /\ runLock' = <<>>
  /\ UNCHANGED <<launch, terminals, launchLock, runtime, launcher, stopper>> /\ Quiet

\* A process that dies; its terminals' watchdogs end them.
Dead(c) ==
  /\ Becomes(c, "gone") /\ terminals' = terminals \ {c}
  /\ runLock' = IF Holds(<<"company", c>>) THEN <<>> ELSE runLock

Crash(c) ==
  /\ Alive(c) /\ Event /\ Dead(c)
  /\ UNCHANGED <<launch, launchLock, runtime, launcher, stopper>>

----------------------------------------------------------------------------
(* StartDetached.                                                            *)

LauncherAt(l, step) == launcher[l].at = step
LauncherGoes(l, step) == launcher' = [launcher EXCEPT ![l].at = step]

\* The launch lock, which two starts at once do not share.
LaunchLocks(l) ==
  /\ LauncherAt(l, "idle")
  /\ \/ launchLock = Nobody /\ launchLock' = l /\ LauncherGoes(l, "locked")
     \/ launchLock # Nobody /\ launchLock' = launchLock /\ LauncherGoes(l, "failed")
  /\ UNCHANGED <<company, launch, terminals, runLock, runtime, stopper>> /\ Quiet

\* The run lock is taken to see that no company holds it, and given back.
Probe(l) ==
  /\ LauncherAt(l, "locked")
  /\ \/ /\ runLock = <<>> /\ runLock' = <<"probe", l>> /\ launchLock' = launchLock
        /\ LauncherGoes(l, "probing")
     \/ /\ runLock # <<>> /\ runLock' = runLock /\ launchLock' = Nobody
        /\ LauncherGoes(l, "failed")
  /\ UNCHANGED <<company, launch, terminals, runtime, stopper>> /\ Quiet

EndProbe(l) ==
  /\ LauncherAt(l, "probing") /\ runLock' = <<>> /\ LauncherGoes(l, "spawning")
  /\ UNCHANGED <<company, launch, terminals, launchLock, runtime, stopper>> /\ Quiet

Spawn(l) ==
  /\ LauncherAt(l, "spawning")
  /\ \E c \in Companies :
       /\ Fresh(c) /\ Becomes(c, "starting") /\ launch' = [launch EXCEPT ![c] = c]
       /\ launcher' = [launcher EXCEPT ![l] = [at |-> "polling", child |-> c]]
  /\ UNCHANGED <<terminals, runLock, launchLock, runtime, stopper>> /\ Quiet

LaunchEnds(l, result) == LauncherGoes(l, result) /\ launchLock' = Nobody

ChildExited(l) ==
  /\ launcher[l].at \in {"polling", "interrupted"} /\ company[launcher[l].child] = "gone"
  /\ LaunchEnds(l, "failed")
  /\ UNCHANGED <<company, launch, terminals, runLock, runtime, stopper>> /\ Quiet

\* Its control server answers a request with its token.
Answers(c) == c # Nobody /\ company[c] \in {"ready", "stopping"}

\* mutant: any ready company is taken for the one that was launched.
AnyIsReady(l) == Answers(runtime.owner)

ChildIsReady(l) == runtime.launch = launcher[l].child /\ Answers(runtime.owner)

SeesReady(l) ==
  /\ LauncherAt(l, "polling") /\ ChildIsReady(l) /\ LaunchEnds(l, "started")
  /\ UNCHANGED <<company, launch, terminals, runLock, runtime, stopper>> /\ Quiet

\* 30 seconds, or the user gives up: the child is asked to end.
LaunchTimesOut(l) ==
  /\ LauncherAt(l, "polling") /\ Event
  /\ company' = Cancelled(launcher[l].child) /\ LauncherGoes(l, "interrupted")
  /\ UNCHANGED <<launch, terminals, runLock, launchLock, runtime, stopper>>

\* Five more seconds, and it is killed with its group.
Terminate(l) ==
  /\ LauncherAt(l, "interrupted") /\ Alive(launcher[l].child) /\ Dead(launcher[l].child)
  /\ UNCHANGED <<launch, launchLock, runtime, launcher, stopper>> /\ Quiet

----------------------------------------------------------------------------
(* Stop.                                                                     *)

StopperAt(s, step) == stopper[s].at = step
StopperGoes(s, step) == stopper' = [stopper EXCEPT ![s].at = step]

StopBegins(s) ==
  /\ StopperAt(s, "idle") /\ StopperGoes(s, "locking")
  /\ UNCHANGED <<company, launch, terminals, runLock, launchLock, runtime, launcher>> /\ Quiet

StopLocks(s) ==
  /\ StopperAt(s, "locking")
  /\ \/ runLock = <<>> /\ runLock' = <<"stop", s>> /\ StopperGoes(s, "clearing")
     \/ runLock # <<>> /\ runLock' = runLock /\ StopperGoes(s, "reading")
  /\ UNCHANGED <<company, launch, terminals, launchLock, runtime, launcher>> /\ Quiet

\* mutant: the lock is only tried, and given back before the file is removed.
StopLetsGo(s) == runLock' = <<>>

StopKeepsLock(s) == runLock' = runLock

\* Nobody runs, so that what is left of a state is stale; it is removed under
\* the lock, which Stop's return releases.
StopClears(s) ==
  /\ StopperAt(s, "clearing") /\ StopKeepsLock(s) /\ StopperGoes(s, "releasing")
  /\ UNCHANGED <<company, launch, terminals, launchLock, runtime, launcher>> /\ Quiet

StopRemoves(s) ==
  /\ StopperAt(s, "releasing") /\ stopper[s].target = Nobody
  /\ runtime' = NoState /\ StopperGoes(s, "notRunning")
  /\ runLock' = IF Holds(<<"stop", s>>) THEN <<>> ELSE runLock
  /\ UNCHANGED <<company, launch, terminals, launchLock, launcher>> /\ Quiet

StopReads(s) ==
  /\ StopperAt(s, "reading")
  /\ stopper' = [stopper EXCEPT ![s] =
       [at |-> IF runtime = NoState THEN "error" ELSE "requesting", target |-> runtime.owner]]
  /\ UNCHANGED <<company, launch, terminals, runLock, launchLock, runtime, launcher>> /\ Quiet

StopRequests(s) ==
  /\ StopperAt(s, "requesting")
  /\ IF Answers(stopper[s].target)
     THEN company' = Cancelled(stopper[s].target) /\ StopperGoes(s, "waiting")
     ELSE company' = company /\ StopperGoes(s, "error")
  /\ UNCHANGED <<launch, terminals, runLock, launchLock, runtime, launcher>> /\ Quiet

\* mutant: the answered request is taken for the end.
StopTrusts(s) == TRUE

StopWaits(s) == runLock = <<>>

\* The lock comes free when the cleanup is over; it is taken and given back.
StopDone(s) ==
  /\ StopperAt(s, "waiting") /\ StopWaits(s) /\ StopperGoes(s, "stopped")
  /\ UNCHANGED <<company, launch, terminals, runLock, launchLock, runtime, launcher>> /\ Quiet

StopTimesOut(s) ==
  /\ StopperAt(s, "waiting") /\ Event /\ StopperGoes(s, "error")
  /\ UNCHANGED <<company, launch, terminals, runLock, launchLock, runtime, launcher>>

Next ==
  \/ \E c \in Companies :
       \/ RunForeground(c) \/ RunLocks(c) \/ ClearState(c) \/ Ready(c) \/ RunFails(c)
       \/ Interrupt(c) \/ CleanUp(c) \/ RemoveState(c) \/ RunUnlocks(c) \/ Crash(c)
  \/ \E l \in Launchers :
       \/ LaunchLocks(l) \/ Probe(l) \/ EndProbe(l) \/ Spawn(l) \/ ChildExited(l)
       \/ SeesReady(l) \/ LaunchTimesOut(l) \/ Terminate(l)
  \/ \E s \in Stoppers :
       \/ StopBegins(s) \/ StopLocks(s) \/ StopClears(s) \/ StopRemoves(s) \/ StopReads(s)
       \/ StopRequests(s) \/ StopDone(s) \/ StopTimesOut(s)

Spec == Init /\ [][Next]_vars

----------------------------------------------------------------------------
\* While a company is ready, runtime.json is its own: no start, stop or end of
\* another process replaces or removes it. So it can be reached, and stopped.
ReadyIsReachable ==
  \A c \in Companies : company[c] = "ready" => runtime = [owner |-> c, launch |-> launch[c]]

\* Terminals of one company at most are alive: a new one starts when those of
\* the last have been cleaned up.
OneOwnerOfTerminals ==
  \A c, d \in Companies : c \in terminals /\ company[d] \in Owning => c = d

\* A detached start that reports success has seen its own child answer; one
\* that reports failure leaves no child behind.
StartsAreTrue ==
  [][\A l \in Launchers :
       /\ ~LauncherAt(l, "started") /\ LauncherAt(l, "started")' => Answers(launcher[l].child)
       /\ ~LauncherAt(l, "failed") /\ LauncherAt(l, "failed")' =>
            (launcher[l].child # Nobody => ~Alive(launcher[l].child))]_vars

\* A stop that reports success has outlived the company it addressed and that
\* company's terminals.
StopsAreTrue ==
  \A s \in Stoppers :
    StopperAt(s, "stopped") => ~Alive(stopper[s].target) /\ stopper[s].target \notin terminals

\* The command line's view of the company agrees with its process.
OneCompany == StartsAreTrue /\ [](ReadyIsReachable /\ OneOwnerOfTerminals /\ StopsAreTrue)
=============================================================================
