----------------------------- MODULE Worktrees -----------------------------
(* The git side of jobs: branches and worktrees from dispatch to clean-up  *)
(* (internal/supervisor/integration.go, merge_target.go,                   *)
(* worktree_cleanup.go, internal/gitops/gitops.go).                        *)
(*                                                                         *)
(* One top-level job, Lead, whose role is chosen at the start; if it is a  *)
(* product manager its children are developers, each of one repository,    *)
(* branched from and merged into Lead's integration branch.  A branch is   *)
(* the set of the jobs whose commits it holds.  The repository mutex makes *)
(* every git call one step; integrationMu is `making`.                     *)
EXTENDS Naturals, FiniteSets, Functions

CONSTANTS Lead, Kids, Repos, RepoOf,   \* Lead \notin Kids, RepoOf \in [Kids \cup {Lead} -> Repos]
          MaxNames,       \* bound: names the namer gives to one tree
          MaxTreeEvents   \* bound: conflicts, failures, restarts, user commands

VARIABLES
  policy,     \* per repository: "automerge" or "asis" (EffectiveMergeTarget)
  leadRole,   \* the role of Lead's job
  naming,     \* branches.naming: "generated" or "ai"
  job,        \* the jobs' states; assigned, working, review and rework are "active"
  exiting,    \* jobs whose killed agents' processes have not ended
  crew,       \* per job: the living agents of its own, "worker" and "reviewer"
  recorded,   \* per tree: the branch in the jobs table, or NoBranch
  head,       \* per tree: the branch its directory has checked out, or NoBranch
  files,      \* per tree: where its files are: "none", "here", "aside"
  branch,     \* the existing branches: which jobs' commits each one holds
  landed,     \* per repository: the jobs whose commits its checkout holds
  dispatch,   \* the dispatcher inside assign: <<>> or <<job, branch>>
  making,     \* ensurePMIntegrationWorktree between its two steps: {} or {tree}
  merge,      \* per job: completeMergingJob, [at, left]
  cleaning,   \* clean-ups past their checks: <<job, state read>>
  boot,       \* the office: "up", or the recovery the start is in
  lostTrees,  \* trees that git forgot although their directory exists
  wrote,      \* jobs with commits the office has to keep (ghost)
  excused,    \* jobs of the races named at CommitsAreKept (ghost)
  treeEvents

jobVars == <<policy, leadRole, naming>>
gitVars == <<head, files, branch, landed, lostTrees>>
opVars  == <<dispatch, making, merge, cleaning, boot>>
vars == <<jobVars, job, crew, exiting, recorded, gitVars, opVars, wrote, excused, treeEvents>>

Jobs == Kids \cup {Lead}
OwnTree(j) == <<j, RepoOf[j]>>
KidTree(k) == <<Lead, RepoOf[k]>>          \* where k's work is integrated
Trees == {OwnTree(j) : j \in Jobs} \cup ({Lead} \X Repos)
Names == 1..MaxNames
NoBranch == <<>>
Branches == Trees \X Names
Terminal == {"done", "failed", "cancelled"}
LeadIsPM == leadRole = "product_manager"
Idle == [at |-> "idle", left |-> {}]
Event == treeEvents < MaxTreeEvents /\ treeEvents' = treeEvents + 1
NoEvent == UNCHANGED treeEvents

\* The repositories a job's completion walks through.
ReposOf(j) == IF j = Lead /\ LeadIsPM
              THEN {r \in Repos : recorded[<<Lead, r>>] # NoBranch}
              ELSE {r \in {RepoOf[j]} : recorded[OwnTree(j)] # NoBranch}
TreeOf(j, r) == <<j, r>>
IntegrationTrees == {t \in {Lead} \X Repos : LeadIsPM /\ recorded[t] # NoBranch}
\* effectiveMergeTargetForJob: children always merge.
Target(j, r) == IF j \in Kids THEN "automerge" ELSE policy[r]
KeepsBranch(j, r) == Target(j, r) = "asis"

TypeOK ==
  /\ policy \in [Repos -> {"automerge", "asis"}]
  /\ leadRole \in {"developer", "freelancer", "product_manager"}
  /\ naming \in {"generated", "ai"}
  /\ job \in [Jobs -> {"none", "queued", "active", "merging"} \cup Terminal]
  /\ exiting \subseteq Jobs
  /\ crew \in [Jobs -> SUBSET {"worker", "reviewer"}]
  /\ recorded \in [Trees -> Branches \cup {NoBranch}]
  /\ head \in [Trees -> Branches \cup {NoBranch}]
  /\ files \in [Trees -> {"none", "here", "aside"}]
  /\ DOMAIN branch \subseteq Branches /\ \A b \in DOMAIN branch : branch[b] \subseteq Jobs
  /\ landed \in [Repos -> SUBSET Jobs]
  /\ dispatch \in {<<>>} \cup (Jobs \X (Branches \cup {NoBranch}))
  /\ making \subseteq Trees /\ Cardinality(making) <= 1
  /\ merge \in [Jobs -> [at : {"idle", "merge", "clean"}, left : SUBSET Repos]]
  /\ cleaning \subseteq Jobs \X {"done", "cancelled"}
  /\ boot \in {"up", "recover", "moved", "registered", "reconcile", "failed"}
  /\ lostTrees \subseteq Trees
  /\ wrote \subseteq Jobs /\ excused \subseteq Jobs
  /\ treeEvents \in 0..MaxTreeEvents

Init ==
  /\ policy \in [Repos -> {"automerge", "asis"}]
  /\ leadRole \in {"developer", "freelancer", "product_manager"}
  /\ naming \in {"generated", "ai"}
  /\ exiting = {}
  /\ job = [j \in Jobs |-> IF j = Lead THEN "queued" ELSE "none"]
  /\ crew = [j \in Jobs |-> {}]
  /\ recorded = [t \in Trees |-> NoBranch]
  /\ head = [t \in Trees |-> NoBranch]
  /\ files = [t \in Trees |-> "none"]
  /\ branch = <<>>
  /\ landed = [r \in Repos |-> {}]
  /\ dispatch = <<>> /\ making = {}
  /\ merge = [j \in Jobs |-> Idle]
  /\ cleaning = {} /\ boot = "up" /\ lostTrees = {}
  /\ wrote = {} /\ excused = {} /\ treeEvents = 0

----------------------------------------------------------------------------
(* Branches and worktrees.                                                 *)

\* git worktree add -b b dir from a base with the commits `base`.
CanAdd(t, b) == b \notin DOMAIN branch /\ files[t] # "here"
AddWorktree(t, b, base) ==
  /\ CanAdd(t, b)
  /\ branch' = [x \in DOMAIN branch \cup {b} |-> IF x = b THEN base ELSE branch[x]]
  /\ head' = [head EXCEPT ![t] = b]
  /\ files' = [files EXCEPT ![t] = "here"]
  /\ UNCHANGED <<landed, lostTrees>>

\* removeWorktree: the directory goes, and the branch unless it is kept.
RemoveWorktree(t, b, keepBranch) ==
  /\ head' = [head EXCEPT ![t] = NoBranch]
  /\ files' = [files EXCEPT ![t] = IF @ = "here" THEN "none" ELSE @]
  /\ branch' = IF keepBranch THEN branch ELSE Restrict(branch, DOMAIN branch \ {b})
  /\ lostTrees' = lostTrees \ {t}
  /\ UNCHANGED landed

\* generated names are the same at every attempt, the namer's are new ones.
NewNames(t) == IF naming = "generated" THEN {<<t, 1>>}
               ELSE {b \in {t} \X Names : b \notin DOMAIN branch}

\* The PM creates a child's job.
CreateKid(k) ==
  /\ boot = "up" /\ LeadIsPM
  /\ job[Lead] = "active" /\ "worker" \in crew[Lead] /\ job[k] = "none"
  /\ job' = [job EXCEPT ![k] = "queued"]
  /\ UNCHANGED <<jobVars, crew, exiting, recorded, gitVars, opVars, wrote, excused, treeEvents>>

\* ensurePMIntegrationWorktree, called by job.create and by the dispatcher
\* for a child: first half.
MakeIntegration(k) ==
  LET t == KidTree(k)
  IN /\ boot = "up" /\ k \in Kids /\ job[k] = "queued"
     /\ making = {} /\ recorded[t] = NoBranch
     /\ \E b \in NewNames(t) : AddWorktree(t, b, landed[RepoOf[k]])
     /\ making' = {t}
     /\ UNCHANGED <<jobVars, job, crew, exiting, recorded, dispatch, merge, cleaning, boot,
                    wrote, excused, treeEvents>>

\* ... second half: SetIntegrationBranch, or the removal when that fails.
RecordIntegration(t) ==
  /\ t \in making
  /\ making' = {}
  /\ \/ /\ recorded' = [recorded EXCEPT ![t] = head[t]]
        /\ NoEvent /\ UNCHANGED gitVars
     \/ /\ Event /\ RemoveWorktree(t, head[t], FALSE)
        /\ UNCHANGED recorded
  /\ UNCHANGED <<jobVars, job, crew, exiting, dispatch, merge, cleaning, boot, wrote, excused>>

\* assign: the job's branch is the recorded one, or a new name; a worktree
\* that is there is used as it is.
Assign(j) ==
  LET t == OwnTree(j)
      base == IF j \in Kids THEN branch[recorded[KidTree(j)]] ELSE landed[RepoOf[j]]
      names == IF recorded[t] # NoBranch THEN {recorded[t]} ELSE NewNames(t)
  IN /\ boot = "up" /\ dispatch = <<>> /\ job[j] = "queued" /\ "worker" \notin crew[j]
     /\ j \in Kids => recorded[KidTree(j)] \in DOMAIN branch
     /\ IF j = Lead /\ LeadIsPM
        THEN dispatch' = <<j, NoBranch>> /\ UNCHANGED gitVars
        ELSE \E b \in names :
               /\ dispatch' = <<j, b>>
               /\ IF files[t] = "here" THEN UNCHANGED gitVars ELSE AddWorktree(t, b, base)
     /\ UNCHANGED <<jobVars, job, crew, exiting, recorded, making, merge, cleaning, boot,
                    wrote, excused, treeEvents>>

\* ... then the name is recorded and the agent claims the job, unless the
\* job was cancelled meanwhile.
AssignRecords ==
  /\ dispatch # <<>>
  /\ LET j == dispatch[1]
         claims == job[j] = "queued"
     IN /\ recorded' = IF dispatch[2] = NoBranch THEN recorded
                       ELSE [recorded EXCEPT ![OwnTree(j)] = dispatch[2]]
        /\ job' = IF claims THEN [job EXCEPT ![j] = "active"] ELSE job
        /\ crew' = IF claims THEN [crew EXCEPT ![j] = @ \cup {"worker"}] ELSE crew
  /\ dispatch' = <<>>
  /\ UNCHANGED <<jobVars, exiting, gitVars, making, merge, cleaning, boot, wrote, excused, treeEvents>>

\* A worker commits its work in its worktree.
Commits(j) ==
  /\ boot = "up" /\ job[j] = "active" /\ "worker" \in crew[j]
  /\ j \in Kids \/ ~LeadIsPM
  /\ LET b == head[OwnTree(j)]
     IN /\ b \in DOMAIN branch /\ j \notin branch[b]
        /\ branch' = [branch EXCEPT ![b] = @ \cup {j}]
  /\ wrote' = wrote \cup {j}
  /\ UNCHANGED <<jobVars, job, crew, exiting, recorded, head, files, landed, lostTrees, opVars,
                 excused, treeEvents>>

\* A developer is done: its reviewer joins.
ReviewBegins(j) ==
  /\ boot = "up" /\ (j \in Kids \/ leadRole = "developer")
  /\ job[j] = "active" /\ "worker" \in crew[j] /\ "reviewer" \notin crew[j]
  /\ crew' = [crew EXCEPT ![j] = @ \cup {"reviewer"}]
  /\ UNCHANGED <<jobVars, job, exiting, recorded, gitVars, opVars, wrote, excused, treeEvents>>

----------------------------------------------------------------------------
(* Completion.                                                             *)

\* The reviewer's merge verdict; done of a PM or a freelancer.
Finish(j) ==
  /\ boot = "up" /\ job[j] = "active" /\ merge[j] = Idle
  /\ IF j \in Kids \/ leadRole = "developer" THEN "reviewer" \in crew[j]
     ELSE "worker" \in crew[j]
  /\ job' = [job EXCEPT ![j] = "merging"]
  /\ merge' = [merge EXCEPT ![j] = [at |-> "merge", left |-> ReposOf(j)]]
  /\ UNCHANGED <<jobVars, crew, exiting, recorded, gitVars, dispatch, making, cleaning, boot,
                 wrote, excused, treeEvents>>

\* applyMergeTarget, one repository (MergeBranch, MergeBranchInto).  A
\* merge that fails is aborted and the job goes back (policyFailure).
MergeRepo(j, r) ==
  LET b == recorded[TreeOf(j, r)]
      into == recorded[KidTree(j)]
      rest == merge[j].left \ {r}
      mergeable == /\ b \in DOMAIN branch
                   /\ j \in Kids => /\ into \in DOMAIN branch
                                    /\ files[KidTree(j)] = "here"
      next(left) == merge' = [merge EXCEPT ![j].left = left]
  IN /\ merge[j].at = "merge" /\ r \in merge[j].left
     /\ \/ /\ KeepsBranch(j, r)
           /\ next(rest) /\ NoEvent /\ UNCHANGED <<job, gitVars, excused>>
        \/ /\ ~KeepsBranch(j, r) /\ mergeable
           /\ IF j \in Kids
              THEN /\ branch' = [branch EXCEPT ![into] = @ \cup branch[b]]
                   /\ excused' = IF job[Lead] \in {"merging", "done"}
                                 THEN excused \cup {j} ELSE excused
                   /\ UNCHANGED landed
              ELSE /\ landed' = [landed EXCEPT ![r] = @ \cup branch[b]]
                   /\ UNCHANGED <<branch, excused>>
           /\ next(rest) /\ NoEvent /\ UNCHANGED <<job, head, files, lostTrees>>
        \/ /\ ~KeepsBranch(j, r)
           /\ IF mergeable THEN Event ELSE NoEvent
           /\ job' = IF job[j] = "merging" THEN [job EXCEPT ![j] = "active"] ELSE job
           /\ merge' = [merge EXCEPT ![j] = Idle]
           /\ UNCHANGED <<gitVars, excused>>
     /\ UNCHANGED <<jobVars, crew, exiting, recorded, dispatch, making, cleaning, boot, wrote>>

\* finalizeMergingJob: done is durable before anything is removed; a
\* developer is killed, a PM is done, a freelancer stays.
Finalize(j) ==
  /\ merge[j].at = "merge" /\ merge[j].left = {}
  /\ IF job[j] = "merging"
     THEN /\ job' = [job EXCEPT ![j] = "done"]
          /\ merge' = [merge EXCEPT ![j] = [at |-> "clean", left |-> ReposOf(j)]]
          /\ IF j = Lead /\ leadRole = "freelancer" THEN UNCHANGED <<crew, exiting>>
             ELSE /\ crew' = [crew EXCEPT ![j] = @ \ {"worker"}]
                  /\ exiting' = exiting \cup {j}
     ELSE merge' = [merge EXCEPT ![j] = Idle] /\ UNCHANGED <<job, crew, exiting>>
  /\ UNCHANGED <<jobVars, recorded, gitVars, dispatch, making, cleaning, boot,
                 wrote, excused, treeEvents>>

\* cleanupRepositoryBranch with and without a look at the target.
RetainsNone(j, r) == FALSE
Retains(j, r) == KeepsBranch(j, r)

\* cleanupMergeTarget, one repository; a failure leaves the rest.
CleanRepo(j, r) ==
  /\ merge[j].at = "clean" /\ r \in merge[j].left
  /\ \/ /\ RemoveWorktree(TreeOf(j, r), recorded[TreeOf(j, r)], Retains(j, r))
        /\ merge' = [merge EXCEPT ![j].left = @ \ {r}]
        /\ NoEvent
     \/ /\ Event /\ merge' = [merge EXCEPT ![j] = Idle] /\ UNCHANGED gitVars
  /\ UNCHANGED <<jobVars, job, crew, exiting, recorded, dispatch, making, cleaning, boot,
                 wrote, excused>>

CleanEnds(j) ==
  /\ merge[j].at = "clean" /\ merge[j].left = {}
  /\ merge' = [merge EXCEPT ![j] = Idle]
  /\ UNCHANGED <<jobVars, job, crew, exiting, recorded, gitVars, dispatch, making, cleaning, boot,
                 wrote, excused, treeEvents>>

----------------------------------------------------------------------------
(* Clean-up of jobs that are over.                                         *)

\* cleanupTerminalWorktree up to its last check: own worktrees only, of a
\* job that is done or cancelled, without a living agent.
MayClean(j, living) ==
  /\ j \in Kids \/ ~LeadIsPM
  /\ recorded[OwnTree(j)] # NoBranch
  /\ job[j] \in {"done", "cancelled"} /\ living = {}
  /\ job[j] = "done" => files[OwnTree(j)] = "here"
CheckClean(j, living) ==
  cleaning' = IF MayClean(j, living) THEN cleaning \cup {<<j, job[j]>>} ELSE cleaning

\* The process of an agent ends by itself, and onSessionExit cleans up; a
\* worker lost while its job is active queues the job again, or fails it.
AgentExits(j, a) ==
  /\ boot = "up" /\ a \in crew[j]
  /\ IF job[j] \in Terminal THEN NoEvent ELSE Event
  /\ crew' = [crew EXCEPT ![j] = @ \ {a}]
  /\ IF a = "worker" /\ job[j] = "active"
     THEN \E s \in {"queued", "failed"} : job' = [job EXCEPT ![j] = s]
     ELSE UNCHANGED job
  /\ CheckClean(j, crew'[j])
  /\ UNCHANGED <<jobVars, exiting, recorded, gitVars, dispatch, making, merge, boot,
                 wrote, excused>>

\* The exit of the agents that Finalize or CancelJob killed.
KilledExit(j) ==
  /\ boot = "up" /\ j \in exiting
  /\ exiting' = exiting \ {j}
  /\ CheckClean(j, crew[j])
  /\ UNCHANGED <<jobVars, job, crew, recorded, gitVars, dispatch, making, merge, boot,
                 wrote, excused, treeEvents>>

\* ... and the removal itself; the row of a cancelled job forgets its tree.
Remove(j, state) ==
  /\ RemoveWorktree(OwnTree(j), recorded[OwnTree(j)], FALSE)
  /\ recorded' = IF state = "cancelled"
                 THEN [recorded EXCEPT ![OwnTree(j)] = NoBranch] ELSE recorded
CleanTerminal(j, state) ==
  /\ <<j, state>> \in cleaning
  /\ cleaning' = cleaning \ {<<j, state>>}
  /\ Remove(j, state)
  /\ UNCHANGED <<jobVars, job, crew, exiting, dispatch, making, merge, boot, wrote,
                 excused, treeEvents>>

\* CancelJob kills the job's agents; what the job, or the PM with its
\* children, wrote is given up.
Cancel(j) ==
  /\ boot = "up" /\ job[j] \notin Terminal \cup {"none"} /\ Event
  /\ job' = [job EXCEPT ![j] = "cancelled"]
  /\ crew' = [crew EXCEPT ![j] = {}]
  /\ exiting' = exiting \cup {j}
  /\ wrote' = IF j = Lead THEN {} ELSE wrote \ {j}
  /\ UNCHANGED <<jobVars, recorded, gitVars, opVars, excused>>

\* RequeueJob.  A clean-up of the job may be past its checks, or may have
\* deleted the integration branches the PM's row still names.
Requeue(j) ==
  LET late == \E c \in cleaning : c[1] = j
      gone == j = Lead /\ \E t \in IntegrationTrees : recorded[t] \notin DOMAIN branch
  IN /\ boot = "up" /\ job[j] \in {"failed", "cancelled"} /\ Event
     /\ job' = [job EXCEPT ![j] = "queued"]
     /\ excused' = IF late \/ gone THEN excused \cup {j} ELSE excused
     /\ wrote' = IF j = Lead /\ job[j] = "cancelled" THEN {} ELSE wrote
     /\ UNCHANGED <<jobVars, crew, exiting, recorded, gitVars, opVars>>

----------------------------------------------------------------------------
(* Restart.                                                                *)

\* The office dies and starts: what ran is gone, active jobs are queued;
\* git may have forgotten worktrees whose directories are still there.
Restart ==
  /\ Event
  /\ \E lost \in SUBSET {t \in IntegrationTrees : files[t] = "here"} :
       lostTrees' = lostTrees \cup lost
  /\ crew' = [j \in Jobs |-> {}] /\ exiting' = {}
  /\ job' = [j \in Jobs |-> IF job[j] \in {"active", "merging"} THEN "queued" ELSE job[j]]
  /\ dispatch' = <<>> /\ making' = {} /\ cleaning' = {}
  /\ merge' = [j \in Jobs |-> Idle]
  /\ boot' = "recover"
  /\ UNCHANGED <<jobVars, recorded, head, files, branch, landed, wrote, excused>>

\* RecoverIntegrationWorktrees: the trees of a PM that is not over, where
\* git worktree repair does not do.
ToRecover == IF job[Lead] \in Terminal THEN {}
             ELSE {t \in IntegrationTrees : t \in lostTrees \/ head[t] = NoBranch}

\* reregisterExistingWorktree in the steps between which the office may
\* die: the files are moved aside ...
MoveAside(t) ==
  /\ boot = "recover" /\ t \in ToRecover /\ files[t] = "here"
  /\ files' = [files EXCEPT ![t] = "aside"]
  /\ head' = [head EXCEPT ![t] = NoBranch]
  /\ boot' = "moved"
  /\ UNCHANGED <<branch, landed, lostTrees>>

\* ... a fresh checkout of the recorded branch is registered there (when git
\* refuses, the files come back, and the start fails) ...
Reregister(t) ==
  /\ boot = "moved" /\ files[t] = "aside" /\ head[t] = NoBranch
  /\ \/ /\ recorded[t] \in DOMAIN branch
        /\ head' = [head EXCEPT ![t] = recorded[t]]
        /\ lostTrees' = lostTrees \ {t}
        /\ boot' = "registered"
        /\ NoEvent /\ UNCHANGED files
     \/ /\ files' = [files EXCEPT ![t] = "here"]
        /\ head' = [head EXCEPT ![t] = recorded[t]]
        /\ boot' = "failed"
        /\ Event /\ UNCHANGED lostTrees
  /\ UNCHANGED <<branch, landed>>

\* ... and discarded but for its .git pointer: the files are moved back.
MoveBack(t) ==
  /\ boot = "registered" /\ files[t] = "aside" /\ head[t] # NoBranch
  /\ files' = [files EXCEPT ![t] = "here"]
  /\ boot' = "recover"
  /\ NoEvent
  /\ UNCHANGED <<head, branch, landed, lostTrees>>

\* EnsureWorktree where the directory is missing.
Readd(t) ==
  /\ boot = "recover" /\ t \in ToRecover /\ files[t] # "here"
  /\ recorded[t] \in DOMAIN branch
  /\ head' = [head EXCEPT ![t] = recorded[t]]
  /\ files' = [files EXCEPT ![t] = IF @ = "aside" THEN "aside" ELSE "here"]
  /\ lostTrees' = lostTrees \ {t}
  /\ NoEvent
  /\ UNCHANGED <<branch, landed, boot>>

Recover ==
  /\ \E t \in {Lead} \X Repos :
       \/ MoveAside(t) /\ NoEvent
       \/ Reregister(t) \/ MoveBack(t) \/ Readd(t)
  /\ UNCHANGED <<jobVars, job, crew, exiting, recorded, dispatch, making, merge,
                 cleaning, wrote, excused>>

Recovered ==
  /\ boot = "recover" /\ ToRecover = {}
  /\ boot' = "reconcile"
  /\ UNCHANGED <<jobVars, job, crew, exiting, recorded, gitVars, dispatch, making, merge,
                 cleaning, wrote, excused, treeEvents>>

LeftOver(j, t) ==
  /\ recorded[t] # NoBranch
  /\ IF j = Lead /\ LeadIsPM THEN job[j] \in {"done", "cancelled"} /\ head[t] # NoBranch
     ELSE MayClean(j, crew[j])

\* CleanupTerminalWorktrees, one worktree: children and simple jobs like
\* cleanupTerminalWorktree, the PM's by cleanupTerminalPMIntegrations.
Reconcile(j, r) ==
  LET t == TreeOf(j, r)
  IN /\ boot = "reconcile" /\ t \in Trees
     /\ LeftOver(j, t)
     /\ IF j = Lead /\ LeadIsPM
        THEN /\ RemoveWorktree(t, recorded[t], job[j] = "done" /\ KeepsBranch(j, r))
             /\ UNCHANGED recorded
        ELSE Remove(j, job[j])
     /\ UNCHANGED <<jobVars, job, crew, exiting, opVars, wrote, excused, treeEvents>>

\* An error of one is noted in the events; the office starts nevertheless.
Started ==
  /\ boot = "reconcile"
  /\ IF \E t \in Trees : LeftOver(t[1], t) THEN Event ELSE NoEvent
  /\ boot' = "up"
  /\ UNCHANGED <<jobVars, job, crew, exiting, recorded, gitVars, dispatch, making, merge,
                 cleaning, wrote, excused>>

----------------------------------------------------------------------------
JobStep == \E j \in Jobs :
  \/ Assign(j) \/ Commits(j) \/ ReviewBegins(j) \/ Finish(j) \/ Finalize(j) \/ CleanEnds(j)
  \/ KilledExit(j) \/ Cancel(j) \/ Requeue(j)
  \/ \E r \in Repos : MergeRepo(j, r) \/ CleanRepo(j, r)
  \/ \E a \in {"worker", "reviewer"} : AgentExits(j, a)
  \/ \E s \in {"done", "cancelled"} : CleanTerminal(j, s)

PMStep == \/ \E k \in Kids : CreateKid(k) \/ MakeIntegration(k)
          \/ \E t \in {Lead} \X Repos : RecordIntegration(t)

BootStep == \/ Restart \/ Recover \/ Recovered \/ Started
            \/ \E j \in Jobs, r \in Repos : Reconcile(j, r)

Next == JobStep \/ AssignRecords \/ PMStep \/ BootStep

Spec == Init /\ [][Next]_vars

----------------------------------------------------------------------------
(* Properties.                                                             *)

HasWork(j) == \/ j \in landed[RepoOf[j]]
              \/ \E b \in DOMAIN branch : j \in branch[b]
AsIsWithoutPM(j) == j = Lead /\ ~LeadIsPM /\ policy[RepoOf[j]] = "asis"

\* What a job committed is in its repository or on a branch until the user
\* cancels the job: no conflict, failure, restart or clean-up loses it, and
\* an as-is product manager's integration branches outlive its job.  Two
\* exceptions, both real in the code: a job of a developer or a freelancer
\* of its own in an as-is repository is promised its branch
\* (wiki/configuration.md:20-22), and has it until the job is done, but the
\* clean-up when its last agent exits deletes it (worktree_cleanup.go:99);
\* and `excused` names the children merged into an integration branch whose
\* product manager was finishing or done, and the jobs requeued while a
\* clean-up of theirs was past its checks or had deleted their branches.
CommitsAreKept ==
  job[Lead] # "cancelled" =>
    \A j \in wrote \ excused : HasWork(j) \/ (AsIsWithoutPM(j) /\ job[j] = "done")

\* The files of an integration worktree are there, or aside, as long as its
\* PM's job is not over: re-registering the tree never destroys them.
FilesAreKept ==
  (job[Lead] \notin Terminal /\ Lead \notin excused) =>
    \A t \in IntegrationTrees : files[t] # "none"

WorkIsKept == CommitsAreKept /\ FilesAreKept
=============================================================================
