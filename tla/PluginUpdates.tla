---------------------------- MODULE PluginUpdates ----------------------------
(***************************************************************************)
(* How managed plugins are installed and refreshed below one root (the     *)
(* global home's plugins directory): updates that plan and preflight every *)
(* plugin before they replace the first (internal/pluginmanager), bundled  *)
(* plugins whose embedded copy changes with the binary (plugins/embed.go), *)
(* the configuration file both amend, a loader that copies the directories *)
(* for its runtime (internal/plugins/snapshot.go) and the commands that     *)
(* edit the same file under another lock or none (cli/plugin.go,           *)
(* internal/globalhome).                                                   *)
(*                                                                         *)
(* A revision is a number and the manifest of revision r declares the      *)
(* default r. Every process may die between two steps; the root's advisory *)
(* lock goes with it and what it left on disk stays.                       *)
(***************************************************************************)
EXTENDS Integers, FiniteSets, FiniteSetsExt

CONSTANTS
  Plugins,          \* The plugins, numbers in the order of their names.
  Bundled,          \* Those that come with the binary; the others are Git-backed.
  Revisions,        \* 1..n
  Broken,           \* Revisions whose manifest is invalid.
  MaxUpdateEvents   \* Bound: what commands, upstreams, failures and crashes do.

NoRevision == 0
Half == -1          \* What a removal that failed or was cut short left of a directory.

VARIABLES
  upstream,   \* [Plugins -> Revisions]: the remote's head, or the embedded copy.
  checkout,   \* [Plugins -> revision]: the managed checkout below .repos.
  active,     \* [Plugins -> revision]: the installed directory, NoRevision or Half.
  backup,     \* [Plugins -> SUBSET Revisions]: the whole backup directories on disk.
  config,     \* The configuration file: [Plugins -> [enabled, defaults]].
  holder,     \* Who holds the root's .update.lock: none, update or load.
  update,     \* The update: its stage, plugins to do, plans, results, ...
  editor,     \* A command that rewrites the configuration: what it has read.
  loader,     \* The office that loads: its stage, its private copies and, a ghost,
              \* what was active between the updates when it began.
  damaged,    \* Ghost: plugins a crash or a failed restore left without a whole directory.
  kept,       \* Ghost: what was active when the update began, or is since it ended.
  raced,      \* Ghost: an editor has written back what it read before an update wrote.
  updateEvents

vars == <<upstream, checkout, active, backup, config, holder, update, editor, loader,
          damaged, kept, raced, updateEvents>>

disk == <<checkout, active, backup, config>>

Idle == [at |-> "idle", planned |-> TRUE, todo |-> {}, plan |-> [p \in Plugins |-> NoRevision],
         doc |-> config, result |-> [p \in Plugins |-> "none"]]

TypeOK ==
  /\ upstream \in [Plugins -> Revisions]
  /\ checkout \in [Plugins -> Revisions \cup {NoRevision}]
  /\ active \in [Plugins -> Revisions \cup {NoRevision, Half}]
  /\ backup \in [Plugins -> SUBSET Revisions]
  /\ config \in [Plugins -> [enabled : BOOLEAN, defaults : SUBSET Revisions]]
  /\ holder \in {"none", "update", "load"}
  /\ update.at \in {"idle", "lock", "plan", "preflight", "fetch", "move", "activate",
                    "prepare", "commit", "clean", "ended"}
  /\ loader.at \in {"idle", "lock", "copy", "loaded"}
  /\ damaged \subseteq Plugins

Init ==
  /\ upstream = [p \in Plugins |-> 1]
  /\ active \in [Plugins -> {NoRevision, 1}]
  /\ checkout = [p \in Plugins |-> IF p \in Bundled THEN NoRevision ELSE active[p]]
  /\ backup = [p \in Plugins |-> {}]
  /\ config = [p \in Plugins |-> [enabled |-> TRUE, defaults |-> {active[p]} \ {NoRevision}]]
  /\ holder = "none" /\ update = Idle
  /\ editor = [at |-> "idle"] /\ loader = [at |-> "idle", copies |-> active, seen |-> active, todo |-> {}]
  /\ damaged = {} /\ kept = active /\ raced = FALSE /\ updateEvents = 0

Event == updateEvents < MaxUpdateEvents /\ updateEvents' = updateEvents + 1
Quiet == updateEvents' = updateEvents

At(stage) == update.at = stage
Go(stage) == update' = [update EXCEPT !.at = stage]

\* The plugin whose turn it is, and the end of its turn.
Current == Min(update.todo)
Ends(result) ==
  update' = [update EXCEPT !.result[Current] = result, !.todo = @ \ {Current},
                           !.at = IF update.todo = {Current} THEN "ended" ELSE "fetch"]

----------------------------------------------------------------------------
(* The update: SyncAllAtWithPreview, SyncAt of one plugin, Sync without plan. *)

\* A planned update of all plugins or of one, or an update of one Git-backed
\* plugin that takes whatever the remote has.
UpdateStarts ==
  /\ At("idle") /\ Event
  /\ \E todo \in {Plugins} \cup {{p} : p \in Plugins}, planned \in BOOLEAN :
       /\ ~planned => Cardinality(todo) = 1 /\ todo \cap Bundled = {}
       /\ update' = [Idle EXCEPT !.at = "lock", !.todo = todo, !.planned = planned]
  /\ UNCHANGED <<upstream, disk, holder, editor, loader, damaged, kept, raced>>

LockRoot ==
  /\ At("lock") /\ holder = "none" /\ holder' = "update"
  /\ Go(IF update.planned THEN "plan" ELSE "fetch")
  /\ kept' = active
  /\ UNCHANGED <<upstream, disk, editor, loader, damaged, raced>> /\ Quiet

\* An error for one plugin ends the update of all before anything changed.
Refuse == update' = [update EXCEPT !.at = "ended", !.result = [p \in Plugins |-> "refused"]]

PlanAll ==
  /\ At("plan")
  /\ \/ update' = [update EXCEPT !.plan = upstream, !.at = "preflight"] /\ Quiet
     \/ Refuse /\ Event
  /\ UNCHANGED <<upstream, disk, holder, editor, loader, damaged, kept, raced>>

PreflightPlans ==
  /\ At("preflight")
  /\ \/ update.todo \cap {p \in Plugins : update.plan[p] \in Broken} = {} /\ Go("fetch") /\ Quiet
     \/ update.todo \cap {p \in Plugins : update.plan[p] \in Broken} # {} /\ Refuse /\ Quiet
     \/ Refuse /\ Event
  /\ UNCHANGED <<upstream, disk, holder, editor, loader, damaged, kept, raced>>

Wanted == IF update.planned THEN update.plan[Current] ELSE upstream[Current]

\* ensureGlobal: a bundled copy that is up to date stays; of one that is half
\* removed the marker may be gone, and then it is left alone.
NextStages ==
  CASE active[Current] = upstream[Current] -> {"prepare"}
    [] active[Current] = Half -> {"prepare", "move"}
    [] OTHER -> {"move"}

\* syncAtRevision: the checkout moves, the manifest is read and the file with
\* its defaults prepared, the tree staged; any of it may fail. A bundled copy
\* that stays only has its defaults written.
Fetch ==
  /\ At("fetch")
  /\ IF Current \in Bundled
     THEN /\ \E next \in NextStages :
               update' = [update EXCEPT !.plan[Current] = upstream[Current], !.at = next]
          /\ checkout' = checkout /\ Quiet
     ELSE \/ Ends("error") /\ checkout' = checkout /\ Event
          \/ /\ checkout' = [checkout EXCEPT ![Current] = Wanted] /\ Quiet
             /\ IF Wanted \in Broken THEN Ends("error")
                ELSE update' = [update EXCEPT !.plan[Current] = Wanted, !.doc = config, !.at = "move"]
          \/ checkout' = [checkout EXCEPT ![Current] = Wanted] /\ Ends("error") /\ Event
  /\ UNCHANGED <<upstream, active, backup, config, holder, editor, loader, damaged, kept, raced>>

\* installTree, replaceActive: the directory in place is renamed away ...
MoveAway ==
  /\ At("move")
  /\ \/ /\ active' = [active EXCEPT ![Current] = NoRevision] /\ Go("activate") /\ Quiet
        /\ backup' = [backup EXCEPT ![Current] = @ \cup ({active[Current]} \cap Revisions)]
     \/ active' = active /\ backup' = backup /\ Ends("error") /\ Event
  /\ UNCHANGED <<upstream, checkout, config, holder, editor, loader, damaged, kept, raced>>

\* What was whole before the update and is no longer in place.
DamagedOne == {Current} \cap {p \in Plugins : kept[p] \in Revisions}

\* The old directory comes back from its backup - or cannot, and the backup stays.
PutBack ==
  LET old == kept[Current]
  IN  \/ /\ active' = [active EXCEPT ![Current] = old]
         /\ backup' = [backup EXCEPT ![Current] = @ \ {old}] /\ damaged' = damaged
      \/ /\ old # NoRevision
         /\ active' = [active EXCEPT ![Current] = NoRevision]
         /\ backup' = backup /\ damaged' = damaged \cup DamagedOne

\* The new directory goes and the old one comes back; where the removal fails,
\* what is left of the new one stays in place, and the backup where it is.
TakeBack ==
  \/ PutBack
  \/ /\ active' = [active EXCEPT ![Current] = Half]
     /\ backup' = backup /\ damaged' = damaged \cup DamagedOne

\* ... and the staged one renamed into its place.
Activate ==
  /\ At("activate")
  /\ \/ /\ active' = [active EXCEPT ![Current] = update.plan[Current]] /\ Quiet
        /\ backup' = backup /\ damaged' = damaged
        /\ Go(IF Current \in Bundled THEN "prepare" ELSE "commit")
     \/ PutBack /\ Ends("error") /\ Event
  /\ UNCHANGED <<upstream, checkout, config, holder, editor, loader, kept, raced>>

\* The defaults of a bundled plugin are read from its active directory.
Prepare ==
  /\ At("prepare") /\ update' = [update EXCEPT !.doc = config, !.at = "commit"]
  /\ UNCHANGED <<upstream, disk, holder, editor, loader, damaged, kept, raced>> /\ Quiet

\* The update has put another directory in place.
Moved == Current \notin Bundled \/ active[Current] # kept[Current]

\* The commit callback writes the file as it was read, with the missing
\* defaults; one that cannot be written takes the activation back.
Commit ==
  /\ At("commit")
  /\ LET r == update.plan[Current]
     IN  \/ /\ config' = IF r \in update.doc[Current].defaults THEN config
                         ELSE [update.doc EXCEPT ![Current].defaults = @ \cup {r}]
            /\ Go("clean") /\ Quiet /\ UNCHANGED <<active, backup, damaged>>
         \/ /\ config' = config /\ Ends("error") /\ Event
            /\ IF Moved THEN TakeBack ELSE UNCHANGED <<active, backup, damaged>>
  /\ UNCHANGED <<upstream, checkout, holder, editor, loader, kept, raced>>

\* The backup goes. Where its removal fails, installTree says nothing, and
\* replaceActive reports the plugin as failed although its new copy is active.
Clean ==
  /\ At("clean")
  /\ \/ Ends("ok") /\ Quiet
     \/ Current \in Bundled /\ Moved /\ kept[Current] # NoRevision /\ Ends("error") /\ Event
  /\ backup' = IF Moved THEN [backup EXCEPT ![Current] = @ \ {kept[Current]}] ELSE backup
  /\ damaged' = IF active[Current] \in Revisions THEN damaged \ {Current} ELSE damaged
  /\ UNCHANGED <<upstream, checkout, active, config, holder, editor, loader, kept, raced>>

UpdateEnds ==
  /\ At("ended") /\ holder' = "none" /\ update' = [update EXCEPT !.at = "idle"]
  /\ kept' = active
  /\ UNCHANGED <<upstream, disk, editor, loader, damaged, raced>> /\ Quiet

UpdateStep == \/ UpdateStarts \/ LockRoot \/ PlanAll \/ PreflightPlans \/ Fetch \/ MoveAway
              \/ Activate \/ Prepare \/ Commit \/ Clean \/ UpdateEnds

----------------------------------------------------------------------------
(* SetEnabled, Trust and Untrust read the file, change their part of it and  *)
(* write it back; none of them holds the root's lock.                        *)

EditorReads ==
  /\ editor.at = "idle" /\ Event
  /\ editor' = [at |-> "read", doc |-> config]
  /\ UNCHANGED <<upstream, disk, holder, update, loader, damaged, kept, raced>>

EditorWrites ==
  /\ editor.at = "read" /\ editor' = [at |-> "idle"]
  /\ \E p \in Plugins : config' = [editor.doc EXCEPT ![p].enabled = ~@]
  /\ raced' = (raced \/ config # editor.doc)
  /\ UNCHANGED <<upstream, checkout, active, backup, holder, update, loader, damaged, kept>> /\ Quiet

----------------------------------------------------------------------------
(* prepareDirectories: an office that starts copies what it will run.        *)

LoadStarts ==
  /\ loader.at = "idle" /\ Event
  /\ loader' = [at |-> "lock", copies |-> active, seen |-> active, todo |-> {}]
  /\ UNCHANGED <<upstream, disk, holder, update, editor, damaged, kept, raced>>

\* mutant: the directories are selected without the lock of their root.
LoadsUnlocked ==
  /\ loader.at = "lock" /\ holder' = holder
  /\ loader' = [loader EXCEPT !.at = "copy", !.todo = Plugins, !.seen = kept]
  /\ UNCHANGED <<upstream, disk, update, editor, damaged, kept, raced>> /\ Quiet

LoadLocks ==
  /\ loader.at = "lock" /\ holder = "none" /\ holder' = "load"
  /\ loader' = [loader EXCEPT !.at = "copy", !.todo = Plugins, !.seen = kept]
  /\ UNCHANGED <<upstream, disk, update, editor, damaged, kept, raced>> /\ Quiet

CopyTree ==
  /\ loader.at = "copy" /\ loader.todo # {}
  /\ LET p == Min(loader.todo)
     IN  loader' = [loader EXCEPT !.copies[p] = active[p], !.todo = @ \ {p}]
  /\ UNCHANGED <<upstream, disk, holder, update, editor, damaged, kept, raced>> /\ Quiet

LoadEnds ==
  /\ loader.at = "copy" /\ loader.todo = {}
  /\ loader' = [loader EXCEPT !.at = "loaded"]
  /\ holder' = IF holder = "load" THEN "none" ELSE holder
  /\ UNCHANGED <<upstream, disk, update, editor, damaged, kept, raced>> /\ Quiet

LoadStep == LoadStarts \/ LoadLocks \/ CopyTree \/ LoadEnds

----------------------------------------------------------------------------
(* The world: new revisions, a new binary, and processes that die.           *)

UpstreamMoves ==
  /\ Event
  /\ \E p \in Plugins :
       /\ upstream[p] + 1 \in Revisions
       /\ p \in Bundled => At("idle") /\ upstream[p] + 1 \notin Broken
       /\ upstream' = [upstream EXCEPT ![p] = @ + 1]
  /\ UNCHANGED <<disk, holder, update, editor, loader, damaged, kept, raced>>

\* The update dies; a removal it was in the middle of has gone half way.
UpdateDies ==
  /\ ~At("idle") /\ Event
  /\ holder' = IF holder = "update" THEN "none" ELSE holder
  /\ \/ UNCHANGED <<active, backup>>
     \/ /\ At("commit") /\ Moved
        /\ active' = [active EXCEPT ![Current] = Half] /\ backup' = backup
     \/ /\ At("clean") /\ Moved /\ active' = active
        /\ backup' = [backup EXCEPT ![Current] = @ \ {kept[Current]}]
  /\ update' = Idle /\ kept' = active'
  /\ damaged' = damaged \cup {p \in Plugins : active'[p] \notin Revisions /\ backup'[p] # {}}
  /\ UNCHANGED <<upstream, checkout, config, editor, loader, raced>>

LoadDies ==
  /\ loader.at \in {"lock", "copy"} /\ Event
  /\ holder' = IF holder = "load" THEN "none" ELSE holder
  /\ loader' = [at |-> "idle", copies |-> active, seen |-> active, todo |-> {}]
  /\ UNCHANGED <<upstream, disk, update, editor, damaged, kept, raced>>

WorldStep == UpstreamMoves \/ UpdateDies \/ LoadDies

Next == UpdateStep \/ EditorReads \/ EditorWrites \/ LoadStep \/ WorldStep

Spec == Init /\ [][Next]_vars

----------------------------------------------------------------------------
HasDefaults(p) == raced \/ active[p] \in config[p].defaults

\* What an update reports is what it did. A refused update changed nothing. A
\* plugin reported updated is at its planned revision and has its defaults,
\* unless it is a bundled one that an earlier failure left half and without its
\* marker, which is left alone. One reported failed is what it was - or, all
\* that the error tells of, its directory could not be put back, a part of the
\* new one could not be removed, or a bundled one is wholly updated and only the
\* backup could not be removed.
ReportIsTrue(p) ==
  LET updated == active[p] = update.plan[p] /\ HasDefaults(p)
  IN  /\ update.result[p] \in {"none", "refused"} => active[p] = kept[p]
      /\ update.result[p] = "ok" => updated \/ (p \in Bundled /\ {active[p], kept[p]} = {Half})
      /\ update.result[p] = "error" =>
           \/ active[p] = kept[p]
           \/ active[p] \notin Revisions /\ (kept[p] \in Revisions => p \in damaged)
           \/ p \in Bundled /\ updated

ReportsAreTrue == At("ended") => \A p \in Plugins : ReportIsTrue(p)

\* A plugin that was installed whole is never lost: its directory is in place,
\* except while an update replaces it and where that was cut short or could not
\* be taken back; then a whole copy is still on disk, though in a backup that
\* no command puts back.
InstalledAreKept ==
  \A p \in Plugins : kept[p] \in Revisions \/ p \in damaged =>
    active[p] \in Revisions \/ backup[p] # {}

\* An office that loads takes every plugin as it was between two updates.
LoadedAreWhole == loader.at = "loaded" => loader.copies = loader.seen

\* An update is all or nothing for each plugin but for the failures that each
\* part names, for those who read its report, for the disk and for the offices
\* that load.
UpdatesAreWhole == ReportsAreTrue /\ InstalledAreKept /\ LoadedAreWhole
=============================================================================
