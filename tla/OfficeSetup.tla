---------------------------- MODULE OfficeSetup ----------------------------
(***************************************************************************)
(* The files an office is made of and the commands that write them: setup  *)
(* of a fresh or an existing office (office/setup.go, cli/setup.go and its  *)
(* wizard), the update that replaces the templates and bundled plugins by   *)
(* those of a newer binary (also offered when omo starts, cli/startup.go),   *)
(* and the user who edits them.                                             *)
(*                                                                         *)
(* A piece of the office is one directory (or the version marker); its      *)
(* content is none, part of the defaults, the defaults of an old or of this  *)
(* binary, or the user's own. Every step may fail and every process die;    *)
(* the lock of the plugins' directory goes with its process.                *)
(***************************************************************************)
EXTENDS Naturals, Sequences, FiniteSets

CONSTANTS
  MaxSetupEvents   \* Bound: what users, failures, new binaries and deaths do.

Templates == {"messages", "prompts"}
Pieces == Templates \cup {"nudge", "tools", "version"}
Contents == {"none", "part", "old", "new", "mine"}

VARIABLES
  content,      \* [Pieces -> Contents]: what is on disk.
  config,       \* omo.yaml: whether it exists, who provides tools, the extra plugin.
  ownTools,     \* Whether the global home provides a plugin named tools.
  globals,      \* Whether the extra plugin is installed below the global home.
  locals,       \* Whether it is installed in the office.
  pluginLock,   \* Who holds .omo/plugins/.update.lock.
  setup,        \* The setup command: where it is, whether the office was fresh, ...
  update,       \* The update: where it is, its item, what it moved and installed.
  before,       \* Ghost: the pieces when the update began to move them.
  spoiled,      \* Ghost: pieces that the last rollback could not put back; the version
                \* marker stays one of them until an update succeeds.
  setupEvents

vars == <<content, config, ownTools, globals, locals, pluginLock, setup, update, before,
          spoiled, setupEvents>>

NoConfig == [exists |-> FALSE, tools |-> "absent", extra |-> FALSE]

TypeOK ==
  /\ content \in [Pieces -> Contents]
  /\ config \in [exists : BOOLEAN, tools : {"absent", "builtin", "other"}, extra : BOOLEAN]
  /\ pluginLock \in {"none", "setup", "update"}
  /\ setup \in [at : {"idle", "global", "marker", "configure", "messages", "prompts", "lock",
                      "nudge", "tools", "record", "version", "overlay", "done", "failed", "marked"},
                fresh : BOOLEAN, extra : {"no", "local", "global"}]
  /\ update.at \in {"idle", "lock", "stage", "aside", "install", "rollback", "finalize",
                    "updated", "failed"}
  /\ spoiled \subseteq Pieces

NoSetup == [at |-> "idle", fresh |-> FALSE, extra |-> "no"]
NoUpdate == [at |-> "idle", items |-> <<>>, item |-> 1, aside |-> [p \in {} |-> "none"],
             installed |-> {}]

\* A directory without an office, with or without files of the user's, or an
\* office of the previous binary, some of whose files the user edited.
Init ==
  /\ \/ /\ config = NoConfig
        /\ content \in [Pieces -> {"none", "mine"}]
        /\ \A p \in {"prompts", "nudge", "version"} : content[p] = "none"
     \/ /\ config = [NoConfig EXCEPT !.exists = TRUE, !.tools = "builtin"]
        /\ content \in [Pieces -> {"old", "mine"}] /\ content["version"] = "old"
  /\ ownTools \in BOOLEAN /\ globals = FALSE /\ locals = FALSE
  /\ pluginLock = "none" /\ setup = NoSetup /\ update = NoUpdate
  /\ before = content /\ spoiled = {} /\ setupEvents = 0

Event == setupEvents < MaxSetupEvents /\ setupEvents' = setupEvents + 1
Quiet == setupEvents' = setupEvents

----------------------------------------------------------------------------
(* Setup.                                                                    *)

Here(step) == setup.at = step
Then(step) == setup' = [setup EXCEPT !.at = step]

\* bundledToolsShouldInstall: tools belong to omo unless the configuration, a
\* directory of that name or the global home says otherwise.
ToolsShouldInstall ==
  CASE config.exists /\ config.tools # "absent" -> config.tools = "builtin"
    [] OTHER -> content["tools"] = "none" /\ ~ownTools

\* mutant: the marker stays when a later step fails.
KeepsMarker ==
  /\ Then("failed") /\ Event
  /\ config' = config
  /\ pluginLock' = IF pluginLock = "setup" THEN "none" ELSE pluginLock

\* The deferred removal of the configuration, which marks an office as set up;
\* when that fails too, setup says that the marker is still there.
SetupFails ==
  /\ Event
  /\ \/ Then("failed") /\ config' = IF setup.fresh THEN NoConfig ELSE config
     \/ setup.fresh /\ config.exists /\ Then("marked") /\ config' = config
  /\ pluginLock' = IF pluginLock = "setup" THEN "none" ELSE pluginLock

\* An office that exists only gets its missing bundled plugins. A fresh one is
\* set up with the choices of the wizard: a recommended plugin for this office
\* or for all of them.
SetupStarts ==
  /\ Here("idle") /\ Event
  /\ IF config.exists
     THEN setup' = [NoSetup EXCEPT !.at = "lock"]
     ELSE /\ update.at = "idle"
          /\ \E extra \in {"no", "local", "global"} :
               setup' = [at |-> IF extra = "global" THEN "global" ELSE "marker",
                         fresh |-> TRUE, extra |-> extra]
  /\ UNCHANGED <<content, config, ownTools, globals, locals, pluginLock, update, before, spoiled>>

\* installGlobalSetupPlugins, before the office has any file.
InstallGlobally ==
  /\ Here("global")
  /\ \/ Then("marker") /\ globals' = TRUE /\ Quiet
     \/ Then("failed") /\ globals' = globals /\ Event
  /\ UNCHANGED <<content, config, ownTools, locals, pluginLock, update, before, spoiled>>

\* The rendered configuration names tools if they will be installed.
WriteMarker ==
  /\ Here("marker")
  /\ \/ /\ config' = [exists |-> TRUE, extra |-> FALSE,
                      tools |-> IF ToolsShouldInstall THEN "builtin" ELSE "absent"]
        /\ Then("configure") /\ pluginLock' = pluginLock /\ Quiet
     \/ SetupFails
  /\ UNCHANGED <<content, ownTools, globals, locals, update, before, spoiled>>

\* The user's partial configuration and the wizard's choices are merged in;
\* either may give tools another source or configure the embedded one.
Configure ==
  /\ Here("configure")
  /\ \/ \E tools \in {config.tools, "builtin", "other"} :
          /\ config' = [config EXCEPT !.tools = tools, !.extra = setup.extra = "local"]
          /\ Then("messages") /\ pluginLock' = pluginLock /\ Quiet
     \/ SetupFails
  /\ UNCHANGED <<content, ownTools, globals, locals, update, before, spoiled>>

\* WriteDefaults fills in the files that are missing and keeps the others.
Filled(p) == IF content[p] \in {"none", "part"} THEN "new" ELSE content[p]

WriteDefaults(p, next) ==
  /\ Here(p)
  /\ \/ /\ content' = [content EXCEPT ![p] = Filled(p)]
        /\ Then(next) /\ Quiet /\ UNCHANGED <<config, pluginLock>>
     \/ /\ content' = [content EXCEPT ![p] = IF @ = "none" THEN "part" ELSE @]
        /\ SetupFails
  /\ UNCHANGED <<ownTools, globals, locals, update, before, spoiled>>

LockPlugins ==
  /\ Here("lock") /\ pluginLock = "none" /\ pluginLock' = "setup" /\ Then("nudge") /\ Quiet
  /\ UNCHANGED <<content, config, ownTools, globals, locals, update, before, spoiled>>

\* A bundled plugin is staged and renamed into place: whole, or not at all.
EnsureNudge ==
  /\ Here("nudge")
  /\ \/ /\ content' = [content EXCEPT !["nudge"] = IF @ = "none" THEN "new" ELSE @]
        /\ Then("tools") /\ Quiet /\ UNCHANGED <<config, pluginLock>>
     \/ content' = content /\ SetupFails
  /\ UNCHANGED <<ownTools, globals, locals, update, before, spoiled>>

Unlock == IF setup.fresh THEN Then("version") ELSE Then("done")

EnsureTools ==
  /\ Here("tools")
  /\ \/ /\ ToolsShouldInstall /\ content["tools"] = "none"
        /\ content' = [content EXCEPT !["tools"] = "new"]
        /\ Then("record") /\ Quiet /\ UNCHANGED <<config, pluginLock>>
     \/ /\ ~(ToolsShouldInstall /\ content["tools"] = "none")
        /\ Unlock /\ pluginLock' = "none" /\ Quiet /\ UNCHANGED <<content, config>>
     \/ content' = content /\ SetupFails
  /\ UNCHANGED <<ownTools, globals, locals, update, before, spoiled>>

\* recordBuiltinTools; where it fails, the new directory is removed again, or
\* what cannot be removed stays.
RecordTools ==
  /\ Here("record")
  /\ \/ /\ config' = [config EXCEPT !.tools = IF @ = "absent" THEN "builtin" ELSE @]
        /\ Unlock /\ pluginLock' = "none" /\ content' = content /\ Quiet
     \/ /\ \E left \in {"none", "part", content["tools"]} : content' = [content EXCEPT !["tools"] = left]
        /\ SetupFails
  /\ UNCHANGED <<ownTools, globals, locals, update, before, spoiled>>

WriteVersion ==
  /\ Here("version")
  /\ \/ /\ content' = [content EXCEPT !["version"] = "new"]
        /\ Then("overlay") /\ Quiet /\ UNCHANGED <<config, pluginLock>>
     \/ content' = content /\ SetupFails
  /\ UNCHANGED <<ownTools, globals, locals, update, before, spoiled>>

\* Template.Apply copies the user's template over what was written; what it
\* copied before it failed stays.
ApplyTemplate ==
  /\ Here("overlay")
  /\ \E copied \in SUBSET Templates :
       content' = [p \in Pieces |-> IF p \in copied THEN "mine" ELSE content[p]]
  /\ \/ Then("done") /\ Quiet /\ UNCHANGED <<config, pluginLock>>
     \/ SetupFails
  /\ UNCHANGED <<ownTools, globals, locals, update, before, spoiled>>

\* installLocalSetupPlugins, after the office is complete; a plugin that cannot
\* be fetched now is fetched by the next start.
SetupEnds ==
  /\ setup.at \in {"done", "failed", "marked"} /\ setup' = NoSetup
  /\ \/ locals' = (locals \/ (Here("done") /\ setup.extra = "local")) /\ Quiet
     \/ Here("done") /\ setup.extra = "local" /\ locals' = locals /\ Event
  /\ UNCHANGED <<content, config, ownTools, globals, pluginLock, update, before, spoiled>>

SetupStep ==
  \/ SetupStarts \/ InstallGlobally \/ WriteMarker \/ Configure
  \/ WriteDefaults("messages", "prompts") \/ WriteDefaults("prompts", "lock")
  \/ LockPlugins \/ EnsureNudge \/ EnsureTools \/ RecordTools
  \/ WriteVersion \/ ApplyTemplate \/ SetupEnds

----------------------------------------------------------------------------
(* The update: everything is staged, then swapped in piece by piece.         *)

At(step) == update.at = step
Goes(step) == update' = [update EXCEPT !.at = step]
Piece == update.items[update.item]

\* mutant: the version marker is replaced before what it vouches for.
MarkerFirst(tools) == <<"version", "messages", "prompts", "nudge">> \o
                      (IF tools THEN <<"tools">> ELSE <<>>)

Replacements(tools) == <<"messages", "prompts", "nudge", "version">> \o
                       (IF tools THEN <<"tools">> ELSE <<>>)

\* setup --update, or the offer of a start that finds another version marker.
UpdateStarts ==
  /\ At("idle") /\ config.exists /\ ~setup.fresh /\ Event
  /\ update' = [NoUpdate EXCEPT !.at = "lock", !.items = Replacements(config.tools = "builtin")]
  /\ UNCHANGED <<content, config, ownTools, globals, locals, pluginLock, setup, before, spoiled>>

UpdateLocks ==
  /\ At("lock") /\ pluginLock = "none" /\ pluginLock' = "update" /\ Goes("stage") /\ Quiet
  /\ UNCHANGED <<content, config, ownTools, globals, locals, setup, before, spoiled>>

Stage ==
  /\ At("stage") /\ before' = content /\ spoiled' = spoiled \cap {"version"}
  /\ \/ Goes("aside") /\ Quiet
     \/ Goes("failed") /\ Event
  /\ UNCHANGED <<content, config, ownTools, globals, locals, pluginLock, setup>>

\* rollback(last): from item last down to the first.
RollBack(last) ==
  update' = [update EXCEPT !.item = last, !.at = IF last = 0 THEN "failed" ELSE "rollback"]

MoveAside ==
  /\ At("aside")
  /\ \/ /\ content' = [content EXCEPT ![Piece] = "none"]
        /\ update' = [update EXCEPT !.at = "install",
                        !.aside = [p \in DOMAIN @ \cup ({Piece} \cap {q \in Pieces : content[q] # "none"})
                                     |-> IF p = Piece THEN content[p] ELSE @[p]]]
        /\ Quiet
     \/ content' = content /\ RollBack(update.item - 1) /\ Event
  /\ UNCHANGED <<config, ownTools, globals, locals, pluginLock, setup, before, spoiled>>

Install ==
  /\ At("install")
  /\ \/ LET last == update.item = Len(update.items)
        IN  /\ content' = [content EXCEPT ![Piece] = "new"]
            /\ update' = [update EXCEPT !.installed = @ \cup {Piece},
                                        !.item = IF last THEN @ ELSE @ + 1,
                                        !.at = IF last THEN "finalize" ELSE "aside"]
            /\ spoiled' = IF last THEN {} ELSE spoiled
            /\ Quiet
     \/ content' = content /\ spoiled' = spoiled /\ RollBack(update.item) /\ Event
  /\ UNCHANGED <<config, ownTools, globals, locals, pluginLock, setup, before>>

\* One item back: what was installed goes, what was moved aside returns. An
\* installed piece whose removal fails is left, whole or in part, and its
\* backup is not put back; a backup that cannot be renamed leaves nothing.
RollBackItem ==
  LET moved == Piece \in DOMAIN update.aside
      installed == Piece \in update.installed
      leaves(what) == /\ content' = [content EXCEPT ![Piece] = what]
                      /\ spoiled' = spoiled \cup {Piece}
  IN  /\ At("rollback") /\ RollBack(update.item - 1) /\ Quiet
      /\ \/ /\ content' = [content EXCEPT ![Piece] = IF moved THEN update.aside[Piece]
                                                     ELSE IF installed THEN "none" ELSE @]
            /\ spoiled' = spoiled
         \/ installed /\ \E what \in {"new", "part"} : leaves(what)
         \/ moved /\ leaves("none")
      /\ UNCHANGED <<config, ownTools, globals, locals, pluginLock, setup, before>>

\* The commit of the replaced files, still under the lock; it may fail and the
\* update stays.
Finalize ==
  /\ At("finalize") /\ Goes("updated") /\ Quiet
  /\ UNCHANGED <<content, config, ownTools, globals, locals, pluginLock, setup, before, spoiled>>

\* The stage is removed, with the backups in it.
UpdateEnds ==
  /\ update.at \in {"updated", "failed"} /\ update' = NoUpdate /\ pluginLock' = "none"
  /\ UNCHANGED <<content, config, ownTools, globals, locals, setup, before, spoiled>> /\ Quiet

UpdateStep == \/ UpdateStarts \/ UpdateLocks \/ Stage \/ MoveAside \/ Install
              \/ RollBackItem \/ Finalize \/ UpdateEnds

----------------------------------------------------------------------------
(* The user, a newer binary, and processes that die.                         *)

\* The user edits, adds or deletes a piece, between the commands.
UserEdits ==
  /\ Here("idle") /\ At("idle") /\ Event
  /\ \E p \in Pieces \ {"version"}, c \in {"none", "mine"} : content' = [content EXCEPT ![p] = c]
  /\ UNCHANGED <<config, ownTools, globals, locals, pluginLock, setup, update, before, spoiled>>

\* What this binary wrote is now what an older one wrote.
NewBinary ==
  /\ Here("idle") /\ At("idle") /\ config.exists /\ Event
  /\ \E p \in Pieces : content[p] = "new"
  /\ content' = [p \in Pieces |-> IF content[p] = "new" THEN "old" ELSE content[p]]
  /\ UNCHANGED <<config, ownTools, globals, locals, pluginLock, setup, update, before, spoiled>>

SetupDies ==
  /\ ~Here("idle") /\ setup' = NoSetup /\ Event
  /\ pluginLock' = IF pluginLock = "setup" THEN "none" ELSE pluginLock
  /\ UNCHANGED <<content, config, ownTools, globals, locals, update, before, spoiled>>

UpdateDies ==
  /\ ~At("idle") /\ update' = NoUpdate /\ Event
  /\ pluginLock' = IF pluginLock = "update" THEN "none" ELSE pluginLock
  /\ UNCHANGED <<content, config, ownTools, globals, locals, setup, before, spoiled>>

Next == SetupStep \/ UpdateStep \/ UserEdits \/ NewBinary \/ SetupDies \/ UpdateDies

Spec == Init /\ [][Next]_vars

----------------------------------------------------------------------------
\* A setup that reports success leaves an office that can start: its marker,
\* whole templates, the nudge plugin, and tools if they are recorded as omo's;
\* one that fails leaves no marker that would keep the next from finishing, or
\* its error says that the marker is still there.
SetupIsWhole ==
  [][/\ ~Here("done") /\ Here("done")' =>
          /\ config'.exists /\ content'["nudge"] # "none"
          /\ config'.tools = "builtin" => content'["tools"] # "none"
          /\ setup.fresh => /\ content'["version"] = "new"
                            /\ \A p \in Templates : content'[p] \in {"new", "mine"}
                            /\ setup.extra = "local" => config'.extra
                            /\ setup.extra = "global" => globals'
     /\ ~Here("failed") /\ Here("failed")' /\ setup.fresh => ~config'.exists]_vars

\* An update replaces every piece or none - none, but for the pieces that its
\* rollback could not put back, whose backups go with the stage.
UpdateIsAtomic ==
  /\ At("failed") => \A p \in Pieces \ spoiled : content[p] = before[p]
  /\ At("updated") => \A i \in DOMAIN update.items : content[update.items[i]] = "new"

\* The version marker, all that a start compares, never calls a directory
\* current that an older binary wrote: not in the middle of an update or of its
\* rollback, and not after either died there - unless a rollback could not
\* remove the new marker, and put the old directories back all the same.
MarkerIsHonest ==
  content["version"] = "new" /\ "version" \notin spoiled => \A p \in Templates \cup {"nudge"} : content[p] # "old"

\* The office's files stay whole across setups, updates, edits, failures and
\* deaths, but for the failures that each part names.
OfficeFilesAreWhole == SetupIsWhole /\ [](UpdateIsAtomic /\ MarkerIsHonest)
=============================================================================
