----------------------------- MODULE PluginLoad -----------------------------
(***************************************************************************)
(* How the plugin manager turns the installation directories of the global *)
(* home and of the office into an ordered set of loaded plugins: the       *)
(* sources shadow each other, the manifests are read and checked, the      *)
(* requirements resolved through the plugins' aliases, the plugins ordered *)
(* and their versions compared, the durable catalog reconciled and the     *)
(* load hooks run (internal/plugins/plugins.go, sources.go, snapshot.go and  *)
(* internal/db/plugin_runtime.go).                                         *)
(*                                                                         *)
(* A plugin is the index of its directory in the order of the names; a     *)
(* name is a number as well, so that the directory i is called i.          *)
(***************************************************************************)
EXTENDS SemVer, FiniteSets, FiniteSetsExt

CONSTANTS
  Dirs,         \* The installation directories, 1..n in the order of names.
  Names,        \* The names manifests and requirements may use; Dirs \subseteq Names.
  Sources,      \* What the two scopes may hold for the last directory.
  MaxRequires,  \* The requirements the last manifest declares, at most.
  Versions,     \* The versions the manifest of the first directory may give.
  Constraints   \* The constraints, as sequences of tokens.

Bundle == Max(Dirs)

VARIABLES
  place,      \* [Dirs -> [global, office]]: what each scope holds.
  manifest,   \* [Dirs -> [name, requires, file, version]]: the plugins' manifests.
  wanted,     \* The version constraint the requirements of this load carry.
  snapshot,   \* The directories of shared sources copied for this runtime.
  phase,      \* Where the load is, or how it ended.
  ready,      \* The plugins all of whose dependencies are placed, by index.
  degree,     \* [Dirs -> Nat]: the dependencies not placed yet.
  ordered,    \* The plugins placed so far.
  catalog,    \* [Names -> state]: the rows of plugin_runtime.
  loadRan     \* The plugins whose load hooks ran, in that order.

inputs == <<place, manifest, wanted>>

vars == <<place, manifest, wanted, snapshot, phase, ready, degree, ordered, catalog, loadRan>>

----------------------------------------------------------------------------
Scope(dir, managed, enabled) == [dir |-> dir, managed |-> managed, enabled |-> enabled]
Unmanaged == [global |-> Scope(FALSE, FALSE, FALSE), office |-> Scope(TRUE, FALSE, FALSE)]

NoVersion == [none |-> TRUE]
NoConstraint == <<>>

(* What the inputs may be: the scopes of the last directory vary, the others *)
(* are unmanaged directories of the office.                                  *)

RequireSets(n) == {R \in SUBSET Names : Cardinality(R) <= n}

Manifest(name, requires, file, version) ==
  [name |-> name, requires |-> requires, file |-> file, version |-> version]

\* The first plugin may go by another name, the last may be managed by either
\* scope, have a broken manifest and need several others.
OrderInputs ==
  /\ wanted = NoConstraint
  /\ \E n \in {1, 2, Max(Names)}, last \in Sources, f \in {"ok", "absent", "invalid"},
       r \in [Dirs -> RequireSets(1)], more \in RequireSets(MaxRequires) :
       /\ r[Bundle] = {}
       /\ place = [d \in Dirs |-> IF d = Bundle THEN last ELSE Unmanaged]
       /\ manifest = [d \in Dirs |->
            Manifest(IF d = 1 THEN n ELSE d, IF d = Bundle THEN more ELSE r[d],
                     IF d = Bundle THEN f ELSE "ok", NoVersion)]

\* The last plugin needs the first in some version.
VersionInputs ==
  /\ place = [d \in Dirs |-> Unmanaged]
  /\ wanted \in Constraints
  /\ \E v \in Versions : manifest = [d \in Dirs |->
       Manifest(d, IF d = Bundle THEN {1} ELSE {}, "ok", IF d = 1 THEN v ELSE NoVersion)]

TypeOK ==
  /\ \A d \in Dirs : place[d] \in Sources \cup {Unmanaged}
  /\ phase \in {"start", "read", "order", "versions", "sync", "emit", "loaded", "failed"}
  /\ snapshot \subseteq Dirs
  /\ ready \in Seq(Dirs) /\ ordered \in Seq(Dirs) /\ loadRan \in Seq(Dirs)
  /\ degree \in [Dirs -> Nat]
  /\ catalog \in [Names -> {"none", "missing", "disabled", "ready", "old"}]

----------------------------------------------------------------------------
(* selectDirectories: the sources in order, the office's after the global    *)
(* home's. A configured plugin takes the name over even where its directory  *)
(* is missing; a directory takes it over with the settings of its own scope. *)

Shadowed(global, office) ==
  CASE office.dir -> [dir |-> TRUE, managed |-> office.managed, enabled |-> office.enabled, shared |-> FALSE]
    [] ~office.dir /\ office.managed -> [dir |-> FALSE, managed |-> TRUE, enabled |-> office.enabled, shared |-> FALSE]
    [] OTHER -> [dir |-> global.dir, managed |-> global.managed, enabled |-> global.enabled, shared |-> global.dir]

Entry(d) == Shadowed(place[d].global, place[d].office)
Selected(d) == Entry(d).dir \/ Entry(d).managed

\* The directories whose manifest is read, and the plugins that become of them.
Considered == {d \in Dirs : Entry(d).dir /\ (Entry(d).managed => Entry(d).enabled)}
Loadable == {d \in Considered : manifest[d].file # "absent"}

Aliases(d) == {d, manifest[d].name}
\* The plugin a requirement resolves to; orderDescriptors makes it unique.
Resolved(n) == {d \in Loadable : n \in Aliases(d)}
Dependencies(d) == UNION {Resolved(n) : n \in manifest[d].requires}

DuplicateName == \E d, e \in Loadable : d # e /\ manifest[d].name = manifest[e].name
MissingNames == {n \in UNION {manifest[d].requires : d \in Loadable} : Resolved(n) = {}}
AmbiguousAlias == \E d, e \in Loadable : d # e /\ Aliases(d) \cap Aliases(e) # {}

\* The rows SyncPluginRuntimes is given: a managed plugin that is not loaded
\* keeps its own name, a loaded one is listed under its manifest's.
Rows == [n \in Names |->
  IF \E d \in Loadable : manifest[d].name = n THEN "ready"
  ELSE IF n \in Dirs /\ Selected(n) /\ Entry(n).managed /\ n \notin Loadable
       THEN (IF Entry(n).enabled THEN "missing" ELSE "disabled")
  ELSE "none"]

Init ==
  /\ OrderInputs \/ VersionInputs
  /\ snapshot = {} /\ phase = "start" /\ ready = <<>> /\ ordered = <<>> /\ loadRan = <<>>
  /\ degree = [d \in Dirs |-> 0]
  /\ catalog = [n \in Names |-> "old"]

----------------------------------------------------------------------------
(* LoadSourcesContextWithOptions, up to the order.                           *)

Shared == {d \in Considered : Entry(d).shared}

Fail == phase' = "failed" /\ snapshot' = {}

Prepare ==
  /\ phase = "start" /\ phase' = "read" /\ snapshot' = Shared
  /\ UNCHANGED <<inputs, ready, degree, ordered, catalog, loadRan>>

Rejected == \/ \E d \in Loadable : manifest[d].file = "invalid"
            \/ DuplicateName
            \/ MissingNames # {}
            \/ AmbiguousAlias

ReadFails ==
  /\ phase = "read" /\ Rejected /\ Fail
  /\ UNCHANGED <<inputs, ready, degree, ordered, catalog, loadRan>>

\* The members of S in the order of their names.
Rising(s) == \A i, j \in DOMAIN s : i < j => s[i] < s[j]
ByIndex(S) == CHOOSE s \in [1..Cardinality(S) -> S] : Rising(s)

ReadManifests ==
  /\ phase = "read" /\ ~Rejected /\ phase' = "order"
  /\ degree' = [d \in Dirs |-> IF d \in Loadable THEN Cardinality(Dependencies(d)) ELSE 0]
  /\ ready' = ByIndex({d \in Loadable : degree'[d] = 0})
  /\ UNCHANGED <<inputs, snapshot, ordered, catalog, loadRan>>

\* mutant: what becomes ready is appended, in the order of the dependents.
PlaceAppended ==
  /\ phase = "order" /\ ready # <<>>
  /\ LET d == Head(ready)
         freed == {e \in Loadable : d \in Dependencies(e)}
     IN  /\ ordered' = Append(ordered, d)
         /\ degree' = [e \in Dirs |-> IF e \in freed THEN degree[e] - 1 ELSE degree[e]]
         /\ ready' = Tail(ready) \o ByIndex({e \in freed : degree'[e] = 0})
  /\ UNCHANGED <<inputs, snapshot, phase, catalog, loadRan>>

(* orderDescriptors: the ready plugin of least index is placed, and those    *)
(* that waited for it alone join the ready ones at the place of their index. *)
Place ==
  /\ phase = "order" /\ ready # <<>>
  /\ LET d == Head(ready)
         freed == {e \in Loadable : d \in Dependencies(e)}
     IN  /\ ordered' = Append(ordered, d)
         /\ degree' = [e \in Dirs |-> IF e \in freed THEN degree[e] - 1 ELSE degree[e]]
         /\ ready' = ByIndex(Range(Tail(ready)) \cup {e \in freed : degree'[e] = 0})
  /\ UNCHANGED <<inputs, snapshot, phase, catalog, loadRan>>

OrderEnds ==
  /\ phase = "order" /\ ready = <<>>
  /\ IF Len(ordered) = Cardinality(Loadable) THEN phase' = "versions" /\ snapshot' = snapshot ELSE Fail
  /\ UNCHANGED <<inputs, ready, degree, ordered, catalog, loadRan>>

(* A requirement that carries a constraint needs a plugin whose manifest has *)
(* a version, and a version that matches.                                    *)
Mismatched ==
  \E d \in Loadable : \E e \in Dependencies(d) :
    /\ wanted # NoConstraint
    /\ \/ manifest[e].version = NoVersion
       \/ ~MatchVersion(wanted, manifest[e].version)

CheckVersions ==
  /\ phase = "versions"
  /\ IF Mismatched THEN Fail ELSE phase' = "sync" /\ snapshot' = snapshot
  /\ UNCHANGED <<inputs, ready, degree, ordered, catalog, loadRan>>

(* SyncPluginRuntimes is one transaction; trimming the logs after it may     *)
(* still fail the load.                                                      *)
Sync ==
  /\ phase = "sync"
  /\ \/ catalog' = Rows /\ phase' = "emit" /\ snapshot' = snapshot
     \/ catalog' \in {catalog, Rows} /\ Fail
  /\ UNCHANGED <<inputs, ready, degree, ordered, loadRan>>

(* The load hooks of one plugin; a hook that fails is logged.                *)
EmitLoad ==
  /\ phase = "emit"
  /\ IF Len(loadRan) < Len(ordered)
     THEN loadRan' = Append(loadRan, ordered[Len(loadRan) + 1]) /\ phase' = phase
     ELSE loadRan' = loadRan /\ phase' = "loaded"
  /\ UNCHANGED <<inputs, snapshot, ready, degree, ordered, catalog>>

Next == Prepare \/ ReadFails \/ ReadManifests \/ Place \/ OrderEnds \/ CheckVersions \/ Sync \/ EmitLoad

Spec == Init /\ [][Next]_vars

----------------------------------------------------------------------------
(* What a load is for, in terms of the inputs alone.                         *)

Cyclic == \E S \in SUBSET Loadable : S # {} /\ \A d \in S : Dependencies(d) \cap S # {}

\* Each plugin comes as early as its dependencies and the names allow.
WellOrdered(s) ==
  /\ Range(s) = Loadable /\ Len(s) = Cardinality(Loadable)
  /\ \A i \in 1..Len(s) :
       LET placed == {s[k] : k \in 1..i - 1}
       IN  s[i] = Min({d \in Loadable \ placed : Dependencies(d) \subseteq placed})

\* The load ends with every plugin that is enabled where it counts, each after
\* the plugins it needs and otherwise in the order of their names; it fails when
\* that is impossible, and a failure leaves no private copy behind and the durable
\* catalog as it was or as the sources say.
InOrder ==
  /\ phase = "loaded" => /\ WellOrdered(ordered) /\ loadRan = ordered
                         /\ snapshot = Shared /\ catalog = Rows
  /\ phase \in {"versions", "sync", "emit"} => ~Cyclic
  /\ phase = "failed" => snapshot = {}
  /\ catalog \in {Rows, [n \in Names |-> "old"]}

\* The plugins that are loaded have the versions that they asked of each other.
VersionsAdmitted ==
  phase = "loaded" /\ wanted # NoConstraint =>
    \A d \in Loadable : \A e \in Dependencies(d) :
      /\ manifest[e].version # NoVersion
      /\ \A i \in 1..Len(wanted) : Admits(wanted[i], manifest[e].version)

LoadIsOrdered == InOrder /\ VersionsAdmitted
=============================================================================
