---------------------------- MODULE HomeFileProofs ----------------------------
(***************************************************************************)
(* Proofs about the files that the program writes, for all values of       *)
(* Home's constants: the program itself, the plugins it manages and the    *)
(* office it sets up and updates.  For each part: its inductive invariant, *)
(* that every step keeps it, and what the part is promised; then           *)
(* FilesAreWhole, which is all three.                                      *)
(***************************************************************************)
EXTENDS Home, FiniteSetTheorems, SequenceTheorems, WellFoundedInduction, TLAPS

-----------------------------------------------------------------------------
(* The program replacing itself.                                            *)

LEMMA SelfMoves ==
  ASSUME [Next]_vars
  PROVE  Self!Next \/ UNCHANGED selfVars
  BY DEF Next, vars, Others

\* What an update knows: from the pin or the answer on, the release it is to
\* install; from the verification on, that the archive holds it.
Knows(u) ==
  /\ updater[u].step \in {"pinning", "fetching", "verifying", "staging", "replacing", "cleared",
                          "aside"} => updater[u].release \in PublishedReleases
  /\ updater[u].step \in {"staging", "replacing", "cleared", "aside"} =>
       updater[u].archive = updater[u].release

\* Once the user's own version is being fetched for an office, that office checks no
\* more; no start comes after such a version.
Pinned(u) ==
  /\ updater[u].kind = "exact" /\ updater[u].office /\ updater[u].step \notin {"looking", "pinning"}
       => ~checks
  /\ updater[u].after => updater[u].kind # "start"

SelfInv ==
  /\ Self!TypeOK
  /\ binary # Self!Broken /\ previous # Self!Broken
  /\ binary = Self!Missing => platform = "windows" /\ (previous \in PublishedReleases \/ discarded)
  /\ asked => ~checks
  /\ \A u \in Updaters : Knows(u) /\ Pinned(u)

\* What a step that ends an update without a trace leaves.
LEMMA EndsKeeps ==
  ASSUME SelfInv, NEW u \in Updaters, Self!Ends(u),
         UNCHANGED <<platform, binary, previous, latest, checks, asked, discarded, selfUpdates>>
  PROVE  SelfInv'
BY DEF SelfInv, Self!TypeOK, Knows, Pinned, Self!Ends, Self!Ended, Self!Missing, Self!Broken

LEMMA SelfStep ==
  ASSUME SelfInv, Self!Next
  PROVE  SelfInv'
<1> USE HomeConstants DEF SelfInv, Self!TypeOK, Knows, Pinned, Self!Missing, Self!Broken
<1>1. CASE Self!Publishes
  BY <1>1 DEF Self!Publishes
<1>2. ASSUME NEW u \in Updaters, NEW kind \in {"start", "newest", "exact"}, NEW office \in BOOLEAN,
             Self!Runs(u, kind, office)
      PROVE  SelfInv'
  BY <1>2 DEF Self!Runs
<1>3. ASSUME NEW u \in Updaters, NEW release \in PublishedReleases, Self!Looks(u, release)
      PROVE  SelfInv'
  <2>1. CASE Self!Ends(u)
    BY <1>3, <2>1, EndsKeeps DEF Self!Looks
  <2>2. CASE updater' = [updater EXCEPT ![u].release = release, ![u].step = "pinning"]
    BY <1>3, <2>2 DEF Self!Looks
  <2>3. CASE updater' = [updater EXCEPT ![u].release = release, ![u].step = "fetching"]
             /\ updater[u].kind # "exact"
    BY <1>3, <2>3 DEF Self!Looks
  <2> QED
    BY <1>3, <2>1, <2>2, <2>3 DEF Self!Looks
<1>4. ASSUME NEW u \in Updaters, NEW archive \in PublishedReleases \cup {Self!Broken},
             Self!Fetches(u, archive)
      PROVE  SelfInv'
  BY <1>4 DEF Self!Fetches
<1>5. ASSUME NEW u \in Updaters, Self!Pins(u) PROVE SelfInv'
  BY <1>5 DEF Self!Pins, Self!Moves, Self!AfterPin
<1>6. ASSUME NEW u \in Updaters, Self!Verifies(u) PROVE SelfInv'
  <2>1. CASE Self!Ends(u)
    BY <1>6, <2>1, EndsKeeps DEF Self!Verifies
  <2>2. CASE Self!Verified(u) /\ updater' = [updater EXCEPT ![u].step = "staging"]
    BY <1>6, <2>2 DEF Self!Verifies, Self!Verified
  <2> QED
    BY <1>6, <2>1, <2>2 DEF Self!Verifies
<1>7. ASSUME NEW u \in Updaters, Self!Stages(u) PROVE SelfInv'
  BY <1>7 DEF Self!Stages, Self!Moves
<1>8. ASSUME NEW u \in Updaters, Self!Renames(u) PROVE SelfInv'
  BY <1>8 DEF Self!Renames, Self!Ends, Self!Ended, Self!AskedBy
<1>9. ASSUME NEW u \in Updaters, Self!ClearsBackup(u) PROVE SelfInv'
  <2>1. CASE previous' = Self!Missing /\ discarded' = (discarded \/ binary = Self!Missing)
    <3>1. discarded' \in BOOLEAN /\ (discarded' <=> discarded \/ binary = Self!Missing)
      BY <2>1
    <3> QED
      BY <1>9, <2>1, <3>1 DEF Self!ClearsBackup, Self!Moves
  <2>2. CASE UNCHANGED <<previous, discarded>>
    BY <1>9, <2>2 DEF Self!ClearsBackup, Self!Moves
  <2> QED
    BY <1>9, <2>1, <2>2 DEF Self!ClearsBackup
<1>10. ASSUME NEW u \in Updaters, Self!MovesAside(u) PROVE SelfInv'
  <2>1. CASE binary = Self!Missing
    BY <1>10, <2>1, EndsKeeps DEF Self!MovesAside
  <2>2. CASE binary # Self!Missing
    BY <1>10, <2>2 DEF Self!MovesAside
  <2> QED
    BY <2>1, <2>2
<1>11. ASSUME NEW u \in Updaters, NEW ok \in BOOLEAN, Self!MovesIn(u, ok) PROVE SelfInv'
  BY <1>11 DEF Self!MovesIn, Self!Ends, Self!Ended, Self!AskedBy
<1>12. ASSUME NEW u \in Updaters, Self!Stops(u) PROVE SelfInv'
  BY <1>12, EndsKeeps DEF Self!Stops
<1> HIDE DEF SelfInv, Self!TypeOK, Knows, Pinned
<1> QED
  BY <1>1, <1>2, <1>3, <1>4, <1>5, <1>6, <1>7, <1>8, <1>9, <1>10, <1>11, <1>12 DEF Self!Next

\* SelfInv holds in every state.
LEMMA SelfCorrect == Spec => []SelfInv
<1>1. Init => SelfInv
  <2> SUFFICES ASSUME Init PROVE SelfInv
    OBVIOUS
  <2>1. Self!Init
    BY DEF Init
  <2>2. Self!TypeOK
    <3>1. MaxSelfUpdates \in Nat
      BY HomeConstants
    <3>2. selfUpdates \in 0 .. MaxSelfUpdates
      BY <2>1, <3>1 DEF Self!Init
    <3>3. /\ {binary, previous} \subseteq PublishedReleases \cup {Self!Missing, Self!Broken}
          /\ latest \in PublishedReleases
          /\ checks \in BOOLEAN /\ asked \in BOOLEAN /\ discarded \in BOOLEAN
          /\ platform \in {"unix", "windows"}
      BY <2>1, HomeConstants DEF Self!Init
    <3> QED
      BY <2>1, <3>2, <3>3 DEF Self!Init, Self!TypeOK, Self!Ended
  <2> QED
    BY <2>1, <2>2, HomeConstants DEF Self!Init, SelfInv, Knows, Pinned, Self!Ended, Self!Missing,
       Self!Broken
<1>2. SelfInv /\ UNCHANGED selfVars => SelfInv'
  BY DEF selfVars, SelfInv, Self!TypeOK, Knows, Pinned
<1>3. SelfInv /\ [Next]_vars => SelfInv'
  BY <1>2, SelfMoves, SelfStep
<1> QED
  BY <1>1, <1>3, PTL DEF Spec

\* Wherever an update ends, the executable is whole and verified, in its place or
\* moved aside (installBinary, replaceExecutable), and no start replaces the
\* version that its user asked for (installSelfUpdate turns the check off first).
THEOREM ExecutablesAreTrue == Spec => [](part = "self" => Self!ExecutableIsTrue)
<1>1. SelfInv => Self!ExecutableIsTrue
  BY DEF SelfInv, Pinned, Self!ExecutableIsTrue, Self!BinaryIsWhole, Self!AskedVersionStays
<1> QED
  BY SelfCorrect, <1>1, PTL

LEMMA SelfTypes == Spec => []Self!TypeOK
<1>1. SelfInv => Self!TypeOK
  BY DEF SelfInv
<1> QED
  BY <1>1, SelfCorrect, PTL

-----------------------------------------------------------------------------
(* Updates of managed plugins.                                              *)

LEMMA UpdatesMoves ==
  ASSUME [Next]_vars
  PROVE  Updates!Next \/ UNCHANGED updatesVars
  BY DEF Next, vars, Others

RevisionOrNone == Revisions \cup {0}
Directories == RevisionOrNone \cup {Updates!Half}
Documents == [Installed -> [enabled : BOOLEAN, defaults : SUBSET Revisions]]
Results == {"none", "ok", "error", "refused"}
Stages == {"idle", "lock", "plan", "preflight", "fetch", "move", "activate", "prepare", "commit",
           "clean", "ended"}

\* The update is at work on the plugin whose turn it is.
Working == pluginUpdate.at \in {"fetch", "move", "activate", "prepare", "commit", "clean"}

DiskTypes ==
  /\ upstream \in [Installed -> Revisions]
  /\ checkout \in [Installed -> RevisionOrNone]
  /\ active \in [Installed -> Directories]
  /\ backup \in [Installed -> SUBSET Revisions]
  /\ pluginConfig \in Documents
  /\ kept \in [Installed -> Directories]
  /\ damaged \subseteq Installed
ProcessTypes ==
  /\ holder \in {"none", "update", "load"}
  /\ pluginUpdate \in [at : Stages, planned : BOOLEAN, todo : SUBSET Installed,
                       plan : [Installed -> RevisionOrNone], doc : Documents,
                       result : [Installed -> Results]]
  /\ loader \in [at : {"idle", "lock", "copy", "loaded"}, copies : [Installed -> Directories],
                 seen : [Installed -> Directories], todo : SUBSET Installed]
  /\ editor.at \in {"idle", "read"} /\ (editor.at = "read" => editor.doc \in Documents)

\* The lock of the root is held by the update or by the office that loads.
RootLocked ==
  /\ holder = "update" <=> pluginUpdate.at \notin {"idle", "lock"}
  /\ holder = "load" <=> loader.at = "copy"

\* The plans are revisions from the moment they are made, and there is something
\* to do until the end.
PlansKnown ==
  /\ pluginUpdate.planned /\ (pluginUpdate.at = "preflight" \/ Working) =>
       \A p \in Installed : pluginUpdate.plan[p] \in Revisions
  /\ pluginUpdate.at \in {"lock", "plan", "preflight"} =>
       /\ pluginUpdate.todo # {}
       /\ \A p \in Installed : pluginUpdate.result[p] = "none"
  /\ Working => pluginUpdate.todo # {}
  /\ pluginUpdate.at \in {"idle", "lock", "plan", "preflight"} => active = kept

\* Nothing has happened to a plugin yet.
Untouched(p) == active[p] = kept[p] /\ pluginUpdate.result[p] = "none"

\* The old directory is in its backup.
SetAside(p) == kept[p] \in Revisions => kept[p] \in backup[p]

\* The plugin whose turn it is, at each stage.
Turn(p) ==
  LET step == pluginUpdate.at
      plan == pluginUpdate.plan[p]
  IN  /\ pluginUpdate.result[p] = "none"
      /\ step = "fetch" => active[p] = kept[p]
      /\ step # "fetch" => plan \in Revisions
      /\ step = "move" => active[p] = kept[p] /\ (p \in Bundled => kept[p] # plan)
      /\ step = "activate" =>
           active[p] = 0 /\ SetAside(p) /\ (p \in Bundled => kept[p] # plan)
      /\ step = "prepare" => p \in Bundled
      /\ step \in {"prepare", "commit", "clean"} =>
           \/ active[p] = plan /\ ((p \in Bundled /\ kept[p] = plan) \/ SetAside(p))
           \/ p \in Bundled /\ active[p] = Updates!Half /\ kept[p] = Updates!Half
      /\ step = "clean" => raced \/ plan \in pluginConfig[p].defaults

\* What is reported of a plugin is so.
Reported(p) == Updates!ReportIsTrue(p)

\* The document that the update has read is the one it will write over.
DocumentFresh ==
  \/ pluginUpdate.at = "commit"
  \/ pluginUpdate.at \in {"move", "activate"} /\ Updates!Current \notin Bundled
  => raced \/ \A p \in Installed : pluginUpdate.doc[p].defaults = pluginConfig[p].defaults

TurnsTaken ==
  /\ Working => /\ Turn(Updates!Current)
                /\ \A p \in pluginUpdate.todo \ {Updates!Current} : Untouched(p)
                /\ \A p \in Installed \ pluginUpdate.todo : Reported(p)
  /\ pluginUpdate.at = "ended" => \A p \in Installed : Reported(p)

\* Something whole is left of an installed plugin.
Left(p) ==
  /\ kept[p] \in Revisions \/ p \in damaged => active[p] \in Revisions \/ backup[p] # {}
  /\ kept[p] \notin Revisions /\ p \in damaged => backup[p] # {}

\* What has been copied is what is active.
CopiedWhole ==
  /\ loader.at = "copy" =>
       loader.seen = active /\ \A p \in Installed \ loader.todo : loader.copies[p] = active[p]
  /\ loader.at = "loaded" => loader.copies = loader.seen

UpdatesInv ==
  /\ DiskTypes /\ ProcessTypes /\ RootLocked /\ PlansKnown /\ DocumentFresh /\ TurnsTaken
  /\ \A p \in Installed : Left(p)
  /\ CopiedWhole

\* No revision is the absent one or the half one.
LEMMA NotRevisions == 0 \notin Revisions /\ Updates!Half \notin Revisions /\ Updates!Half # 0
  BY HomeConstants DEF Updates!Half

\* The plugin whose turn it is is one of those to do.
LEMMA FirstIs ==
  ASSUME NEW T \in SUBSET Installed, T # {}
  PROVE  Updates!Min(T) \in T
<1>1. T \subseteq Nat
  BY HomeConstants
<1>2. PICK k \in T : \A l \in T : ~(<<l, k>> \in OpToRel(<, Nat))
  BY <1>1, NatLessThanWellFounded, WFMin, Zenon
<1>3. ASSUME NEW l \in T PROVE k <= l
  <2>1. k \in Nat /\ l \in Nat /\ ~(<<l, k>> \in OpToRel(<, Nat))
    BY <1>1, <1>2
  <2> QED
    BY <2>1 DEF OpToRel
<1> QED
  BY <1>3 DEF Updates!Min

LEMMA CurrentIs ==
  ASSUME ProcessTypes, pluginUpdate.todo # {}
  PROVE  Updates!Current \in pluginUpdate.todo /\ Updates!Current \in Installed
<1>1. pluginUpdate.todo \in SUBSET Installed
  BY DEF ProcessTypes
<1> QED
  BY <1>1, FirstIs DEF Updates!Current

\* A step that changes nothing of the update, its plugins and its lock, but perhaps
\* the document an editor writes, keeps what is true of the update.
LEMMA UpdateKept ==
  ASSUME UpdatesInv, UNCHANGED <<pluginUpdate, active, backup, kept, damaged>>,
         DiskTypes', ProcessTypes', RootLocked', CopiedWhole',
         raced => raced',
         raced' \/ \A p \in Installed : pluginConfig'[p].defaults = pluginConfig[p].defaults
  PROVE  UpdatesInv'
<1>1. Updates!Current' = Updates!Current
  BY DEF Updates!Current
<1>2. Working' = Working
  BY DEF Working
<1>3. PlansKnown'
  BY DEF UpdatesInv, PlansKnown, Working
<1>4. DocumentFresh'
  BY <1>1 DEF UpdatesInv, DocumentFresh
<1>5. TurnsTaken'
  <2>1. ASSUME NEW p \in Installed, Reported(p) PROVE Reported(p)'
    BY <2>1 DEF Reported, Updates!ReportIsTrue, Updates!HasDefaults, UpdatesInv, DiskTypes
  <2>2. ASSUME NEW p \in Installed, Untouched(p) PROVE Untouched(p)'
    BY <2>2 DEF Untouched
  <2>3. ASSUME NEW p \in Installed, Turn(p) PROVE Turn(p)'
    BY <2>3 DEF Turn, SetAside
  <2>4. Working => Updates!Current \in Installed
    BY CurrentIs DEF UpdatesInv, PlansKnown
  <2>5. pluginUpdate.todo \subseteq Installed
    BY DEF UpdatesInv, ProcessTypes
  <2> QED
    BY <1>1, <1>2, <2>1, <2>2, <2>3, <2>4, <2>5 DEF UpdatesInv, TurnsTaken
<1>6. \A p \in Installed : Left(p)'
  BY DEF UpdatesInv, Left
<1> QED
  BY <1>3, <1>4, <1>5, <1>6 DEF UpdatesInv

\* Editors, loaders and the upstream.
LEMMA EditorStepKeeps ==
  ASSUME UpdatesInv, Updates!EditorReads \/ Updates!EditorWrites
  PROVE  UpdatesInv'
<1> USE DEF Updates!disk
<1>1. CASE Updates!EditorReads
  <2>1. DiskTypes' /\ ProcessTypes' /\ RootLocked' /\ CopiedWhole'
    BY <1>1 DEF Updates!EditorReads, UpdatesInv, DiskTypes, ProcessTypes, RootLocked, CopiedWhole
  <2> QED
    BY <1>1, <2>1, UpdateKept DEF Updates!EditorReads
<1>2. CASE Updates!EditorWrites
  <2> PICK q \in Installed : pluginConfig' = [editor.doc EXCEPT ![q].enabled = ~@]
    BY <1>2 DEF Updates!EditorWrites
  <2>1. editor.doc \in Documents /\ editor' = [at |-> "idle"]
    BY <1>2 DEF Updates!EditorWrites, UpdatesInv, ProcessTypes
  <2>2. pluginConfig' \in Documents
        /\ \A p \in Installed : pluginConfig'[p].defaults = editor.doc[p].defaults
    BY <2>1 DEF Documents
  <2>3. DiskTypes' /\ ProcessTypes' /\ RootLocked' /\ CopiedWhole'
    BY <1>2, <2>1, <2>2 DEF Updates!EditorWrites, UpdatesInv, DiskTypes, ProcessTypes, RootLocked,
       CopiedWhole
  <2>4. raced' = (raced \/ pluginConfig # editor.doc)
    BY <1>2 DEF Updates!EditorWrites
  <2> QED
    BY <1>2, <2>2, <2>3, <2>4, UpdateKept DEF Updates!EditorWrites
<1> QED
  BY <1>1, <1>2

LEMMA LoaderStepKeeps ==
  ASSUME UpdatesInv, Updates!LoadStep \/ Updates!LoadDies \/ Updates!UpstreamMoves
  PROVE  UpdatesInv'
<1> USE DEF Updates!disk
<1>0. /\ UNCHANGED <<pluginUpdate, active, backup, kept, damaged, raced, pluginConfig, checkout,
                    editor>>
      /\ upstream' = upstream \/ Updates!UpstreamMoves
  BY DEF Updates!LoadStep, Updates!LoadDies, Updates!UpstreamMoves, Updates!LoadStarts,
     Updates!LoadLocks, Updates!CopyTree, Updates!LoadEnds
<1>1. DiskTypes'
  <2>1. upstream' \in [Installed -> Revisions]
    BY <1>0 DEF Updates!UpstreamMoves, UpdatesInv, DiskTypes
  <2> QED
    BY <1>0, <2>1 DEF UpdatesInv, DiskTypes
<1>2. ProcessTypes'
  <2>1. CASE Updates!LoadStarts \/ Updates!LoadDies
    BY <1>0, <2>1 DEF Updates!LoadDies, Updates!LoadStarts, UpdatesInv, ProcessTypes, DiskTypes
  <2>2. CASE Updates!LoadLocks \/ Updates!LoadEnds
    BY <1>0, <2>2 DEF Updates!LoadLocks, Updates!LoadEnds, UpdatesInv, ProcessTypes, DiskTypes
  <2>3. CASE Updates!CopyTree
    <3> DEFINE m == Updates!Min(loader.todo)
    <3>1. loader' = [loader EXCEPT !.copies[m] = active[m], !.todo = @ \ {m}] /\ holder' = holder
      BY <2>3 DEF Updates!CopyTree
    <3> HIDE DEF m
    <3>2. m \in Installed => active[m] \in Directories
      BY DEF UpdatesInv, DiskTypes
    <3>3. loader' \in [at : {"idle", "lock", "copy", "loaded"}, copies : [Installed -> Directories],
                       seen : [Installed -> Directories], todo : SUBSET Installed]
      BY <3>1, <3>2 DEF UpdatesInv, ProcessTypes
    <3> QED
      BY <1>0, <3>1, <3>3 DEF UpdatesInv, ProcessTypes
  <2>4. CASE Updates!UpstreamMoves
    BY <1>0, <2>4 DEF Updates!UpstreamMoves, UpdatesInv, ProcessTypes
  <2> QED
    BY <2>1, <2>2, <2>3, <2>4 DEF Updates!LoadStep
<1>3. RootLocked'
  <2>1. CASE Updates!LoadStarts \/ Updates!LoadDies
    BY <1>0, <2>1 DEF Updates!LoadDies, Updates!LoadStarts, UpdatesInv, RootLocked
  <2>2. CASE Updates!LoadLocks \/ Updates!LoadEnds
    BY <1>0, <2>2 DEF Updates!LoadLocks, Updates!LoadEnds, UpdatesInv, ProcessTypes, RootLocked
  <2>3. CASE Updates!CopyTree
    <3> DEFINE m == Updates!Min(loader.todo)
    <3>1. loader' = [loader EXCEPT !.copies[m] = active[m], !.todo = @ \ {m}] /\ holder' = holder
      BY <2>3 DEF Updates!CopyTree
    <3> HIDE DEF m
    <3> QED
      BY <1>0, <3>1 DEF UpdatesInv, ProcessTypes, RootLocked
  <2>4. CASE Updates!UpstreamMoves
    BY <1>0, <2>4 DEF Updates!UpstreamMoves, UpdatesInv, RootLocked
  <2> QED
    BY <2>1, <2>2, <2>3, <2>4 DEF Updates!LoadStep
<1>4. CopiedWhole'
  <2>1. CASE Updates!LoadLocks
    <3>1. active = kept
      BY <2>1 DEF Updates!LoadLocks, UpdatesInv, RootLocked, PlansKnown
    <3> QED
      BY <1>0, <2>1, <3>1 DEF Updates!LoadLocks, UpdatesInv, ProcessTypes, CopiedWhole
  <2>2. CASE Updates!CopyTree
    <3> DEFINE m == Updates!Min(loader.todo)
    <3>1. loader' = [loader EXCEPT !.copies[m] = active[m], !.todo = @ \ {m}] /\ loader.at = "copy"
      BY <2>2 DEF Updates!CopyTree
    <3> HIDE DEF m
    <3> QED
      BY <1>0, <3>1 DEF UpdatesInv, ProcessTypes, CopiedWhole
  <2>3. CASE Updates!LoadEnds
    <3>1. loader.at = "copy" /\ loader.todo = {} /\ loader' = [loader EXCEPT !.at = "loaded"]
      BY <2>3 DEF Updates!LoadEnds
    <3>2. \A p \in Installed : loader.copies[p] = loader.seen[p]
      BY <3>1 DEF UpdatesInv, CopiedWhole
    <3>3. loader.copies = loader.seen
      BY <3>2 DEF UpdatesInv, ProcessTypes
    <3> QED
      BY <3>1, <3>3 DEF UpdatesInv, ProcessTypes, CopiedWhole
  <2>4. CASE Updates!LoadStarts \/ Updates!LoadDies
    BY <2>4 DEF Updates!LoadStarts, Updates!LoadDies, CopiedWhole
  <2>5. CASE Updates!UpstreamMoves
    BY <1>0, <2>5 DEF Updates!UpstreamMoves, UpdatesInv, CopiedWhole
  <2> QED
    BY <2>1, <2>2, <2>3, <2>4, <2>5 DEF Updates!LoadStep
<1> QED
  BY <1>0, <1>1, <1>2, <1>3, <1>4, UpdateKept

\* A step of the update that concerns the plugin whose turn it is.
OnlyCurrent ==
  /\ \A p \in Installed \ {Updates!Current} :
       /\ active'[p] = active[p] /\ backup'[p] = backup[p]
       /\ p \in damaged' <=> p \in damaged
       /\ pluginUpdate'.plan[p] = pluginUpdate.plan[p]
       /\ pluginUpdate'.result[p] = pluginUpdate.result[p]
  /\ raced \/ \A p \in Installed : pluginConfig[p].defaults \subseteq pluginConfig'[p].defaults
  /\ UNCHANGED <<holder, loader, kept, raced>>
  /\ DiskTypes' /\ ProcessTypes'
  /\ \A p \in Installed : p = Updates!Current => Left(p)'

\* Such a step keeps what is true of the other plugins, the lock and the loader.
LEMMA OthersUntouched ==
  ASSUME UpdatesInv, Working, OnlyCurrent
  PROVE  /\ Updates!Current \in pluginUpdate.todo /\ Updates!Current \in Installed
         /\ \A p \in pluginUpdate.todo \ {Updates!Current} : Untouched(p)'
         /\ \A p \in Installed \ pluginUpdate.todo : Reported(p)'
         /\ \A p \in Installed : Left(p)'
         /\ CopiedWhole'
         /\ pluginUpdate'.at \notin {"idle", "lock"} => RootLocked'
<1>1. Updates!Current \in pluginUpdate.todo /\ Updates!Current \in Installed
  BY CurrentIs DEF UpdatesInv, PlansKnown
<1>2. pluginUpdate.todo \subseteq Installed
  BY DEF UpdatesInv, ProcessTypes
<1>3. ASSUME NEW p \in pluginUpdate.todo \ {Updates!Current} PROVE Untouched(p)'
  <2>1. Untouched(p) /\ p \in Installed
    BY <1>2 DEF UpdatesInv, TurnsTaken
  <2> QED
    BY <2>1 DEF OnlyCurrent, Untouched
<1>4. ASSUME NEW p \in Installed \ pluginUpdate.todo PROVE Reported(p)'
  <2>1. Reported(p) /\ p # Updates!Current
    BY <1>1 DEF UpdatesInv, TurnsTaken
  <2>2. raced \/ pluginConfig[p].defaults \subseteq pluginConfig'[p].defaults
    BY DEF OnlyCurrent
  <2> QED
    BY <2>1, <2>2 DEF OnlyCurrent, Reported, Updates!ReportIsTrue, Updates!HasDefaults
<1>5. ASSUME NEW p \in Installed PROVE Left(p)'
  <2>1. CASE p = Updates!Current
    BY <2>1 DEF OnlyCurrent, Left
  <2>2. CASE p # Updates!Current
    BY <2>2 DEF OnlyCurrent, UpdatesInv, Left
  <2> QED
    BY <2>1, <2>2
<1>6. loader.at # "copy" /\ holder = "update"
  BY DEF UpdatesInv, RootLocked, Working
<1> QED
  BY <1>1, <1>3, <1>4, <1>5, <1>6 DEF OnlyCurrent, UpdatesInv, CopiedWhole, RootLocked

\* The turn goes on: the plugin of the turn is as the next stage says.
LEMMA TurnGoesOn ==
  ASSUME UpdatesInv, Working, OnlyCurrent,
         pluginUpdate'.todo = pluginUpdate.todo, pluginUpdate'.planned = pluginUpdate.planned,
         Working', \A p \in Installed : p = Updates!Current => Turn(p)', DocumentFresh',
         pluginUpdate'.plan[Updates!Current] \in Revisions
  PROVE  UpdatesInv'
<1>1. Updates!Current' = Updates!Current
  BY DEF Updates!Current
<1>2. PlansKnown'
  BY OthersUntouched DEF UpdatesInv, PlansKnown, Working, OnlyCurrent
<1>3. TurnsTaken'
  <2>1. /\ \A p \in pluginUpdate'.todo \ {Updates!Current} : Untouched(p)'
        /\ \A p \in Installed \ pluginUpdate'.todo : Reported(p)'
    BY OthersUntouched
  <2>2. pluginUpdate'.at # "ended"
    BY DEF Working
  <2>3. Turn(Updates!Current)'
    BY <1>1, OthersUntouched
  <2> QED
    BY <1>1, <2>1, <2>2, <2>3 DEF TurnsTaken
<1>4. RootLocked'
  BY OthersUntouched DEF Working
<1>5. DiskTypes' /\ ProcessTypes'
  BY DEF OnlyCurrent
<1> QED
  BY <1>2, <1>3, <1>4, <1>5, OthersUntouched DEF UpdatesInv

\* The turn ends: what is reported is so.
LEMMA TurnEnds ==
  ASSUME UpdatesInv, Working, OnlyCurrent, NEW r \in {"ok", "error"},
         pluginUpdate'.todo = pluginUpdate.todo \ {Updates!Current},
         pluginUpdate'.planned = pluginUpdate.planned,
         pluginUpdate'.at = IF pluginUpdate.todo = {Updates!Current} THEN "ended" ELSE "fetch",
         \A p \in Installed : p = Updates!Current => Reported(p)',
         pluginUpdate'.plan = pluginUpdate.plan
  PROVE  UpdatesInv'
<1>1. /\ Updates!Current \in pluginUpdate.todo /\ pluginUpdate.todo \subseteq Installed
      /\ \A p \in pluginUpdate'.todo : Untouched(p)'
      /\ \A p \in Installed \ pluginUpdate'.todo : Reported(p)'
      /\ \A p \in Installed : Left(p)'
      /\ CopiedWhole' /\ RootLocked' /\ DiskTypes' /\ ProcessTypes'
  <2>1. pluginUpdate.todo \subseteq Installed
    BY DEF UpdatesInv, ProcessTypes
  <2>2. \A p \in Installed \ pluginUpdate'.todo : Reported(p)'
    <3>1. ASSUME NEW p \in Installed \ pluginUpdate'.todo, p # Updates!Current PROVE Reported(p)'
      BY <3>1, OthersUntouched
    <3> QED
      BY <3>1
  <2>3. pluginUpdate'.at \notin {"idle", "lock"}
    OBVIOUS
  <2> QED
    BY <2>1, <2>2, <2>3, OthersUntouched DEF OnlyCurrent
<1>2. CASE pluginUpdate.todo = {Updates!Current}
  <2>1. pluginUpdate'.todo = {} /\ pluginUpdate'.at = "ended"
    BY <1>2
  <2> QED
    BY <1>1, <2>1 DEF UpdatesInv, PlansKnown, Working, DocumentFresh, TurnsTaken
<1>3. CASE pluginUpdate.todo # {Updates!Current}
  <2>1. pluginUpdate'.todo # {} /\ pluginUpdate'.at = "fetch"
    BY <1>1, <1>3
  <2>2. Updates!Current' \in pluginUpdate'.todo
    BY <1>1, <2>1, FirstIs DEF Updates!Current
  <2>3. Turn(Updates!Current)'
    <3>1. Untouched(Updates!Current)'
      BY <1>1, <2>2
    <3> QED
      BY <2>1, <3>1 DEF Turn, Untouched
  <2>4. Working'
    BY <2>1 DEF Working
  <2>5. TurnsTaken'
    BY <1>1, <2>1, <2>3 DEF TurnsTaken
  <2>6. PlansKnown'
    BY <2>1, <2>4 DEF UpdatesInv, PlansKnown
  <2> QED
    BY <1>1, <2>1, <2>5, <2>6 DEF UpdatesInv, DocumentFresh
<1> QED
  BY <1>2, <1>3

\* The record of the update when a turn ends, and when it goes on.
UpdateRecords ==
  [at : Stages, planned : BOOLEAN, todo : SUBSET Installed, plan : [Installed -> RevisionOrNone],
   doc : Documents, result : [Installed -> Results]]

LEMMA EndsIs ==
  ASSUME UpdatesInv, NEW r \in {"ok", "error"}, Updates!Ends(r)
  PROVE  /\ pluginUpdate'.todo = pluginUpdate.todo \ {Updates!Current}
         /\ pluginUpdate'.planned = pluginUpdate.planned /\ pluginUpdate'.plan = pluginUpdate.plan
         /\ pluginUpdate'.at = IF pluginUpdate.todo = {Updates!Current} THEN "ended" ELSE "fetch"
         /\ Updates!Current \in Installed => pluginUpdate'.result[Updates!Current] = r
         /\ \A p \in Installed \ {Updates!Current} :
              pluginUpdate'.result[p] = pluginUpdate.result[p]
         /\ pluginUpdate' \in UpdateRecords
<1>1. pluginUpdate \in UpdateRecords
  BY DEF UpdatesInv, ProcessTypes, UpdateRecords
<1>2. pluginUpdate' = [pluginUpdate EXCEPT !.result[Updates!Current] = r,
                         !.todo = @ \ {Updates!Current},
                         !.at = IF pluginUpdate.todo = {Updates!Current} THEN "ended" ELSE "fetch"]
  BY DEF Updates!Ends
<1> QED
  BY <1>1, <1>2 DEF UpdateRecords, Stages, Results

\* What is known of the plugin at the beginning of a step.
LEMMA AtWork ==
  ASSUME UpdatesInv, Working
  PROVE  /\ Updates!Current \in pluginUpdate.todo /\ Updates!Current \in Installed
         /\ Turn(Updates!Current) /\ Left(Updates!Current)
         /\ pluginUpdate \in UpdateRecords /\ DiskTypes /\ ProcessTypes
  BY CurrentIs DEF UpdatesInv, PlansKnown, TurnsTaken, ProcessTypes, UpdateRecords

\* A turn that ends in an error before anything was moved.
LEMMA TurnFails ==
  ASSUME UpdatesInv, pluginUpdate.at \in {"fetch", "move"}, Updates!Ends("error"),
         UNCHANGED <<upstream, active, backup, pluginConfig, holder, editor, loader, damaged, kept,
                     raced>>,
         checkout' \in [Installed -> RevisionOrNone]
  PROVE  UpdatesInv'
<1>0. Working
  BY DEF Working
<1>1. OnlyCurrent
  <2>1. DiskTypes' /\ ProcessTypes'
    BY EndsIs DEF UpdatesInv, DiskTypes, ProcessTypes, UpdateRecords
  <2>2. \A p \in Installed : p = Updates!Current => Left(p)'
    BY DEF UpdatesInv, Left
  <2> QED
    BY <2>1, <2>2, EndsIs DEF OnlyCurrent
<1>2. \A p \in Installed : p = Updates!Current => Reported(p)'
  BY <1>0, AtWork, EndsIs DEF Turn, Reported, Updates!ReportIsTrue
<1> QED
  BY <1>0, <1>1, <1>2, EndsIs, TurnEnds

LEMMA FetchKeeps ==
  ASSUME UpdatesInv, Updates!Fetch
  PROVE  UpdatesInv'
<1> DEFINE c == Updates!Current
<1>0. /\ pluginUpdate.at = "fetch"
      /\ UNCHANGED <<upstream, active, backup, pluginConfig, holder, editor, loader, damaged, kept, raced>>
  BY DEF Updates!Fetch, Updates!At
<1>1. Working
  BY <1>0 DEF Working
<1>2. /\ c \in Installed /\ c \in pluginUpdate.todo /\ Turn(c) /\ pluginUpdate \in UpdateRecords
      /\ DiskTypes /\ ProcessTypes /\ upstream[c] \in Revisions
  BY <1>1, AtWork DEF DiskTypes
<1>3. CASE c \in Bundled
  <2>1. PICK next \in Updates!NextStages :
          /\ pluginUpdate' = [pluginUpdate EXCEPT !.plan[c] = upstream[c], !.at = next]
          /\ checkout' = checkout
    BY <1>3 DEF Updates!Fetch
  <2>a. /\ next \in {"prepare", "move"}
        /\ next = "prepare" => active[c] = upstream[c] \/ active[c] = Updates!Half
        /\ next = "move" => active[c] # upstream[c]
    BY <1>2, NotRevisions DEF Updates!NextStages
  <2>2. /\ pluginUpdate'.plan[c] = upstream[c] /\ pluginUpdate'.todo = pluginUpdate.todo
        /\ pluginUpdate'.planned = pluginUpdate.planned
        /\ pluginUpdate'.result = pluginUpdate.result
        /\ pluginUpdate'.at = next
        /\ \A p \in Installed \ {c} : pluginUpdate'.plan[p] = pluginUpdate.plan[p]
        /\ pluginUpdate' \in UpdateRecords
    BY <1>2, <2>1, <2>a DEF UpdateRecords, Stages, RevisionOrNone
  <2>3. Updates!Current' = Updates!Current
    BY <2>2 DEF Updates!Current
  <2> HIDE DEF c
  <2>4. \A p \in Installed : p = c => Turn(p)'
    BY <1>0, <1>2, <1>3, <2>a, <2>2 DEF Turn, SetAside, DiskTypes
  <2>5. OnlyCurrent
    BY <1>0, <1>2, <2>1, <2>2 DEF OnlyCurrent, c, DiskTypes, ProcessTypes, UpdateRecords, UpdatesInv, Left
  <2>6. DocumentFresh'
    BY <1>3, <2>a, <2>2, <2>3 DEF DocumentFresh, c
  <2>7. Working'
    BY <2>a, <2>2 DEF Working
  <2> QED
    BY <1>1, <1>2, <2>2, <2>4, <2>5, <2>6, <2>7, TurnGoesOn DEF c
<1>4. CASE c \notin Bundled
  <2>1. CASE Updates!Ends("error") /\ (checkout' = checkout \/ checkout' = [checkout EXCEPT ![c] = Updates!Wanted])
    <3>1. Updates!Wanted \in Revisions
      BY <1>1, <1>2 DEF Updates!Wanted, UpdatesInv, PlansKnown
    <3>2. checkout' \in [Installed -> RevisionOrNone]
      BY <1>2, <2>1, <3>1 DEF DiskTypes, RevisionOrNone
    <3> QED
      BY <1>0, <2>1, <3>2, TurnFails
  <2>2. CASE /\ pluginUpdate' = [pluginUpdate EXCEPT !.plan[c] = Updates!Wanted, !.doc = pluginConfig,
                                                     !.at = "move"]
             /\ checkout' = [checkout EXCEPT ![c] = Updates!Wanted]
    <3> DEFINE w == Updates!Wanted
    <3>1. w \in Revisions
      BY <1>1, <1>2 DEF Updates!Wanted, UpdatesInv, PlansKnown
    <3> HIDE DEF w
    <3>2. /\ pluginUpdate'.plan[c] = w /\ pluginUpdate'.todo = pluginUpdate.todo
          /\ pluginUpdate'.planned = pluginUpdate.planned
          /\ pluginUpdate'.result = pluginUpdate.result
          /\ pluginUpdate'.at = "move" /\ pluginUpdate'.doc = pluginConfig
          /\ \A p \in Installed \ {c} : pluginUpdate'.plan[p] = pluginUpdate.plan[p]
          /\ pluginUpdate' \in UpdateRecords
      BY <1>2, <2>2, <3>1 DEF UpdateRecords, Stages, RevisionOrNone, DiskTypes, w
    <3>3. Updates!Current' = Updates!Current
      BY <3>2 DEF Updates!Current
    <3>4. checkout' \in [Installed -> RevisionOrNone]
      BY <1>2, <2>2, <3>1 DEF DiskTypes, RevisionOrNone, w
    <3> HIDE DEF c
    <3>5. \A p \in Installed : p = c => Turn(p)'
      BY <1>0, <1>2, <1>4, <3>1, <3>2 DEF Turn, SetAside, DiskTypes
    <3>6. OnlyCurrent
      BY <1>0, <1>2, <3>2, <3>4 DEF OnlyCurrent, c, DiskTypes, ProcessTypes, UpdateRecords, UpdatesInv, Left
    <3>7. DocumentFresh'
      BY <1>0, <3>2, <3>3 DEF DocumentFresh, c
    <3>8. Working'
      BY <3>2 DEF Working
    <3> QED
      BY <1>1, <1>2, <3>1, <3>2, <3>5, <3>6, <3>7, <3>8, TurnGoesOn DEF c
  <2> QED
    BY <1>4, <2>1, <2>2 DEF Updates!Fetch
<1> QED
  BY <1>3, <1>4

LEMMA MoveAwayKeeps ==
  ASSUME UpdatesInv, Updates!MoveAway
  PROVE  UpdatesInv'
<1> DEFINE c == Updates!Current
<1>0. /\ pluginUpdate.at = "move"
      /\ UNCHANGED <<upstream, checkout, pluginConfig, holder, editor, loader, damaged, kept, raced>>
  BY DEF Updates!MoveAway, Updates!At
<1>1. Working
  BY <1>0 DEF Working
<1>2. /\ c \in Installed /\ c \in pluginUpdate.todo /\ Turn(c) /\ pluginUpdate \in UpdateRecords
      /\ DiskTypes /\ ProcessTypes /\ Left(c)
  BY <1>1, AtWork
<1>3. CASE active' = active /\ backup' = backup /\ Updates!Ends("error")
  BY <1>0, <1>2, <1>3, TurnFails DEF DiskTypes
<1>4. CASE /\ active' = [active EXCEPT ![c] = 0] /\ Updates!Go("activate")
           /\ backup' = [backup EXCEPT ![c] = @ \cup ({active[c]} \cap Revisions)]
  <2> HIDE DEF c
  <2>1. /\ pluginUpdate' = [pluginUpdate EXCEPT !.at = "activate"]
        /\ pluginUpdate' \in UpdateRecords
    BY <1>2, <1>4 DEF Updates!Go, UpdateRecords, Stages
  <2>2. /\ pluginUpdate'.plan = pluginUpdate.plan /\ pluginUpdate'.todo = pluginUpdate.todo
        /\ pluginUpdate'.planned = pluginUpdate.planned /\ pluginUpdate'.doc = pluginUpdate.doc
        /\ pluginUpdate'.result = pluginUpdate.result /\ pluginUpdate'.at = "activate"
    BY <1>2, <2>1 DEF UpdateRecords
  <2>3. Updates!Current' = Updates!Current
    BY <2>2 DEF Updates!Current
  <2>4. /\ active' \in [Installed -> Directories] /\ backup' \in [Installed -> SUBSET Revisions]
        /\ active'[c] = 0 /\ backup'[c] = backup[c] \cup ({active[c]} \cap Revisions)
        /\ \A p \in Installed \ {c} : active'[p] = active[p] /\ backup'[p] = backup[p]
    BY <1>2, <1>4 DEF DiskTypes, Directories, RevisionOrNone
  <2>5. active[c] = kept[c] /\ kept[c] \in Directories
    BY <1>0, <1>2 DEF Turn, DiskTypes
  <2>6. \A p \in Installed : p = c => Turn(p)'
    BY <1>0, <1>2, <2>2, <2>4, <2>5 DEF Turn, SetAside, RevisionOrNone
  <2>7. \A p \in Installed : p = c => Left(p)'
    BY <1>0, <1>2, <2>4, <2>5 DEF Left
  <2>8. DiskTypes' /\ ProcessTypes'
    BY <1>0, <1>2, <2>1, <2>4 DEF DiskTypes, ProcessTypes, UpdateRecords
  <2>9. OnlyCurrent
    BY <1>0, <2>2, <2>4, <2>7, <2>8 DEF OnlyCurrent, c
  <2>10. DocumentFresh'
    BY <1>0, <2>2, <2>3 DEF UpdatesInv, DocumentFresh, c
  <2>11. Working'
    BY <2>2 DEF Working
  <2>12. pluginUpdate'.plan[c] \in Revisions
    BY <1>0, <1>2, <2>2 DEF Turn
  <2> QED
    BY <1>1, <2>2, <2>6, <2>9, <2>10, <2>11, <2>12, TurnGoesOn DEF c
<1>5. \/ active' = active /\ backup' = backup /\ Updates!Ends("error")
      \/ /\ active' = [active EXCEPT ![c] = 0] /\ Updates!Go("activate")
         /\ backup' = [backup EXCEPT ![c] = @ \cup ({active[c]} \cap Revisions)]
  BY DEF Updates!MoveAway, Updates!NoRevision
<1> QED
  BY <1>3, <1>4, <1>5

\* What a failed turn leaves: the plugin is what it was, or it is not whole and
\* counted among the damaged if it was.
TakenBack ==
  /\ active' \in [Installed -> Directories] /\ backup' \in [Installed -> SUBSET Revisions]
  /\ damaged' \subseteq Installed
  /\ \A p \in Installed \ {Updates!Current} :
       /\ active'[p] = active[p] /\ backup'[p] = backup[p]
       /\ p \in damaged' <=> p \in damaged
  /\ \A p \in Installed : p = Updates!Current =>
       /\ active'[p] = kept[p] \/ (active'[p] \notin Revisions /\ (kept[p] \in Revisions => p \in damaged'))
       /\ kept[p] \in Revisions \/ p \in damaged' => active'[p] \in Revisions \/ backup'[p] # {}
       /\ kept[p] \notin Revisions /\ p \in damaged' => backup'[p] # {}

\* The old directory is back ...
LEMMA BackIs ==
  ASSUME UpdatesInv, Working,
         active' = [active EXCEPT ![Updates!Current] = kept[Updates!Current]],
         backup' = [backup EXCEPT ![Updates!Current] = @ \ {kept[Updates!Current]}],
         damaged' = damaged
  PROVE  TakenBack
<1> DEFINE c == Updates!Current
<1>1. /\ c \in Installed /\ Left(c) /\ DiskTypes /\ kept[c] \in Directories
  BY AtWork DEF DiskTypes
<1>2. kept[c] \notin Revisions => backup[c] \ {kept[c]} = backup[c]
  BY <1>1 DEF DiskTypes
<1>3. /\ active' = [active EXCEPT ![c] = kept[c]]
      /\ backup' = [backup EXCEPT ![c] = @ \ {kept[c]}]
  OBVIOUS
<1> HIDE DEF c
<1>4. /\ active' \in [Installed -> Directories] /\ backup' \in [Installed -> SUBSET Revisions]
      /\ active'[c] = kept[c] /\ backup'[c] = backup[c] \ {kept[c]}
      /\ \A p \in Installed \ {c} : active'[p] = active[p] /\ backup'[p] = backup[p]
  BY <1>1, <1>3 DEF DiskTypes
<1> QED
  BY <1>1, <1>2, <1>4 DEF DiskTypes, Left, TakenBack, c

\* ... or is still in its backup, and nothing or a half one in its place.
LEMMA NotBackIs ==
  ASSUME UpdatesInv, Working, SetAside(Updates!Current), NEW d \in {0, Updates!Half},
         active' = [active EXCEPT ![Updates!Current] = d], backup' = backup,
         damaged' = damaged \cup Updates!DamagedOne
  PROVE  TakenBack
<1> DEFINE c == Updates!Current
<1>1. /\ c \in Installed /\ Left(c) /\ DiskTypes /\ kept[c] \in Directories
  BY AtWork DEF DiskTypes
<1>2. kept[c] \in Revisions => backup[c] # {}
  BY DEF SetAside
<1>3. /\ active' = [active EXCEPT ![c] = d]
      /\ damaged' = damaged \cup ({c} \cap {p \in Installed : kept[p] \in Revisions})
  BY DEF Updates!DamagedOne
<1> HIDE DEF c
<1>4. /\ active' \in [Installed -> Directories] /\ active'[c] = d
      /\ \A p \in Installed \ {c} : active'[p] = active[p]
  BY <1>1, <1>3 DEF DiskTypes, Directories, RevisionOrNone
<1>5. active'[c] \notin Revisions
  BY <1>4, NotRevisions
<1> QED
  BY <1>1, <1>2, <1>3, <1>4, <1>5 DEF DiskTypes, Left, TakenBack, c

LEMMA PutBackIs ==
  ASSUME UpdatesInv, Working, Updates!PutBack \/ Updates!TakeBack, SetAside(Updates!Current)
  PROVE  TakenBack
<1>1. \/ /\ active' = [active EXCEPT ![Updates!Current] = kept[Updates!Current]]
         /\ backup' = [backup EXCEPT ![Updates!Current] = @ \ {kept[Updates!Current]}]
         /\ damaged' = damaged
      \/ /\ active' = [active EXCEPT ![Updates!Current] = 0] /\ backup' = backup
         /\ damaged' = damaged \cup Updates!DamagedOne
      \/ /\ active' = [active EXCEPT ![Updates!Current] = Updates!Half] /\ backup' = backup
         /\ damaged' = damaged \cup Updates!DamagedOne
  BY DEF Updates!PutBack, Updates!TakeBack, Updates!NoRevision
<1> QED
  BY <1>1, BackIs, NotBackIs

\* A turn that ends in an error with what it had moved put back.
LEMMA TurnRestored ==
  ASSUME UpdatesInv, Working, Updates!PutBack \/ Updates!TakeBack, SetAside(Updates!Current), Updates!Ends("error"),
         UNCHANGED <<upstream, checkout, pluginConfig, holder, editor, loader, kept, raced>>
  PROVE  UpdatesInv'
<1>0. TakenBack
  BY PutBackIs
<1>1. DiskTypes' /\ ProcessTypes'
  BY <1>0, EndsIs DEF TakenBack, UpdatesInv, DiskTypes, ProcessTypes, UpdateRecords
<1>2. \A p \in Installed : p = Updates!Current => Left(p)'
  BY <1>0 DEF TakenBack, Left
<1>3. OnlyCurrent
  BY <1>0, <1>1, <1>2, EndsIs DEF TakenBack, OnlyCurrent
<1>4. \A p \in Installed : p = Updates!Current => Reported(p)'
  BY <1>0, AtWork, EndsIs DEF TakenBack, Reported, Updates!ReportIsTrue
<1> QED
  BY <1>3, <1>4, EndsIs, TurnEnds

LEMMA ActivateKeeps ==
  ASSUME UpdatesInv, Updates!Activate
  PROVE  UpdatesInv'
<1> DEFINE c == Updates!Current
<1>0. /\ pluginUpdate.at = "activate"
      /\ UNCHANGED <<upstream, checkout, pluginConfig, holder, editor, loader, kept, raced>>
  BY DEF Updates!Activate, Updates!At
<1>1. Working
  BY <1>0 DEF Working
<1>2. /\ c \in Installed /\ c \in pluginUpdate.todo /\ Turn(c) /\ pluginUpdate \in UpdateRecords
      /\ DiskTypes /\ ProcessTypes /\ Left(c)
  BY <1>1, AtWork
<1>3. SetAside(c) /\ pluginUpdate.plan[c] \in Revisions
  BY <1>0, <1>2 DEF Turn
<1>4. CASE Updates!PutBack /\ Updates!Ends("error")
  BY <1>0, <1>1, <1>3, <1>4, TurnRestored
<1>5. CASE /\ active' = [active EXCEPT ![c] = pluginUpdate.plan[c]]
           /\ backup' = backup /\ damaged' = damaged
           /\ Updates!Go(IF c \in Bundled THEN "prepare" ELSE "commit")
  <2> HIDE DEF c
  <2>1. /\ pluginUpdate' = [pluginUpdate EXCEPT !.at = IF c \in Bundled THEN "prepare" ELSE "commit"]
        /\ pluginUpdate' \in UpdateRecords
    BY <1>2, <1>5 DEF Updates!Go, UpdateRecords, Stages
  <2>2. /\ pluginUpdate'.plan = pluginUpdate.plan /\ pluginUpdate'.todo = pluginUpdate.todo
        /\ pluginUpdate'.planned = pluginUpdate.planned /\ pluginUpdate'.doc = pluginUpdate.doc
        /\ pluginUpdate'.result = pluginUpdate.result
        /\ pluginUpdate'.at = IF c \in Bundled THEN "prepare" ELSE "commit"
    BY <1>2, <2>1 DEF UpdateRecords
  <2>3. Updates!Current' = Updates!Current
    BY <2>2 DEF Updates!Current
  <2>4. /\ active' \in [Installed -> Directories]
        /\ active'[c] = pluginUpdate.plan[c] /\ active'[c] \in Revisions
        /\ \A p \in Installed \ {c} : active'[p] = active[p]
    BY <1>2, <1>3, <1>5, NotRevisions DEF DiskTypes, Directories, RevisionOrNone
  <2>6. \A p \in Installed : p = c => Turn(p)'
    BY <1>0, <1>2, <1>3, <1>5, <2>2, <2>4 DEF Turn, SetAside
  <2>7. \A p \in Installed : p = c => Left(p)'
    BY <1>0, <1>2, <1>5, <2>4 DEF Left
  <2>8. DiskTypes' /\ ProcessTypes'
    BY <1>0, <1>2, <1>5, <2>1, <2>4 DEF DiskTypes, ProcessTypes, UpdateRecords
  <2>9. OnlyCurrent
    BY <1>0, <1>5, <2>2, <2>4, <2>7, <2>8 DEF OnlyCurrent, c
  <2>10. DocumentFresh'
    <3>1. CASE c \in Bundled
      BY <2>2, <2>3, <3>1 DEF DocumentFresh, c
    <3>2. CASE c \notin Bundled
      BY <1>0, <2>2, <2>3, <3>2 DEF UpdatesInv, DocumentFresh, c
    <3> QED
      BY <3>1, <3>2
  <2>11. Working'
    BY <2>2 DEF Working
  <2>12. pluginUpdate'.plan[c] \in Revisions
    BY <1>3, <2>2
  <2> QED
    BY <1>1, <2>2, <2>6, <2>9, <2>10, <2>11, <2>12, TurnGoesOn DEF c
<1> QED
  BY <1>4, <1>5 DEF Updates!Activate

LEMMA PrepareKeeps ==
  ASSUME UpdatesInv, Updates!Prepare
  PROVE  UpdatesInv'
<1> DEFINE c == Updates!Current
<1>0. /\ pluginUpdate.at = "prepare"
      /\ pluginUpdate' = [pluginUpdate EXCEPT !.doc = pluginConfig, !.at = "commit"]
      /\ UNCHANGED <<upstream, checkout, active, backup, pluginConfig, holder, editor, loader,
                    damaged, kept, raced>>
  BY DEF Updates!Prepare, Updates!At, Updates!disk
<1>1. Working
  BY <1>0 DEF Working
<1>2. /\ c \in Installed /\ c \in pluginUpdate.todo /\ Turn(c) /\ pluginUpdate \in UpdateRecords
      /\ DiskTypes /\ ProcessTypes /\ Left(c)
  BY <1>1, AtWork
<1> HIDE DEF c
<1>3. /\ pluginUpdate'.plan = pluginUpdate.plan /\ pluginUpdate'.todo = pluginUpdate.todo
      /\ pluginUpdate'.planned = pluginUpdate.planned /\ pluginUpdate'.doc = pluginConfig
      /\ pluginUpdate'.result = pluginUpdate.result /\ pluginUpdate'.at = "commit"
      /\ pluginUpdate' \in UpdateRecords
  BY <1>0, <1>2 DEF UpdateRecords, Stages, DiskTypes
<1>4. \A p \in Installed : p = c => Turn(p)' /\ Left(p)'
  BY <1>0, <1>2, <1>3 DEF Turn, SetAside, Left
<1>5. DiskTypes' /\ ProcessTypes'
  BY <1>0, <1>2, <1>3 DEF DiskTypes, ProcessTypes, UpdateRecords
<1>6. OnlyCurrent
  BY <1>0, <1>3, <1>4, <1>5 DEF OnlyCurrent, c
<1>7. DocumentFresh'
  BY <1>0, <1>3 DEF DocumentFresh
<1>8. Working'
  BY <1>3 DEF Working
<1>9. pluginUpdate'.plan[c] \in Revisions
  BY <1>0, <1>2, <1>3 DEF Turn
<1> QED
  BY <1>1, <1>3, <1>4, <1>6, <1>7, <1>8, <1>9, TurnGoesOn DEF c

\* The document that is written has the defaults of the one in place.
LEMMA WrittenIs ==
  ASSUME UpdatesInv, pluginUpdate.at = "commit",
         pluginConfig' = IF pluginUpdate.plan[Updates!Current]
                              \in pluginUpdate.doc[Updates!Current].defaults
                         THEN pluginConfig
                         ELSE [pluginUpdate.doc EXCEPT ![Updates!Current].defaults =
                                 @ \cup {pluginUpdate.plan[Updates!Current]}]
  PROVE  /\ pluginConfig' \in Documents
         /\ raced \/ \A p \in Installed : pluginConfig[p].defaults \subseteq pluginConfig'[p].defaults
         /\ \A p \in Installed : p = Updates!Current =>
              raced \/ pluginUpdate.plan[p] \in pluginConfig'[p].defaults
<1> DEFINE c == Updates!Current
<1>1. Working
  BY DEF Working
<1>2. /\ c \in Installed /\ Turn(c) /\ DiskTypes /\ ProcessTypes
  BY <1>1, AtWork
<1> HIDE DEF c
<1>3. pluginUpdate.plan[c] \in Revisions
  BY <1>2 DEF Turn
<1>4. raced \/ \A p \in Installed : pluginUpdate.doc[p].defaults = pluginConfig[p].defaults
  BY DEF UpdatesInv, DocumentFresh
<1>5. CASE pluginUpdate.plan[c] \in pluginUpdate.doc[c].defaults
  <2>1. pluginConfig' = pluginConfig
    BY <1>5 DEF c
  <2> QED
    BY <1>2, <1>4, <1>5, <2>1 DEF DiskTypes, c
<1>6. CASE pluginUpdate.plan[c] \notin pluginUpdate.doc[c].defaults
  <2>1. pluginConfig' = [pluginUpdate.doc EXCEPT ![c].defaults = @ \cup {pluginUpdate.plan[c]}]
    BY <1>6 DEF c
  <2>2. pluginUpdate.doc \in Documents
    BY <1>2 DEF ProcessTypes
  <2> DEFINE d == pluginUpdate.doc
  <2>3. /\ d \in [Installed -> [enabled : BOOLEAN, defaults : SUBSET Revisions]]
        /\ pluginConfig' = [d EXCEPT ![c] = [d[c] EXCEPT !.defaults = @ \cup {pluginUpdate.plan[c]}]]
    BY <2>1, <2>2 DEF Documents
  <2> HIDE DEF d
  <2>4. /\ [d[c] EXCEPT !.defaults = @ \cup {pluginUpdate.plan[c]}]
              \in [enabled : BOOLEAN, defaults : SUBSET Revisions]
        /\ [d[c] EXCEPT !.defaults = @ \cup {pluginUpdate.plan[c]}].defaults
             = d[c].defaults \cup {pluginUpdate.plan[c]}
    BY <1>2, <1>3, <2>3
  <2>5. pluginConfig' \in Documents
        /\ pluginConfig'[c].defaults = d[c].defaults \cup {pluginUpdate.plan[c]}
        /\ \A p \in Installed \ {c} : pluginConfig'[p] = d[p]
    BY <1>2, <2>3, <2>4 DEF Documents
  <2>6. raced \/ \A p \in Installed : pluginConfig[p].defaults \subseteq pluginConfig'[p].defaults
    BY <1>4, <2>5 DEF d
  <2> QED
    BY <1>2, <2>5, <2>6 DEF c
<1> QED
  BY <1>5, <1>6

\* What has been moved is in place, and the old one in its backup.
LEMMA MovedIs ==
  ASSUME UpdatesInv, Updates!Moved, pluginUpdate.at \in {"commit", "clean"}
  PROVE  /\ SetAside(Updates!Current) /\ active[Updates!Current] = pluginUpdate.plan[Updates!Current]
         /\ active[Updates!Current] \in Revisions
<1>1. Working
  BY DEF Working
<1> QED
  BY <1>1, AtWork DEF Turn, Updates!Moved

LEMMA CommitKeeps ==
  ASSUME UpdatesInv, Updates!Commit
  PROVE  UpdatesInv'
<1> DEFINE c == Updates!Current
<1>0. /\ pluginUpdate.at = "commit"
      /\ UNCHANGED <<upstream, checkout, holder, editor, loader, kept, raced>>
  BY DEF Updates!Commit, Updates!At
<1>1. Working
  BY <1>0 DEF Working
<1>2. /\ c \in Installed /\ c \in pluginUpdate.todo /\ Turn(c) /\ pluginUpdate \in UpdateRecords
      /\ DiskTypes /\ ProcessTypes /\ Left(c)
  BY <1>1, AtWork
<1>3. CASE /\ pluginConfig' = IF pluginUpdate.plan[c] \in pluginUpdate.doc[c].defaults THEN pluginConfig
                              ELSE [pluginUpdate.doc EXCEPT ![c].defaults =
                                      @ \cup {pluginUpdate.plan[c]}]
           /\ Updates!Go("clean") /\ UNCHANGED <<active, backup, damaged>>
  <2>0. /\ pluginConfig' \in Documents
        /\ raced \/ \A p \in Installed : pluginConfig[p].defaults \subseteq pluginConfig'[p].defaults
        /\ \A p \in Installed : p = c => raced \/ pluginUpdate.plan[p] \in pluginConfig'[p].defaults
    BY <1>0, <1>3, WrittenIs
  <2>1. /\ pluginUpdate' = [pluginUpdate EXCEPT !.at = "clean"]
        /\ UNCHANGED <<active, backup, damaged>>
    BY <1>3 DEF Updates!Go
  <2> HIDE DEF c
  <2>2. /\ pluginUpdate'.plan = pluginUpdate.plan /\ pluginUpdate'.todo = pluginUpdate.todo
        /\ pluginUpdate'.planned = pluginUpdate.planned /\ pluginUpdate'.doc = pluginUpdate.doc
        /\ pluginUpdate'.result = pluginUpdate.result /\ pluginUpdate'.at = "clean"
        /\ pluginUpdate' \in UpdateRecords
    BY <1>2, <2>1 DEF UpdateRecords, Stages
  <2>3. \A p \in Installed : p = c => Turn(p)'
    BY <1>0, <1>2, <2>0, <2>1, <2>2 DEF Turn, SetAside
  <2>4. \A p \in Installed : p = c => Left(p)'
    BY <1>0, <1>2, <2>1 DEF Left
  <2>5. DiskTypes' /\ ProcessTypes'
    BY <1>0, <1>2, <2>0, <2>1, <2>2 DEF DiskTypes, ProcessTypes, UpdateRecords
  <2>6. OnlyCurrent
    BY <1>0, <2>0, <2>1, <2>2, <2>4, <2>5 DEF OnlyCurrent, c
  <2>7. DocumentFresh'
    BY <2>2 DEF DocumentFresh
  <2>8. Working'
    BY <2>2 DEF Working
  <2>9. pluginUpdate'.plan[c] \in Revisions
    BY <1>0, <1>2, <2>2 DEF Turn
  <2> QED
    BY <1>1, <2>2, <2>3, <2>6, <2>7, <2>8, <2>9, TurnGoesOn DEF c
<1>4. CASE pluginConfig' = pluginConfig /\ Updates!Ends("error")
           /\ ~Updates!Moved /\ UNCHANGED <<active, backup, damaged>>
  <2>1. DiskTypes' /\ ProcessTypes'
    BY <1>0, <1>2, <1>4, EndsIs DEF DiskTypes, ProcessTypes, UpdateRecords
  <2>2. OnlyCurrent
    BY <1>0, <1>2, <1>4, <2>1, EndsIs DEF OnlyCurrent, Left
  <2>3. \A p \in Installed : p = Updates!Current => Reported(p)'
    BY <1>0, <1>2, <1>4, EndsIs DEF Reported, Updates!ReportIsTrue, Updates!Moved
  <2> QED
    BY <1>1, <1>4, <2>2, <2>3, EndsIs, TurnEnds
<1>5. CASE pluginConfig' = pluginConfig /\ Updates!Ends("error") /\ Updates!Moved /\ Updates!TakeBack
  <2>1. SetAside(c)
    BY <1>0, <1>5, MovedIs DEF c
  <2> QED
    BY <1>0, <1>1, <1>5, <2>1, TurnRestored
<1>6. \/ /\ pluginConfig' = IF pluginUpdate.plan[c] \in pluginUpdate.doc[c].defaults THEN pluginConfig
                            ELSE [pluginUpdate.doc EXCEPT ![c].defaults = @ \cup {pluginUpdate.plan[c]}]
         /\ Updates!Go("clean") /\ UNCHANGED <<active, backup, damaged>>
      \/ /\ pluginConfig' = pluginConfig /\ Updates!Ends("error")
         /\ IF Updates!Moved THEN Updates!TakeBack ELSE UNCHANGED <<active, backup, damaged>>
  BY DEF Updates!Commit
<1> HIDE DEF c
<1> QED
  BY <1>3, <1>4, <1>5, <1>6

LEMMA CleanKeeps ==
  ASSUME UpdatesInv, Updates!Clean
  PROVE  UpdatesInv'
<1> DEFINE c == Updates!Current
<1>0. /\ pluginUpdate.at = "clean"
      /\ \/ Updates!Ends("ok")
         \/ c \in Bundled /\ Updates!Moved /\ Updates!Ends("error")
      /\ backup' = IF Updates!Moved THEN [backup EXCEPT ![c] = @ \ {kept[c]}] ELSE backup
      /\ damaged' = IF active[c] \in Revisions THEN damaged \ {c} ELSE damaged
      /\ UNCHANGED <<upstream, checkout, active, pluginConfig, holder, editor, loader, kept, raced>>
  BY DEF Updates!Clean, Updates!At
<1>1. Working
  BY <1>0 DEF Working
<1>2. /\ c \in Installed /\ c \in pluginUpdate.todo /\ Turn(c) /\ pluginUpdate \in UpdateRecords
      /\ DiskTypes /\ ProcessTypes /\ Left(c)
  BY <1>1, AtWork
<1>3. Updates!Moved => active[c] = pluginUpdate.plan[c] /\ active[c] \in Revisions
  BY <1>0, MovedIs DEF c
<1>4. /\ backup' \in [Installed -> SUBSET Revisions]
      /\ ~Updates!Moved => backup' = backup
      /\ \A p \in Installed \ {c} : backup'[p] = backup[p]
      /\ damaged' \subseteq Installed
  <2> HIDE DEF c
  <2> QED
    BY <1>0, <1>2 DEF DiskTypes
<1>5. DiskTypes' /\ ProcessTypes'
  BY <1>0, <1>2, <1>4, EndsIs DEF DiskTypes, ProcessTypes, UpdateRecords
<1>6. \A p \in Installed : p = c => Left(p)'
  BY <1>0, <1>2, <1>3, <1>4 DEF Left
<1>7. OnlyCurrent
  BY <1>0, <1>4, <1>5, <1>6, EndsIs DEF OnlyCurrent
<1>8. \A p \in Installed : p = c => Reported(p)'
  <2>1. /\ active'[c] = active[c] /\ kept'[c] = kept[c] /\ pluginUpdate'.plan[c] = pluginUpdate.plan[c]
        /\ raced' \/ pluginUpdate.plan[c] \in pluginConfig'[c].defaults
    BY <1>0, <1>2, EndsIs DEF Turn
  <2>2. \/ active[c] = pluginUpdate.plan[c]
        \/ c \in Bundled /\ active[c] = Updates!Half /\ kept[c] = Updates!Half
    BY <1>0, <1>2 DEF Turn
  <2>3. CASE Updates!Ends("ok")
    <3>1. pluginUpdate'.result[c] = "ok"
      BY <1>2, <2>3, EndsIs
    <3> QED
      BY <2>1, <2>2, <3>1 DEF Reported, Updates!ReportIsTrue, Updates!HasDefaults
  <2>4. CASE c \in Bundled /\ Updates!Moved /\ Updates!Ends("error")
    <3>1. pluginUpdate'.result[c] = "error"
      BY <1>2, <2>4, EndsIs
    <3> QED
      BY <1>3, <2>1, <2>4, <3>1 DEF Reported, Updates!ReportIsTrue, Updates!HasDefaults
  <2> QED
    BY <1>0, <2>3, <2>4
<1> QED
  BY <1>0, <1>1, <1>7, <1>8, EndsIs, TurnEnds

\* A step of the update before its first turn, or after its last, leaves the disk alone.
LEMMA UpdateOpens ==
  ASSUME UpdatesInv, Updates!UpdateStarts \/ Updates!LockRoot \/ Updates!PlanAll \/ Updates!PreflightPlans
  PROVE  UpdatesInv'
<1> USE DEF Updates!disk, Updates!At, Updates!Go
<1>0. /\ UNCHANGED <<upstream, checkout, active, backup, pluginConfig, editor, loader, damaged, raced>>
      /\ pluginUpdate.at \in {"idle", "lock", "plan", "preflight"}
  BY DEF Updates!UpdateStarts, Updates!LockRoot, Updates!PlanAll, Updates!PreflightPlans
<1>1. active = kept /\ kept' = kept
  BY <1>0 DEF UpdatesInv, PlansKnown, Updates!UpdateStarts, Updates!LockRoot, Updates!PlanAll,
     Updates!PreflightPlans
<1>2. /\ pluginUpdate \in UpdateRecords /\ DiskTypes /\ ProcessTypes /\ RootLocked
      /\ CopiedWhole /\ \A p \in Installed : Left(p)
  BY DEF UpdatesInv, ProcessTypes, UpdateRecords
<1>3. DiskTypes'
  BY <1>0, <1>1, <1>2 DEF DiskTypes
<1>4. CopiedWhole'
  BY <1>0, <1>2 DEF CopiedWhole
<1>5. \A p \in Installed : Left(p)'
  BY <1>0, <1>1, <1>2 DEF Left
<1>6. CASE Updates!UpdateStarts
  <2>1. PICK todo \in {Installed} \cup {{p} : p \in Installed}, planned \in BOOLEAN :
          pluginUpdate' = [Updates!Idle EXCEPT !.at = "lock", !.todo = todo, !.planned = planned]
    BY <1>6 DEF Updates!UpdateStarts
  <2>2. todo \subseteq Installed /\ todo # {}
    BY HomeConstants
  <2>3. /\ pluginUpdate' \in UpdateRecords /\ pluginUpdate'.at = "lock" /\ pluginUpdate'.todo = todo
        /\ \A p \in Installed : pluginUpdate'.result[p] = "none"
        /\ holder' = holder /\ pluginUpdate.at = "idle"
    BY <1>2, <1>6, <2>1, <2>2 DEF Updates!Idle, UpdateRecords, Stages, Results, RevisionOrNone,
       DiskTypes, Updates!UpdateStarts, Updates!NoRevision
  <2>4. ProcessTypes' /\ RootLocked'
    BY <1>0, <1>2, <2>3 DEF ProcessTypes, RootLocked, UpdateRecords
  <2>5. PlansKnown' /\ DocumentFresh' /\ TurnsTaken'
    BY <1>0, <1>1, <2>2, <2>3 DEF PlansKnown, DocumentFresh, TurnsTaken, Working
  <2> QED
    BY <1>3, <1>4, <1>5, <2>4, <2>5 DEF UpdatesInv
<1>7. CASE \/ Updates!LockRoot \/ Updates!PlanAll \/ Updates!PreflightPlans
  <2>1. /\ pluginUpdate.todo # {} /\ pluginUpdate.todo \subseteq Installed
        /\ \A p \in Installed : pluginUpdate.result[p] = "none"
    BY <1>7 DEF UpdatesInv, PlansKnown, ProcessTypes, Updates!LockRoot, Updates!PlanAll,
       Updates!PreflightPlans
  <2>2. /\ holder' = "update"
        /\ \/ /\ pluginUpdate' = [pluginUpdate EXCEPT !.at = IF pluginUpdate.planned THEN "plan" ELSE "fetch"]
              /\ pluginUpdate.at = "lock"
           \/ pluginUpdate' = [pluginUpdate EXCEPT !.plan = upstream, !.at = "preflight"]
           \/ pluginUpdate' = [pluginUpdate EXCEPT !.at = "fetch"] /\ pluginUpdate.at = "preflight"
           \/ Updates!Refuse
    BY <1>2, <1>7 DEF RootLocked, Updates!LockRoot, Updates!PlanAll, Updates!PreflightPlans
  <2>3. loader.at # "copy"
    BY <1>2, <1>7 DEF RootLocked, Updates!LockRoot, Updates!PlanAll, Updates!PreflightPlans
  <2>4. CASE Updates!Refuse
    <3>1. /\ pluginUpdate' \in UpdateRecords /\ pluginUpdate'.at = "ended"
          /\ \A p \in Installed : pluginUpdate'.result[p] = "refused"
      BY <1>2, <2>4 DEF Updates!Refuse, UpdateRecords, Stages, Results
    <3>2. ProcessTypes' /\ RootLocked'
      BY <1>0, <1>2, <2>2, <2>3, <3>1 DEF ProcessTypes, RootLocked, UpdateRecords
    <3>3. PlansKnown' /\ DocumentFresh' /\ TurnsTaken'
      BY <1>0, <1>1, <3>1 DEF PlansKnown, DocumentFresh, TurnsTaken, Working, Reported,
         Updates!ReportIsTrue
    <3> QED
      BY <1>3, <1>4, <1>5, <3>2, <3>3 DEF UpdatesInv
  <2>5. CASE ~Updates!Refuse
    <3>1. /\ pluginUpdate' \in UpdateRecords /\ pluginUpdate'.todo = pluginUpdate.todo
          /\ pluginUpdate'.result = pluginUpdate.result
          /\ pluginUpdate'.at \in {"plan", "preflight", "fetch"}
          /\ pluginUpdate'.planned = pluginUpdate.planned
      BY <1>2, <2>2, <2>5 DEF UpdateRecords, Stages, DiskTypes, RevisionOrNone
    <3>2. ProcessTypes' /\ RootLocked'
      BY <1>0, <1>2, <2>2, <2>3, <3>1 DEF ProcessTypes, RootLocked, UpdateRecords
    <3>3. pluginUpdate'.planned /\ pluginUpdate'.at \in {"preflight", "fetch"} =>
            \A p \in Installed : pluginUpdate'.plan[p] \in Revisions
      BY <1>2, <2>2, <2>5 DEF UpdatesInv, PlansKnown, DiskTypes, UpdateRecords
    <3>4. PlansKnown'
      BY <1>0, <1>1, <2>1, <3>1, <3>3 DEF PlansKnown, Working
    <3>5. Updates!Current' \in Installed
      BY <2>1, <3>1, FirstIs DEF Updates!Current
    <3>6. TurnsTaken'
      <4>1. \A p \in Installed : Untouched(p)' /\ Reported(p)'
        BY <1>0, <1>1, <2>1, <3>1 DEF Untouched, Reported, Updates!ReportIsTrue
      <4>2. pluginUpdate'.at = "fetch" => Turn(Updates!Current)'
        BY <1>0, <1>1, <2>1, <3>1, <3>5 DEF Turn
      <4> QED
        BY <2>1, <3>1, <4>1, <4>2 DEF TurnsTaken, Working
    <3>7. DocumentFresh'
      BY <3>1 DEF DocumentFresh
    <3> QED
      BY <1>3, <1>4, <1>5, <3>2, <3>4, <3>6, <3>7 DEF UpdatesInv
  <2> QED
    BY <2>4, <2>5
<1> QED
  BY <1>6, <1>7

\* An update that dies may leave a half directory or lose a backup it was removing.
LEMMA DeathIs ==
  ASSUME UpdatesInv, Updates!UpdateDies
  PROVE  /\ active' \in [Installed -> Directories] /\ backup' \in [Installed -> SUBSET Revisions]
         /\ loader.at = "copy" => active' = active
         /\ \A p \in Installed : active'[p] \in Revisions \/ (p \in damaged => backup'[p] # {})
<1> DEFINE c == Updates!Current
<1>0. /\ DiskTypes /\ RootLocked /\ \A p \in Installed : Left(p)
      /\ \A p \in Installed : SetAside(p) /\ kept[p] \in Revisions => backup[p] # {}
  BY DEF UpdatesInv, SetAside
<1>1. CASE UNCHANGED <<active, backup>>
  BY <1>0, <1>1 DEF DiskTypes, Left
<1>2. CASE /\ pluginUpdate.at = "commit" /\ Updates!Moved
           /\ active' = [active EXCEPT ![c] = Updates!Half] /\ backup' = backup
  <2>1. SetAside(c) /\ c \in Installed
    BY <1>2, MovedIs, AtWork DEF Working, c
  <2>2. loader.at # "copy"
    BY <1>0, <1>2 DEF RootLocked
  <2> HIDE DEF c
  <2>3. /\ active' \in [Installed -> Directories]
        /\ \A p \in Installed \ {c} : active'[p] = active[p]
    BY <1>0, <1>2, <2>1 DEF DiskTypes, Directories
  <2> QED
    BY <1>0, <1>2, <2>1, <2>2, <2>3 DEF DiskTypes, Left
<1>3. CASE /\ pluginUpdate.at = "clean" /\ Updates!Moved /\ active' = active
           /\ backup' = [backup EXCEPT ![c] = @ \ {kept[c]}]
  <2>1. active[c] \in Revisions /\ c \in Installed
    BY <1>3, MovedIs, AtWork DEF Working, c
  <2> HIDE DEF c
  <2>2. /\ backup' \in [Installed -> SUBSET Revisions]
        /\ \A p \in Installed \ {c} : backup'[p] = backup[p]
    BY <1>0, <1>3, <2>1 DEF DiskTypes
  <2> QED
    BY <1>0, <1>3, <2>1, <2>2 DEF DiskTypes, Left
<1> QED
  BY <1>1, <1>2, <1>3 DEF Updates!UpdateDies, Updates!At

LEMMA UpdateCloses ==
  ASSUME UpdatesInv, Updates!UpdateEnds \/ Updates!UpdateDies
  PROVE  UpdatesInv'
<1> USE DEF Updates!disk, Updates!At
<1>0. /\ UNCHANGED <<upstream, checkout, pluginConfig, editor, loader, raced>>
      /\ kept' = active'
      /\ holder' = IF holder = "update" THEN "none" ELSE holder
  BY DEF Updates!UpdateEnds, Updates!UpdateDies, UpdatesInv, RootLocked
<1>1. /\ pluginUpdate \in UpdateRecords /\ DiskTypes /\ ProcessTypes /\ RootLocked
      /\ CopiedWhole /\ \A p \in Installed : Left(p)
  BY DEF UpdatesInv, ProcessTypes, UpdateRecords
<1>2. pluginUpdate' \in UpdateRecords /\ pluginUpdate'.at = "idle"
  <2>1. CASE Updates!UpdateEnds
    BY <1>1, <2>1 DEF Updates!UpdateEnds, UpdateRecords, Stages
  <2>2. CASE Updates!UpdateDies
    BY <1>1, <2>2 DEF Updates!UpdateDies, Updates!Idle, UpdateRecords, Stages, Results, RevisionOrNone,
       DiskTypes, Updates!NoRevision
  <2> QED
    BY <2>1, <2>2
<1>3. /\ active' \in [Installed -> Directories] /\ backup' \in [Installed -> SUBSET Revisions]
      /\ damaged' \subseteq Installed
      /\ loader.at = "copy" => active' = active
      /\ \A p \in Installed : Left(p)'
  <2>1. CASE Updates!UpdateEnds
    BY <1>0, <1>1, <2>1 DEF Updates!UpdateEnds, DiskTypes, Left
  <2>2. CASE Updates!UpdateDies
    <3>1. damaged' = damaged \cup {p \in Installed : active'[p] \notin Revisions /\ backup'[p] # {}}
      BY <2>2 DEF Updates!UpdateDies
    <3> QED
      BY <1>0, <1>1, <2>2, <3>1, DeathIs DEF DiskTypes, Left
  <2> QED
    BY <2>1, <2>2
<1>4. DiskTypes'
  BY <1>0, <1>1, <1>3 DEF DiskTypes
<1>5. ProcessTypes' /\ RootLocked'
  BY <1>0, <1>1, <1>2 DEF ProcessTypes, RootLocked, UpdateRecords
<1>7. CopiedWhole'
  BY <1>0, <1>1, <1>3 DEF CopiedWhole
<1>8. PlansKnown' /\ DocumentFresh' /\ TurnsTaken'
  BY <1>0, <1>2 DEF PlansKnown, DocumentFresh, TurnsTaken, Working
<1> QED
  BY <1>3, <1>4, <1>5, <1>7, <1>8 DEF UpdatesInv

LEMMA UpdatesStep ==
  ASSUME UpdatesInv, [Next]_vars
  PROVE  UpdatesInv'
<1>1. CASE Updates!UpdateStep
  BY <1>1, UpdateOpens, UpdateCloses, FetchKeeps, MoveAwayKeeps, ActivateKeeps, PrepareKeeps,
     CommitKeeps, CleanKeeps DEF Updates!UpdateStep
<1>2. CASE Updates!EditorReads \/ Updates!EditorWrites \/ Updates!LoadStep \/ Updates!WorldStep
  BY <1>2, EditorStepKeeps, LoaderStepKeeps, UpdateCloses DEF Updates!WorldStep
<1>3. CASE UNCHANGED updatesVars
  <2>1. DiskTypes' /\ ProcessTypes' /\ RootLocked' /\ CopiedWhole'
    BY <1>3 DEF updatesVars, UpdatesInv, DiskTypes, ProcessTypes, RootLocked, CopiedWhole
  <2> QED
    BY <1>3, <2>1, UpdateKept DEF updatesVars
<1> QED
  BY <1>1, <1>2, <1>3, UpdatesMoves DEF Updates!Next

LEMMA UpdatesBegin == Init => UpdatesInv
<1> SUFFICES ASSUME Updates!Init PROVE UpdatesInv
  BY DEF Init
<1>1. DiskTypes
  BY HomeConstants DEF Updates!Init, DiskTypes, Directories, RevisionOrNone, Documents, Updates!NoRevision
<1>2. ProcessTypes
  BY <1>1 DEF Updates!Init, ProcessTypes, DiskTypes, Updates!Idle, Stages, Results,
     RevisionOrNone, Updates!NoRevision
<1>3. pluginUpdate.at = "idle" /\ loader.at = "idle" /\ active = kept /\ holder = "none"
  BY DEF Updates!Init, Updates!Idle
<1>4. \A p \in Installed : Left(p)
  BY <1>1, <1>3 DEF Updates!Init, Left
<1> QED
  BY <1>1, <1>2, <1>3, <1>4 DEF UpdatesInv, RootLocked, PlansKnown, DocumentFresh, TurnsTaken,
     CopiedWhole, Working

LEMMA UpdatesCorrect == Spec => []UpdatesInv
<1>1. UpdatesInv /\ [Next]_vars => UpdatesInv'
  BY UpdatesStep
<1> QED
  BY <1>1, UpdatesBegin, PTL DEF Spec

LEMMA UpdatesTypes == Spec => []Updates!TypeOK
<1>1. UpdatesInv => Updates!TypeOK
  BY DEF UpdatesInv, DiskTypes, ProcessTypes, Updates!TypeOK, Updates!NoRevision, Directories,
     RevisionOrNone, Documents, Stages
<1> QED
  BY <1>1, UpdatesCorrect, PTL

\* An update is all or nothing for each plugin but for the failures it names
\* (SyncAllAtWithPreview, installTree, replaceActive, commitConfig,
\* prepareDirectories), for any plugins and revisions: what it reports is what
\* it did, up to a directory that could not be put back and the failed removal
\* of a backup; a plugin that was whole stays whole on disk, in place or in a
\* backup; an office that loads takes what was there between two updates.
THEOREM UpdatesAreTrue == Spec => [](part = "updates" => Updates!UpdatesAreWhole)
<1>1. UpdatesInv => Updates!UpdatesAreWhole
  <2> SUFFICES ASSUME UpdatesInv PROVE Updates!UpdatesAreWhole
    OBVIOUS
  <2>1. Updates!ReportsAreTrue
    BY DEF UpdatesInv, TurnsTaken, Reported, Updates!ReportsAreTrue, Updates!At
  <2>2. Updates!InstalledAreKept
    BY DEF UpdatesInv, Left, Updates!InstalledAreKept
  <2>3. Updates!LoadedAreWhole
    BY DEF UpdatesInv, CopiedWhole, Updates!LoadedAreWhole
  <2> QED
    BY <2>1, <2>2, <2>3 DEF Updates!UpdatesAreWhole
<1> QED
  BY <1>1, UpdatesCorrect, PTL

-----------------------------------------------------------------------------
(* The files of an office.                                                  *)

LEMMA SetupMoves ==
  ASSUME [Next]_vars
  PROVE  Setup!Next \/ UNCHANGED setupVars
  BY DEF Next, vars, Others

\* The pieces in the order in which an update replaces them.
Turns == [p \in Setup!Pieces |-> CASE p = "messages" -> 1 [] p = "prompts" -> 2 [] p = "nudge" -> 3
                                   [] p = "version" -> 4 [] OTHER -> 5]
SetupStages == {"idle", "global", "marker", "configure", "messages", "prompts", "lock", "nudge",
                "tools", "record", "version", "overlay", "done", "failed", "marked"}
SwapStages == {"idle", "lock", "stage", "aside", "install", "rollback", "finalize", "updated",
               "failed"}

OfficeTypes ==
  /\ content \in [Setup!Pieces -> Setup!Contents]
  /\ officeConfig \in [exists : BOOLEAN, tools : {"absent", "builtin", "other"}, extra : BOOLEAN]
  /\ pluginLock \in {"none", "setup", "update"}
  /\ setup \in [at : SetupStages, fresh : BOOLEAN, extra : {"no", "local", "global"}]
  /\ before \in [Setup!Pieces -> Setup!Contents]
  /\ spoiled \subseteq Setup!Pieces
SwapTypes ==
  /\ officeUpdate.at \in SwapStages /\ officeUpdate.installed \subseteq Setup!Pieces
  /\ DOMAIN officeUpdate.aside \subseteq Setup!Pieces
  /\ officeUpdate = [at |-> officeUpdate.at, items |-> officeUpdate.items, item |-> officeUpdate.item,
                     aside |-> officeUpdate.aside, installed |-> officeUpdate.installed]

\* The items of an update are a beginning of the pieces in their order.
ItemsInOrder ==
  officeUpdate.at # "idle" =>
    /\ Len(officeUpdate.items) \in {4, 5}
    /\ \A k \in 1..5 : k <= Len(officeUpdate.items) =>
         officeUpdate.items[k] \in Setup!Pieces /\ Turns[officeUpdate.items[k]] = k
    /\ officeUpdate.item \in 0..Len(officeUpdate.items)
    /\ officeUpdate.at \notin {"failed"} => officeUpdate.item # 0
    /\ officeUpdate.at \in {"lock", "stage"} =>
         officeUpdate.item = 1 /\ officeUpdate.installed = {} /\ DOMAIN officeUpdate.aside = {}

PluginsLocked ==
  /\ pluginLock = "setup" <=> setup.at \in {"nudge", "tools", "record"}
  /\ pluginLock = "update" <=> officeUpdate.at \notin {"idle", "lock"}

\* How far a setup has come.
SetupOrder ==
  /\ setup.fresh => officeUpdate.at = "idle"
  /\ setup.at = "idle" => ~setup.fresh
  /\ setup.at \in {"global", "marker", "configure", "messages", "prompts", "version", "overlay"}
       => setup.fresh
  /\ setup.at \notin {"idle", "global", "marker", "failed"} => officeConfig.exists
  /\ setup.at \in {"global", "marker"} => ~officeConfig.exists
  /\ setup.at = "failed" /\ setup.fresh => ~officeConfig.exists
  /\ officeUpdate.at # "idle" => officeConfig.exists
  /\ setup.at \in {"tools", "record"} => content["nudge"] # "none"
  /\ setup.at = "record" => content["tools"] # "none"

\* What a fresh setup has made, and that it never finds a file of an older binary.
FreshMakes ==
  /\ setup.fresh \/ ~officeConfig.exists => \A p \in Setup!Pieces : content[p] # "old"
  /\ setup.fresh =>
       /\ setup.at \in {"version", "overlay"} =>
            content["nudge"] # "none" /\ (officeConfig.tools = "builtin" => content["tools"] # "none")
       /\ setup.at = "overlay" => content["version"] = "new"
       /\ setup.at \in {"prompts", "lock", "nudge", "tools", "record", "version", "overlay"} =>
            content["messages"] \in {"new", "mine"}
       /\ setup.at \in {"lock", "nudge", "tools", "record", "version", "overlay"} =>
            content["prompts"] \in {"new", "mine"}
       /\ setup.at \in {"messages", "prompts", "lock", "nudge", "tools", "record", "version", "overlay"}
            => (setup.extra = "local" => officeConfig.extra)
       /\ setup.at \notin {"global", "failed"} => (setup.extra = "global" => globals)

\* What an update has moved aside is what was there.
Aside(p) ==
  /\ p \in DOMAIN officeUpdate.aside <=> before[p] # "none"
  /\ p \in DOMAIN officeUpdate.aside => officeUpdate.aside[p] = before[p]
Replaced(p) == content[p] = "new" /\ p \in officeUpdate.installed /\ Aside(p)
Emptied(p) == content[p] = "none" /\ p \notin officeUpdate.installed /\ Aside(p)
Waiting(p) == /\ content[p] = before[p] /\ p \notin officeUpdate.installed
              /\ p \notin DOMAIN officeUpdate.aside

\* A piece is back as it was, or is one of the spoiled.
Returned(p) == content[p] = before[p] \/ (p \in spoiled /\ content[p] # "old")

\* The pieces before the current one are replaced, those after it are not, or
\* not any more.
SwapOrder ==
  /\ officeUpdate.at = "aside" => \A p \in Setup!Pieces :
       IF Turns[p] < officeUpdate.item THEN Replaced(p) ELSE Waiting(p)
  /\ officeUpdate.at = "install" => \A p \in Setup!Pieces :
       IF Turns[p] < officeUpdate.item THEN Replaced(p)
       ELSE IF Turns[p] = officeUpdate.item THEN Emptied(p) ELSE Waiting(p)
  /\ officeUpdate.at = "rollback" => \A p \in Setup!Pieces :
       IF Turns[p] < officeUpdate.item THEN Replaced(p)
       ELSE IF Turns[p] = officeUpdate.item THEN Replaced(p) \/ Emptied(p)
       ELSE Returned(p)
  /\ officeUpdate.at \in {"finalize", "updated"} => \A p \in Setup!Pieces :
       Turns[p] <= Len(officeUpdate.items) => content[p] = "new"
  /\ officeUpdate.at = "failed" => \A p \in Setup!Pieces \ spoiled : content[p] = before[p]

Honest(c) ==
  c["version"] = "new" /\ "version" \notin spoiled =>
    \A p \in Setup!Templates \cup {"nudge"} : c[p] # "old"

SetupInv ==
  /\ OfficeTypes /\ SwapTypes /\ ItemsInOrder /\ PluginsLocked /\ SetupOrder /\ FreshMakes
  /\ SwapOrder /\ Honest(content)
  /\ officeUpdate.at \in {"aside", "install", "rollback"} => Honest(before)

\* A step that leaves the update alone, and the pieces while it replaces them.
LEMMA SwapKept ==
  ASSUME SetupInv, UNCHANGED <<officeUpdate, before, spoiled>>,
         content' = content \/ officeUpdate.at \in {"idle", "lock"},
         OfficeTypes', PluginsLocked', SetupOrder', FreshMakes', Honest(content)'
  PROVE  SetupInv'
<1>1. SwapTypes' /\ ItemsInOrder'
  BY DEF SetupInv, SwapTypes, ItemsInOrder
<1>2. SwapOrder'
  <2>1. CASE officeUpdate.at \in {"idle", "lock"}
    BY <2>1 DEF SwapOrder
  <2>2. CASE content' = content
    BY <2>2 DEF SetupInv, SwapOrder, Replaced, Emptied, Waiting, Aside, Returned
  <2> QED
    BY <2>1, <2>2
<1>3. officeUpdate'.at \in {"aside", "install", "rollback"} => Honest(before)'
  BY DEF SetupInv, Honest
<1> QED
  BY <1>1, <1>2, <1>3 DEF SetupInv

\* The commands of a setup, one by one.
LEMMA SetupFailsKeeps ==
  ASSUME SetupInv, Setup!SetupFails, UNCHANGED <<globals, officeUpdate, before, spoiled>>,
         setup.at \in {"marker", "configure", "messages", "prompts", "nudge", "tools", "record",
                       "version", "overlay"},
         content' \in [Setup!Pieces -> Setup!Contents],
         \A p \in Setup!Pieces : content'[p] # "old" \/ content'[p] = content[p],
         content'["version"] = content["version"]
  PROVE  SetupInv'
<1>1. /\ \/ /\ setup' = [setup EXCEPT !.at = "failed"]
            /\ officeConfig' = IF setup.fresh THEN Setup!NoConfig ELSE officeConfig
         \/ /\ setup' = [setup EXCEPT !.at = "marked"] /\ setup.fresh
            /\ officeConfig' = officeConfig /\ officeConfig.exists
      /\ pluginLock' = IF pluginLock = "setup" THEN "none" ELSE pluginLock
  BY DEF Setup!SetupFails, Setup!Then
<1>2. /\ \/ /\ setup'.at = "failed"
            /\ officeConfig' = IF setup.fresh THEN Setup!NoConfig ELSE officeConfig
         \/ /\ setup'.at = "marked" /\ setup.fresh
            /\ officeConfig' = officeConfig /\ officeConfig.exists
      /\ setup'.fresh = setup.fresh /\ setup'.extra = setup.extra
      /\ setup' \in [at : SetupStages, fresh : BOOLEAN, extra : {"no", "local", "global"}]
  BY <1>1 DEF SetupInv, OfficeTypes, SetupStages
<1>3. /\ OfficeTypes'
  <2>1. officeConfig' \in {officeConfig, [exists |-> FALSE, tools |-> "absent", extra |-> FALSE]}
    BY <1>2 DEF Setup!NoConfig
  <2>2. pluginLock' \in {"none", "setup", "update"}
    BY <1>1 DEF SetupInv, OfficeTypes
  <2>3. officeConfig' \in [exists : BOOLEAN, tools : {"absent", "builtin", "other"}, extra : BOOLEAN]
    <3>1. officeConfig \in [exists : BOOLEAN, tools : {"absent", "builtin", "other"}, extra : BOOLEAN]
      BY DEF SetupInv, OfficeTypes
    <3>2. [exists |-> FALSE, tools |-> "absent", extra |-> FALSE]
            \in [exists : BOOLEAN, tools : {"absent", "builtin", "other"}, extra : BOOLEAN]
      OBVIOUS
    <3> QED
      BY <2>1, <3>1, <3>2
  <2> QED
    BY <1>2, <2>2, <2>3 DEF SetupInv, OfficeTypes
<1>4. PluginsLocked'
  BY <1>1, <1>2 DEF SetupInv, PluginsLocked, OfficeTypes
<1>5. officeUpdate.at \in {"idle", "lock"}
  BY DEF SetupInv, PluginsLocked, SetupOrder
<1>6. SetupOrder'
  BY <1>1, <1>2 DEF SetupInv, SetupOrder, Setup!NoConfig
<1>7. FreshMakes'
  <2>1. setup.fresh \/ ~officeConfig'.exists => \A p \in Setup!Pieces : content'[p] # "old"
    BY <1>2 DEF SetupInv, FreshMakes
  <2>2. CASE setup'.at = "failed"
    BY <1>2, <2>1, <2>2 DEF FreshMakes
  <2>3. CASE setup'.at = "marked"
    BY <1>2, <2>1, <2>3 DEF SetupInv, FreshMakes
  <2> QED
    BY <1>2, <2>2, <2>3
<1>8. Honest(content)'
  BY DEF SetupInv, Honest, Setup!Pieces, Setup!Templates
<1> QED
  BY <1>3, <1>4, <1>5, <1>6, <1>7, <1>8, SwapKept

LEMMA BeginsKeep ==
  ASSUME SetupInv, Setup!SetupStarts \/ Setup!InstallGlobally \/ Setup!LockPlugins \/ Setup!SetupEnds
                   \/ Setup!SetupDies
  PROVE  SetupInv'
<1> USE DEF Setup!Here, Setup!Then, Setup!At
<1>0. /\ UNCHANGED <<content, officeConfig, officeUpdate, before, spoiled>>
      /\ setup \in [at : SetupStages, fresh : BOOLEAN, extra : {"no", "local", "global"}]
  BY DEF SetupInv, OfficeTypes, Setup!SetupStarts, Setup!InstallGlobally, Setup!LockPlugins,
     Setup!SetupEnds, Setup!SetupDies
<1>1. Honest(content)'
  BY <1>0 DEF SetupInv, Honest
<1>2. CASE Setup!SetupStarts
  <2>1. PICK extra \in {"no", "local", "global"} :
          \/ officeConfig.exists /\ setup' = [Setup!NoSetup EXCEPT !.at = "lock"]
          \/ /\ ~officeConfig.exists /\ officeUpdate.at = "idle"
             /\ setup' = [at |-> IF extra = "global" THEN "global" ELSE "marker",
                          fresh |-> TRUE, extra |-> extra]
    BY <1>2 DEF Setup!SetupStarts
  <2>2. setup.at = "idle" /\ UNCHANGED <<pluginLock, globals>>
    BY <1>2 DEF Setup!SetupStarts
  <2>3. OfficeTypes' /\ PluginsLocked'
    <3>1. /\ setup' \in [at : SetupStages, fresh : BOOLEAN, extra : {"no", "local", "global"}]
          /\ setup'.at \in {"lock", "global", "marker"}
      <4>1. CASE setup' = [Setup!NoSetup EXCEPT !.at = "lock"]
        BY <4>1 DEF SetupStages, Setup!NoSetup
      <4>2. CASE setup' = [at |-> IF extra = "global" THEN "global" ELSE "marker",
                           fresh |-> TRUE, extra |-> extra]
        BY <4>2 DEF SetupStages
      <4> QED
        BY <2>1, <4>1, <4>2
    <3> QED
      BY <1>0, <2>2, <3>1 DEF SetupInv, OfficeTypes, PluginsLocked
  <2>4. SetupOrder'
    BY <1>0, <2>1, <2>2 DEF SetupInv, OfficeTypes, SetupOrder, Setup!NoSetup
  <2>5. FreshMakes'
    BY <1>0, <2>1, <2>2 DEF SetupInv, OfficeTypes, SetupOrder, FreshMakes, Setup!NoSetup
  <2> QED
    BY <1>0, <1>1, <2>3, <2>4, <2>5, SwapKept
<1>3. CASE Setup!InstallGlobally
  <2>1. /\ setup.at = "global" /\ pluginLock' = pluginLock
        /\ \/ setup' = [setup EXCEPT !.at = "marker"] /\ globals' = TRUE
           \/ setup' = [setup EXCEPT !.at = "failed"] /\ globals' = globals
    BY <1>3 DEF Setup!InstallGlobally
  <2>2. /\ setup' \in [at : SetupStages, fresh : BOOLEAN, extra : {"no", "local", "global"}]
        /\ setup'.fresh = setup.fresh /\ setup'.extra = setup.extra
        /\ setup'.at = "failed" \/ (setup'.at = "marker" /\ globals')
    BY <1>0, <2>1 DEF SetupStages
  <2>3. OfficeTypes' /\ PluginsLocked'
    BY <1>0, <2>1, <2>2 DEF SetupInv, OfficeTypes, PluginsLocked
  <2>4. SetupOrder'
    BY <1>0, <2>1, <2>2 DEF SetupInv, SetupOrder
  <2>5. FreshMakes'
    BY <1>0, <2>1, <2>2 DEF SetupInv, SetupOrder, FreshMakes
  <2> QED
    BY <1>0, <1>1, <2>3, <2>4, <2>5, SwapKept
<1>4. CASE Setup!LockPlugins
  <2>1. /\ setup.at = "lock" /\ pluginLock = "none" /\ pluginLock' = "setup" /\ globals' = globals
        /\ setup' = [setup EXCEPT !.at = "nudge"]
    BY <1>4 DEF Setup!LockPlugins
  <2>2. /\ setup' \in [at : SetupStages, fresh : BOOLEAN, extra : {"no", "local", "global"}]
        /\ setup'.fresh = setup.fresh /\ setup'.extra = setup.extra /\ setup'.at = "nudge"
    BY <1>0, <2>1 DEF SetupStages
  <2>3. OfficeTypes' /\ PluginsLocked'
    BY <1>0, <2>1, <2>2 DEF SetupInv, OfficeTypes, PluginsLocked
  <2>4. SetupOrder'
    BY <1>0, <2>1, <2>2 DEF SetupInv, SetupOrder
  <2>5. FreshMakes'
    BY <1>0, <2>1, <2>2 DEF SetupInv, SetupOrder, FreshMakes
  <2> QED
    BY <1>0, <1>1, <2>3, <2>4, <2>5, SwapKept
<1>5. CASE Setup!SetupEnds \/ Setup!SetupDies
  <2>1. /\ setup.at # "idle" /\ setup' = [at |-> "idle", fresh |-> FALSE, extra |-> "no"]
        /\ globals' = globals
        /\ \/ setup.at \in {"done", "failed", "marked"} /\ pluginLock' = pluginLock
           \/ pluginLock' = IF pluginLock = "setup" THEN "none" ELSE pluginLock
    BY <1>5 DEF Setup!SetupEnds, Setup!SetupDies, Setup!NoSetup
  <2>3. OfficeTypes' /\ PluginsLocked'
    BY <1>0, <2>1 DEF SetupInv, OfficeTypes, PluginsLocked, SetupStages
  <2>4. SetupOrder'
    BY <1>0, <2>1 DEF SetupInv, SetupOrder
  <2>5. FreshMakes'
    BY <1>0, <2>1 DEF SetupInv, SetupOrder, FreshMakes
  <2> QED
    BY <1>0, <1>1, <2>3, <2>4, <2>5, SwapKept
<1> QED
  BY <1>2, <1>3, <1>4, <1>5

LEMMA ConfigureKeeps ==
  ASSUME SetupInv, Setup!WriteMarker \/ Setup!Configure
  PROVE  SetupInv'
<1> USE DEF Setup!Here, Setup!Then
<1>0. /\ UNCHANGED <<content, globals, officeUpdate, before, spoiled>> /\ setup.at \in {"marker", "configure"}
      /\ setup \in [at : SetupStages, fresh : BOOLEAN, extra : {"no", "local", "global"}]
  BY DEF SetupInv, OfficeTypes, Setup!WriteMarker, Setup!Configure
<1>1. CASE Setup!SetupFails
  BY <1>0, <1>1, SetupFailsKeeps DEF SetupInv, OfficeTypes
<1>2. CASE ~Setup!SetupFails
  <2>1. /\ pluginLock' = pluginLock
        /\ \/ setup.at = "marker" /\ setup' = [setup EXCEPT !.at = "configure"]
           \/ /\ setup.at = "configure" /\ setup' = [setup EXCEPT !.at = "messages"]
              /\ officeConfig'.extra = (setup.extra = "local")
        /\ officeConfig'.exists
        /\ officeConfig' \in [exists : BOOLEAN, tools : {"absent", "builtin", "other"}, extra : BOOLEAN]
    <3>1. CASE Setup!WriteMarker
      <4>1. /\ setup.at = "marker" /\ setup' = [setup EXCEPT !.at = "configure"]
            /\ pluginLock' = pluginLock
            /\ officeConfig' = [exists |-> TRUE, extra |-> FALSE,
                                tools |-> IF Setup!ToolsShouldInstall THEN "builtin" ELSE "absent"]
        BY <1>2, <3>1 DEF Setup!WriteMarker
      <4> HIDE DEF Setup!Then
      <4> QED
        BY <4>1
    <3>2. CASE Setup!Configure
      <4>1. PICK tools \in {officeConfig.tools, "builtin", "other"} :
              officeConfig' = [officeConfig EXCEPT !.tools = tools, !.extra = setup.extra = "local"]
        BY <1>2, <3>2 DEF Setup!Configure
      <4>2. officeConfig \in [exists : BOOLEAN, tools : {"absent", "builtin", "other"}, extra : BOOLEAN]
            /\ officeConfig.exists
        BY <1>2, <3>2 DEF Setup!Configure, SetupInv, OfficeTypes, SetupOrder
      <4>3. officeConfig'.exists /\ officeConfig'.extra = (setup.extra = "local")
            /\ officeConfig' \in [exists : BOOLEAN, tools : {"absent", "builtin", "other"}, extra : BOOLEAN]
        BY <4>1, <4>2
      <4> QED
        BY <1>2, <3>2, <4>3 DEF Setup!Configure
    <3> QED
      BY <3>1, <3>2
  <2>2. /\ setup' \in [at : SetupStages, fresh : BOOLEAN, extra : {"no", "local", "global"}]
        /\ setup'.fresh = setup.fresh /\ setup'.extra = setup.extra
        /\ setup'.at = IF setup.at = "marker" THEN "configure" ELSE "messages"
    BY <1>0, <2>1 DEF SetupStages
  <2>3. OfficeTypes' /\ PluginsLocked'
    BY <1>0, <2>1, <2>2 DEF SetupInv, OfficeTypes, PluginsLocked
  <2>4. SetupOrder'
    BY <1>0, <2>1, <2>2 DEF SetupInv, SetupOrder
  <2>5. FreshMakes'
    BY <1>0, <2>1, <2>2 DEF SetupInv, SetupOrder, FreshMakes
  <2>6. Honest(content)'
    BY <1>0 DEF SetupInv, Honest
  <2> QED
    BY <1>0, <2>3, <2>4, <2>5, <2>6, SwapKept
<1> QED
  BY <1>1, <1>2

\* The next step of a setup.
LEMMA ThenIs ==
  ASSUME SetupInv, NEW step \in SetupStages, Setup!Then(step)
  PROVE  /\ setup' \in [at : SetupStages, fresh : BOOLEAN, extra : {"no", "local", "global"}]
         /\ setup'.fresh = setup.fresh /\ setup'.extra = setup.extra /\ setup'.at = step
<1>1. setup \in [at : SetupStages, fresh : BOOLEAN, extra : {"no", "local", "global"}]
  BY DEF SetupInv, OfficeTypes
<1> QED
  BY <1>1 DEF Setup!Then

LEMMA DefaultsKeep ==
  ASSUME SetupInv, Setup!WriteDefaults("messages", "prompts") \/ Setup!WriteDefaults("prompts", "lock")
  PROVE  SetupInv'
<1> DEFINE p == setup.at
           next == IF p = "messages" THEN "prompts" ELSE "lock"
<1>0. /\ p \in {"messages", "prompts"} /\ UNCHANGED <<globals, officeUpdate, before, spoiled>>
      /\ \/ /\ content' = [content EXCEPT ![p] = Setup!Filled(p)]
            /\ Setup!Then(next) /\ UNCHANGED <<officeConfig, pluginLock>>
         \/ /\ content' = [content EXCEPT ![p] = IF @ = "none" THEN "part" ELSE @]
            /\ Setup!SetupFails
  BY DEF Setup!WriteDefaults, Setup!Here
<1>1. content \in [Setup!Pieces -> Setup!Contents] /\ officeUpdate.at = "idle" /\ setup.fresh
  BY <1>0 DEF SetupInv, OfficeTypes, SetupOrder
<1>2. CASE /\ content' = [content EXCEPT ![p] = IF @ = "none" THEN "part" ELSE @]
           /\ Setup!SetupFails
  <2>1. /\ content' \in [Setup!Pieces -> Setup!Contents]
        /\ \A q \in Setup!Pieces : content'[q] # "old" \/ content'[q] = content[q]
        /\ content'["version"] = content["version"]
    BY <1>0, <1>1, <1>2 DEF Setup!Pieces, Setup!Templates, Setup!Contents
  <2> QED
    BY <1>0, <1>2, <2>1, SetupFailsKeeps
<1>3. CASE /\ content' = [content EXCEPT ![p] = Setup!Filled(p)]
           /\ Setup!Then(next) /\ UNCHANGED <<officeConfig, pluginLock>>
  <2>1. /\ content' \in [Setup!Pieces -> Setup!Contents]
        /\ \A q \in Setup!Pieces \ {p} : content'[q] = content[q]
        /\ content'[p] \in {"old", "new", "mine"} /\ (content'[p] = "old" => content[p] = "old")
    BY <1>0, <1>1, <1>3 DEF Setup!Pieces, Setup!Templates, Setup!Contents, Setup!Filled
  <2>2. /\ setup' \in [at : SetupStages, fresh : BOOLEAN, extra : {"no", "local", "global"}]
        /\ setup'.fresh = setup.fresh /\ setup'.extra = setup.extra /\ setup'.at = next
    BY <1>3, ThenIs DEF SetupStages
  <2>3. OfficeTypes' /\ PluginsLocked'
    BY <1>0, <1>3, <2>1, <2>2 DEF SetupInv, OfficeTypes, PluginsLocked
  <2>4. SetupOrder'
    BY <1>0, <1>3, <2>1, <2>2 DEF SetupInv, SetupOrder, Setup!Pieces, Setup!Templates
  <2>5. FreshMakes'
    BY <1>0, <1>1, <1>3, <2>1, <2>2 DEF SetupInv, SetupOrder, FreshMakes, Setup!Pieces, Setup!Templates
  <2>6. Honest(content)'
    BY <1>0, <2>1 DEF SetupInv, Honest, Setup!Pieces, Setup!Templates
  <2> QED
    BY <1>0, <1>1, <2>3, <2>4, <2>5, <2>6, SwapKept
<1> QED
  BY <1>0, <1>2, <1>3

LEMMA BundledKeep ==
  ASSUME SetupInv, Setup!EnsureNudge \/ Setup!EnsureTools \/ Setup!RecordTools
  PROVE  SetupInv'
<1>0. /\ setup.at \in {"nudge", "tools", "record"} /\ UNCHANGED <<globals, officeUpdate, before, spoiled>>
      /\ content \in [Setup!Pieces -> Setup!Contents]
      /\ officeConfig \in [exists : BOOLEAN, tools : {"absent", "builtin", "other"}, extra : BOOLEAN]
      /\ officeConfig.exists
  BY DEF Setup!EnsureNudge, Setup!EnsureTools, Setup!RecordTools, Setup!Here, SetupInv, OfficeTypes,
     SetupOrder
<1>1. officeUpdate.at \in {"idle", "lock"}
  BY <1>0 DEF SetupInv, PluginsLocked
<1>2. CASE Setup!SetupFails
  <2>1. \/ content' = content
        \/ content' = [content EXCEPT !["nudge"] = IF @ = "none" THEN "new" ELSE @]
        \/ \E c \in {"new", "none", "part", content["tools"]} : content' = [content EXCEPT !["tools"] = c]
    BY DEF Setup!EnsureNudge, Setup!EnsureTools, Setup!RecordTools
  <2>2. /\ content' \in [Setup!Pieces -> Setup!Contents]
        /\ \A q \in Setup!Pieces : content'[q] # "old" \/ content'[q] = content[q]
        /\ content'["version"] = content["version"]
    BY <1>0, <2>1 DEF Setup!Pieces, Setup!Templates, Setup!Contents
  <2> QED
    BY <1>0, <1>2, <2>2, SetupFailsKeeps
<1>3. CASE ~Setup!SetupFails
  <2>1. \/ /\ setup.at = "nudge" /\ Setup!Then("tools") /\ UNCHANGED <<officeConfig, pluginLock>>
           /\ content' = [content EXCEPT !["nudge"] = IF @ = "none" THEN "new" ELSE @]
        \/ /\ setup.at = "tools" /\ Setup!Then("record") /\ UNCHANGED <<officeConfig, pluginLock>>
           /\ content' = [content EXCEPT !["tools"] = "new"]
        \/ /\ setup.at = "tools" /\ ~(Setup!ToolsShouldInstall /\ content["tools"] = "none")
           /\ Setup!Unlock /\ pluginLock' = "none" /\ UNCHANGED <<content, officeConfig>>
        \/ /\ setup.at = "record" /\ Setup!Unlock /\ pluginLock' = "none" /\ content' = content
           /\ officeConfig' = [officeConfig EXCEPT !.tools = IF @ = "absent" THEN "builtin" ELSE @]
    BY <1>3 DEF Setup!EnsureNudge, Setup!EnsureTools, Setup!RecordTools, Setup!Here
  <2>2. /\ officeConfig' \in [exists : BOOLEAN, tools : {"absent", "builtin", "other"}, extra : BOOLEAN]
        /\ officeConfig'.exists /\ officeConfig'.extra = officeConfig.extra
        /\ setup.at # "record" => officeConfig' = officeConfig
    BY <1>0, <2>1
  <2>3. /\ content' \in [Setup!Pieces -> Setup!Contents]
        /\ \A q \in Setup!Pieces : content'[q] = content[q] \/ (content'[q] = "new" /\ q # "version")
        /\ setup.at = "nudge" => content'["nudge"] # "none"
        /\ \A q \in {"messages", "prompts"} : content'[q] = content[q]
    BY <1>0, <2>1 DEF Setup!Pieces, Setup!Templates, Setup!Contents
  <2>4. setup.at = "tools" => \/ content'["tools"] = "new"
                              \/ officeConfig'.tools = "builtin" => content'["tools"] # "none"
    BY <1>0, <2>1 DEF Setup!ToolsShouldInstall, Setup!Pieces, Setup!Templates
  <2>5. /\ setup' \in [at : SetupStages, fresh : BOOLEAN, extra : {"no", "local", "global"}]
        /\ setup'.fresh = setup.fresh /\ setup'.extra = setup.extra
        /\ \/ setup.at = "nudge" /\ setup'.at = "tools" /\ pluginLock' = pluginLock
           \/ /\ setup.at = "tools" /\ setup'.at = "record" /\ pluginLock' = pluginLock
              /\ content'["tools"] = "new"
           \/ /\ setup.at \in {"tools", "record"} /\ pluginLock' = "none" /\ content' = content
              /\ setup'.at = IF setup.fresh THEN "version" ELSE "done"
    BY <1>0, <2>1, ThenIs DEF Setup!Unlock, SetupStages, Setup!Pieces, Setup!Templates
  <2>6. OfficeTypes' /\ PluginsLocked'
    BY <1>0, <2>2, <2>3, <2>5 DEF SetupInv, OfficeTypes, PluginsLocked
  <2>7. SetupOrder'
    BY <1>0, <2>2, <2>3, <2>4, <2>5 DEF SetupInv, SetupOrder, Setup!Pieces, Setup!Templates
  <2>8. FreshMakes'
    <3>1. setup.fresh \/ ~officeConfig.exists => \A p \in Setup!Pieces : content'[p] # "old"
      BY <2>3 DEF SetupInv, FreshMakes
    <3>2. setup.at \in {"tools", "record"} /\ setup'.at = "version"
            => content'["nudge"] # "none" /\ (officeConfig'.tools = "builtin" => content'["tools"] # "none")
      BY <2>4, <2>5 DEF SetupInv, SetupOrder
    <3> QED
      BY <1>0, <2>2, <2>3, <2>5, <3>1, <3>2 DEF SetupInv, FreshMakes
  <2>9. Honest(content)'
    BY <1>0, <2>3 DEF SetupInv, Honest, Setup!Pieces, Setup!Templates
  <2> QED
    BY <1>0, <1>1, <2>6, <2>7, <2>8, <2>9, SwapKept
<1> QED
  BY <1>2, <1>3

LEMMA FinishKeeps ==
  ASSUME SetupInv, Setup!WriteVersion \/ Setup!ApplyTemplate
  PROVE  SetupInv'
<1>0. /\ setup.at \in {"version", "overlay"} /\ UNCHANGED <<globals, officeUpdate, before, spoiled>>
      /\ content \in [Setup!Pieces -> Setup!Contents] /\ officeUpdate.at = "idle" /\ setup.fresh
  BY DEF Setup!WriteVersion, Setup!ApplyTemplate, Setup!Here, SetupInv, OfficeTypes, SetupOrder
<1>1. PICK copied \in SUBSET Setup!Templates :
        \/ /\ setup.at = "overlay"
           /\ content' = [p \in Setup!Pieces |-> IF p \in copied THEN "mine" ELSE content[p]]
        \/ /\ setup.at = "version" /\ Setup!SetupFails /\ content' = content
        \/ /\ setup.at = "version" /\ content' = [content EXCEPT !["version"] = "new"]
           /\ Setup!Then("overlay") /\ UNCHANGED <<officeConfig, pluginLock>>
  BY DEF Setup!WriteVersion, Setup!ApplyTemplate, Setup!Here
<1>2. CASE Setup!SetupFails
  <2>1. content' = content \/ setup.at = "overlay"
    BY <1>1, <1>2 DEF Setup!SetupFails, Setup!Then, Setup!WriteVersion, Setup!ApplyTemplate, SetupInv,
       OfficeTypes
  <2>2. /\ content' \in [Setup!Pieces -> Setup!Contents]
        /\ \A q \in Setup!Pieces : content'[q] # "old" \/ content'[q] = content[q]
        /\ content'["version"] = content["version"]
    BY <1>0, <1>1, <2>1 DEF Setup!Pieces, Setup!Templates, Setup!Contents
  <2> QED
    BY <1>0, <1>2, <2>2, SetupFailsKeeps
<1>3. CASE ~Setup!SetupFails
  <2>1. /\ content' \in [Setup!Pieces -> Setup!Contents]
        /\ \A q \in Setup!Pieces : content'[q] \in {content[q], "mine", "new"}
        /\ \A q \in {"nudge", "tools"} : content'[q] = content[q]
        /\ setup.at = "overlay" => content'["version"] = content["version"]
        /\ \A q \in {"messages", "prompts"} : content'[q] \in {content[q], "mine"}
        /\ setup.at = "version" => content'["version"] = "new"
    BY <1>0, <1>1, <1>3 DEF Setup!Pieces, Setup!Templates, Setup!Contents
  <2>2. /\ setup' \in [at : SetupStages, fresh : BOOLEAN, extra : {"no", "local", "global"}]
        /\ setup'.fresh = setup.fresh /\ setup'.extra = setup.extra
        /\ setup'.at = IF setup.at = "version" THEN "overlay" ELSE "done"
        /\ UNCHANGED <<officeConfig, pluginLock>>
    BY <1>0, <1>3, ThenIs DEF SetupStages, Setup!WriteVersion, Setup!ApplyTemplate, Setup!Here
  <2>3. OfficeTypes' /\ PluginsLocked'
    BY <1>0, <2>1, <2>2 DEF SetupInv, OfficeTypes, PluginsLocked
  <2>4. SetupOrder'
    BY <1>0, <2>1, <2>2 DEF SetupInv, SetupOrder
  <2>5. FreshMakes'
    BY <1>0, <2>1, <2>2 DEF SetupInv, SetupOrder, FreshMakes
  <2>6. Honest(content)'
    BY <1>0, <2>1 DEF SetupInv, FreshMakes, Honest, Setup!Pieces, Setup!Templates
  <2> QED
    BY <1>0, <2>3, <2>4, <2>5, <2>6, SwapKept
<1> QED
  BY <1>2, <1>3

LEMMA WorldKeeps ==
  ASSUME SetupInv, Setup!UserEdits \/ Setup!NewBinary
  PROVE  SetupInv'
<1>0. /\ setup.at = "idle" /\ officeUpdate.at = "idle"
      /\ UNCHANGED <<officeConfig, globals, pluginLock, setup, officeUpdate, before, spoiled>>
      /\ content \in [Setup!Pieces -> Setup!Contents]
  BY DEF Setup!UserEdits, Setup!NewBinary, Setup!Here, Setup!At, SetupInv, OfficeTypes
<1>1. /\ content' \in [Setup!Pieces -> Setup!Contents]
      /\ \/ /\ \A q \in Setup!Pieces : content'[q] \in {content[q], "none", "mine"}
            /\ content'["version"] = content["version"]
         \/ content'["version"] # "new" /\ officeConfig.exists
  <2>1. CASE Setup!UserEdits
    <3> PICK p \in Setup!Pieces \ {"version"}, c \in {"none", "mine"} : content' = [content EXCEPT ![p] = c]
      BY <2>1 DEF Setup!UserEdits
    <3> QED
      BY <1>0 DEF Setup!Pieces, Setup!Contents
  <2>2. CASE Setup!NewBinary
    BY <1>0, <2>2 DEF Setup!NewBinary, Setup!Pieces, Setup!Contents
  <2> QED
    BY <2>1, <2>2
<1>2. OfficeTypes' /\ PluginsLocked' /\ SetupOrder'
  BY <1>0, <1>1 DEF SetupInv, OfficeTypes, PluginsLocked, SetupOrder
<1>3. FreshMakes'
  BY <1>0, <1>1 DEF SetupInv, SetupOrder, FreshMakes
<1>4. Honest(content)'
  BY <1>0, <1>1 DEF SetupInv, Honest, Setup!Pieces, Setup!Templates
<1> QED
  BY <1>0, <1>2, <1>3, <1>4, SwapKept

-----------------------------------------------------------------------------
(* The update of an office.                                                 *)

\* What the items of an update are.
LEMMA ItemsAre ==
  ASSUME NEW tools \in BOOLEAN
  PROVE  LET items == Setup!Replacements(tools)
         IN  /\ Len(items) \in {4, 5}
             /\ \A k \in 1..5 : k <= Len(items) => items[k] \in Setup!Pieces /\ Turns[items[k]] = k
<1> DEFINE items == Setup!Replacements(tools)
<1>1. CASE tools = TRUE
  <2> DEFINE s == <<"messages", "prompts", "nudge", "version">>
             t == <<"tools">>
  <2>1. items = s \o t /\ s \in Seq(Setup!Pieces) /\ t \in Seq(Setup!Pieces)
        /\ Len(s) = 4 /\ Len(t) = 1
    BY <1>1 DEF Setup!Replacements, Setup!Pieces, Setup!Templates
  <2>2. Len(items) = 5 /\ \A k \in 1..5 : items[k] = IF k <= 4 THEN s[k] ELSE t[1]
    <3> HIDE DEF s, t
    <3>1. Len(s \o t) = Len(s) + Len(t)
          /\ \A k \in 1..Len(s) + Len(t) : (s \o t)[k] = IF k <= Len(s) THEN s[k] ELSE t[k - Len(s)]
      BY <2>1, ConcatProperties
    <3> QED
      BY <2>1, <3>1
  <2> QED
    BY <2>2 DEF Turns, Setup!Pieces, Setup!Templates
<1>2. CASE tools = FALSE
  <2>1. items = <<"messages", "prompts", "nudge", "version">>
    BY <1>2 DEF Setup!Replacements
  <2> QED
    BY <2>1 DEF Turns, Setup!Pieces, Setup!Templates
<1> QED
  BY <1>1, <1>2

\* The piece of the current item.
LEMMA PieceIs ==
  ASSUME SetupInv, officeUpdate.at \notin {"idle", "failed"}
  PROVE  /\ officeUpdate.item \in 1..5 /\ officeUpdate.item <= Len(officeUpdate.items)
         /\ Setup!Piece \in Setup!Pieces /\ Turns[Setup!Piece] = officeUpdate.item
         /\ \A p \in Setup!Pieces : Turns[p] \in 1..5 /\ (Turns[p] = officeUpdate.item => p = Setup!Piece)
<1>1. officeUpdate.item \in 1..5 /\ officeUpdate.item <= Len(officeUpdate.items)
  <2>1. /\ Len(officeUpdate.items) \in {4, 5} /\ officeUpdate.item \in 0..Len(officeUpdate.items)
        /\ officeUpdate.item # 0
    BY DEF SetupInv, ItemsInOrder
  <2> DEFINE n == Len(officeUpdate.items)
             k == officeUpdate.item
  <2>2. n \in {4, 5} /\ k \in 0..n /\ k # 0
    BY <2>1
  <2> HIDE DEF n, k
  <2>3. k \in 1..5 /\ k <= n
    BY <2>2
  <2> QED
    BY <2>3 DEF n, k
<1>2. Setup!Piece \in Setup!Pieces /\ Turns[Setup!Piece] = officeUpdate.item
  BY <1>1 DEF SetupInv, ItemsInOrder, Setup!Piece
<1>3. \A p, q \in Setup!Pieces : Turns[p] \in 1..5 /\ (Turns[p] = Turns[q] => p = q)
  BY DEF Turns, Setup!Pieces, Setup!Templates
<1> QED
  BY <1>1, <1>2, <1>3

\* A step of an update keeps what is true of the setup.
LEMMA SetupKept ==
  ASSUME SetupInv, UNCHANGED <<officeConfig, globals, setup>>,
         officeUpdate.at # "idle", content' = content \/ officeUpdate.at # "lock",
         content' \in [Setup!Pieces -> Setup!Contents], before' \in [Setup!Pieces -> Setup!Contents],
         spoiled' \subseteq Setup!Pieces,
         pluginLock' \in {"none", "setup", "update"}, PluginsLocked', SwapTypes', ItemsInOrder',
         SwapOrder', Honest(content)',
         officeUpdate'.at \in {"aside", "install", "rollback"} => Honest(before)'
  PROVE  SetupInv'
<1>1. OfficeTypes'
  BY DEF SetupInv, OfficeTypes
<1>2. ~setup.fresh /\ officeConfig.exists
  BY DEF SetupInv, SetupOrder
<1>3. content' = content \/ setup.at \notin {"nudge", "tools", "record"}
  BY DEF SetupInv, PluginsLocked
<1>4. SetupOrder'
  BY <1>2, <1>3 DEF SetupInv, SetupOrder
<1>5. FreshMakes'
  BY <1>2 DEF FreshMakes
<1> QED
  BY <1>1, <1>4, <1>5 DEF SetupInv

LEMMA SwapOpens ==
  ASSUME SetupInv, Setup!UpdateStarts \/ Setup!UpdateLocks \/ Setup!Stage
  PROVE  SetupInv'
<1> USE DEF Setup!At, Setup!Goes
<1>0. /\ UNCHANGED <<content, officeConfig, globals, setup>> /\ OfficeTypes /\ SwapTypes
      /\ Honest(content) /\ spoiled' \in {spoiled, spoiled \cap {"version"}}
  BY DEF SetupInv, Setup!UpdateStarts, Setup!UpdateLocks, Setup!Stage
<1>1. Honest(content)'
  BY <1>0 DEF Honest
<1>2. CASE Setup!UpdateStarts
  <2> DEFINE tools == officeConfig.tools = "builtin"
             items == Setup!Replacements(tools)
  <2>1. /\ officeConfig.exists /\ ~setup.fresh /\ UNCHANGED <<pluginLock, before, spoiled>>
        /\ officeUpdate' = [Setup!NoUpdate EXCEPT !.at = "lock", !.items = items]
        /\ officeUpdate.at = "idle"
    BY <1>2 DEF Setup!UpdateStarts
  <2>2. /\ Len(items) \in {4, 5}
        /\ \A k \in 1..5 : k <= Len(items) => items[k] \in Setup!Pieces /\ Turns[items[k]] = k
    <3>1. tools \in BOOLEAN
      OBVIOUS
    <3> QED
      BY <3>1, ItemsAre
  <2> HIDE DEF items, tools
  <2>3. /\ officeUpdate'.at = "lock" /\ officeUpdate'.items = items /\ officeUpdate'.item = 1
        /\ DOMAIN officeUpdate'.aside = {} /\ officeUpdate'.installed = {}
        /\ officeUpdate' = [at |-> officeUpdate'.at, items |-> officeUpdate'.items,
                            item |-> officeUpdate'.item, aside |-> officeUpdate'.aside,
                            installed |-> officeUpdate'.installed]
    BY <2>1 DEF Setup!NoUpdate
  <2>4. SwapTypes'
    BY <2>3 DEF SwapTypes, SwapStages
  <2>5. ItemsInOrder'
    <3> DEFINE n == Len(items)
    <3>1. n \in {4, 5}
      BY <2>2
    <3> HIDE DEF n
    <3>2. 1 \in 0..n
      BY <3>1
    <3>3. 1 \in 0..Len(items)
      BY <3>2 DEF n
    <3> QED
      BY <2>2, <2>3, <3>3 DEF ItemsInOrder
  <2>6. PluginsLocked' /\ SwapOrder'
    BY <1>0, <2>1, <2>3 DEF SetupInv, PluginsLocked, SwapOrder
  <2>7. OfficeTypes' /\ SetupOrder' /\ FreshMakes'
    BY <1>0, <2>1, <2>3 DEF SetupInv, OfficeTypes, SetupOrder, FreshMakes
  <2> QED
    BY <1>1, <2>3, <2>4, <2>5, <2>6, <2>7 DEF SetupInv
<1>3. CASE Setup!UpdateLocks \/ Setup!Stage
  <2>1. /\ officeUpdate.at \in {"lock", "stage"} /\ pluginLock' = "update"
        /\ before' \in {before, content}
        /\ \/ officeUpdate.at = "lock" /\ officeUpdate' = [officeUpdate EXCEPT !.at = "stage"]
              /\ pluginLock = "none"
           \/ /\ officeUpdate.at = "stage" /\ before' = content
              /\ \E step \in {"aside", "failed"} : officeUpdate' = [officeUpdate EXCEPT !.at = step]
    BY <1>3 DEF Setup!UpdateLocks, Setup!Stage, SetupInv, PluginsLocked
  <2>2. /\ officeUpdate'.at \in {"stage", "aside", "failed"}
        /\ officeUpdate'.items = officeUpdate.items /\ officeUpdate'.item = officeUpdate.item
        /\ officeUpdate'.aside = officeUpdate.aside /\ officeUpdate'.installed = officeUpdate.installed
        /\ officeUpdate' = [at |-> officeUpdate'.at, items |-> officeUpdate'.items,
                            item |-> officeUpdate'.item, aside |-> officeUpdate'.aside,
                            installed |-> officeUpdate'.installed]
        /\ officeUpdate'.at \in {"aside", "failed"} => before' = content
    BY <1>0, <2>1 DEF SwapTypes
  <2>3. officeUpdate.item = 1 /\ officeUpdate.installed = {} /\ DOMAIN officeUpdate.aside = {}
    BY <2>1 DEF SetupInv, ItemsInOrder
  <2>4. SwapTypes' /\ ItemsInOrder'
    BY <1>0, <2>1, <2>2, <2>3 DEF SetupInv, SwapTypes, SwapStages, ItemsInOrder
  <2>5. PluginsLocked'
    BY <1>0, <2>1, <2>2 DEF SetupInv, PluginsLocked
  <2>6. SwapOrder'
    <3>1. officeUpdate'.at = "aside" => \A p \in Setup!Pieces : Turns[p] \in 1..5 /\ Waiting(p)'
      BY <1>0, <2>2, <2>3 DEF Waiting, Turns, Setup!Pieces, Setup!Templates
    <3>2. \A p \in Setup!Pieces : officeUpdate'.at = "aside" => ~(Turns[p] < officeUpdate'.item)
      BY <2>2, <2>3, <3>1
    <3> QED
      BY <1>0, <2>2, <3>1, <3>2 DEF SwapOrder
  <2>7. officeUpdate'.at \in {"aside", "install", "rollback"} => Honest(before)'
    BY <1>0, <2>2 DEF Honest
  <2>8. before' \in [Setup!Pieces -> Setup!Contents]
    BY <1>0, <2>1 DEF OfficeTypes
  <2> QED
    BY <1>0, <1>1, <2>1, <2>4, <2>5, <2>6, <2>7, <2>8, SetupKept DEF OfficeTypes
<1> QED
  BY <1>2, <1>3

LEMMA SwapCloses ==
  ASSUME SetupInv, Setup!Finalize \/ Setup!UpdateEnds \/ Setup!UpdateDies
  PROVE  SetupInv'
<1> USE DEF Setup!At, Setup!Goes
<1>0. /\ UNCHANGED <<content, officeConfig, globals, setup, before, spoiled>> /\ OfficeTypes /\ SwapTypes
      /\ Honest(content) /\ officeUpdate.at # "idle"
  BY DEF SetupInv, Setup!Finalize, Setup!UpdateEnds, Setup!UpdateDies
<1>1. Honest(content)' /\ (Honest(before) => Honest(before)')
  BY <1>0 DEF Honest
<1>2. CASE Setup!Finalize
  <2>1. /\ officeUpdate.at = "finalize" /\ pluginLock' = pluginLock
        /\ officeUpdate' = [officeUpdate EXCEPT !.at = "updated"]
    BY <1>2 DEF Setup!Finalize
  <2>2. /\ officeUpdate'.at = "updated"
        /\ officeUpdate'.items = officeUpdate.items /\ officeUpdate'.item = officeUpdate.item
        /\ officeUpdate'.aside = officeUpdate.aside /\ officeUpdate'.installed = officeUpdate.installed
        /\ officeUpdate' = [at |-> officeUpdate'.at, items |-> officeUpdate'.items,
                            item |-> officeUpdate'.item, aside |-> officeUpdate'.aside,
                            installed |-> officeUpdate'.installed]
    BY <1>0, <2>1 DEF SwapTypes
  <2>3. SwapTypes' /\ ItemsInOrder' /\ PluginsLocked'
    BY <1>0, <2>1, <2>2 DEF SetupInv, SwapTypes, SwapStages, ItemsInOrder, PluginsLocked
  <2>4. SwapOrder'
    BY <1>0, <2>1, <2>2 DEF SetupInv, SwapOrder
  <2> QED
    BY <1>0, <1>1, <2>1, <2>2, <2>3, <2>4, SetupKept DEF SetupInv, OfficeTypes
<1>3. CASE Setup!UpdateEnds \/ Setup!UpdateDies
  <2>1. /\ officeUpdate' = Setup!NoUpdate
        /\ pluginLock' = IF pluginLock = "update" THEN "none" ELSE pluginLock
    BY <1>3 DEF Setup!UpdateEnds, Setup!UpdateDies, SetupInv, PluginsLocked
  <2>2. /\ officeUpdate'.at = "idle" /\ officeUpdate'.installed = {} /\ DOMAIN officeUpdate'.aside = {}
        /\ officeUpdate' = [at |-> officeUpdate'.at, items |-> officeUpdate'.items,
                            item |-> officeUpdate'.item, aside |-> officeUpdate'.aside,
                            installed |-> officeUpdate'.installed]
    BY <2>1 DEF Setup!NoUpdate
  <2>3. SwapTypes' /\ ItemsInOrder' /\ SwapOrder'
    BY <2>2 DEF SwapTypes, SwapStages, ItemsInOrder, SwapOrder
  <2>4. PluginsLocked' /\ pluginLock' \in {"none", "setup", "update"}
    BY <1>0, <2>1, <2>2 DEF SetupInv, PluginsLocked, OfficeTypes
  <2> QED
    BY <1>0, <1>1, <2>1, <2>2, <2>3, <2>4, SetupKept DEF OfficeTypes
<1> QED
  BY <1>2, <1>3

\* What is true of the update at one of its stages between start and end.
LEMMA AtSwap ==
  ASSUME SetupInv, officeUpdate.at \in {"aside", "install", "rollback"}
  PROVE  /\ Setup!Piece \in Setup!Pieces /\ Turns[Setup!Piece] = officeUpdate.item
         /\ officeUpdate.item \in 1..5 /\ officeUpdate.item <= Len(officeUpdate.items)
         /\ \A p \in Setup!Pieces : Turns[p] \in 1..5 /\ (p # Setup!Piece => Turns[p] # officeUpdate.item)
         /\ content \in [Setup!Pieces -> Setup!Contents] /\ before \in [Setup!Pieces -> Setup!Contents]
         /\ pluginLock = "update" /\ Honest(before) /\ SwapTypes /\ spoiled \subseteq Setup!Pieces
  BY PieceIs DEF SetupInv, OfficeTypes, PluginsLocked

\* The rollback turns to an item, which may be the one before the first.
LEMMA RollBackIs ==
  ASSUME SetupInv, officeUpdate.at \in {"aside", "install", "rollback"},
         NEW last \in {officeUpdate.item, officeUpdate.item - 1}, Setup!RollBack(last)
  PROVE  /\ officeUpdate'.at = IF last = 0 THEN "failed" ELSE "rollback"
         /\ officeUpdate'.item = last
         /\ officeUpdate'.items = officeUpdate.items
         /\ officeUpdate'.aside = officeUpdate.aside
         /\ officeUpdate'.installed = officeUpdate.installed
         /\ SwapTypes' /\ ItemsInOrder'
<1>1. officeUpdate' = [officeUpdate EXCEPT !.item = last, !.at = IF last = 0 THEN "failed" ELSE "rollback"]
  BY DEF Setup!RollBack
<1>2. /\ officeUpdate'.at = IF last = 0 THEN "failed" ELSE "rollback"
      /\ officeUpdate'.item = last
      /\ officeUpdate'.items = officeUpdate.items
      /\ officeUpdate'.aside = officeUpdate.aside
      /\ officeUpdate'.installed = officeUpdate.installed
      /\ SwapTypes'
  BY <1>1 DEF SetupInv, SwapTypes, SwapStages
<1>3. ItemsInOrder'
  <2> DEFINE n == Len(officeUpdate.items)
  <2>1. n \in {4, 5} /\ officeUpdate.item \in 1..5 /\ officeUpdate.item <= n
    BY AtSwap DEF SetupInv, ItemsInOrder
  <2> HIDE DEF n
  <2>2. last \in 0..n
    BY <2>1
  <2>3. last \in 0..Len(officeUpdate.items)
    BY <2>2 DEF n
  <2> QED
    BY <1>2, <2>3 DEF SetupInv, ItemsInOrder
<1> QED
  BY <1>2, <1>3

LEMMA MoveAsideKeeps ==
  ASSUME SetupInv, Setup!MoveAside
  PROVE  SetupInv'
<1> DEFINE q == Setup!Piece
           i == officeUpdate.item
<1>0. /\ officeUpdate.at = "aside"
      /\ UNCHANGED <<officeConfig, globals, setup, pluginLock, before, spoiled>>
  BY DEF Setup!MoveAside, Setup!At
<1>1. /\ q \in Setup!Pieces /\ Turns[q] = i /\ i \in 1..5 /\ i <= Len(officeUpdate.items)
      /\ \A p \in Setup!Pieces : Turns[p] \in 1..5 /\ (p # q => Turns[p] # i)
      /\ content \in [Setup!Pieces -> Setup!Contents] /\ before \in [Setup!Pieces -> Setup!Contents]
      /\ pluginLock = "update" /\ Honest(before) /\ SwapTypes /\ spoiled \subseteq Setup!Pieces
  BY <1>0, AtSwap
<1>2. \A p \in Setup!Pieces : IF Turns[p] < i THEN Replaced(p) ELSE Waiting(p)
  BY <1>0 DEF SetupInv, SwapOrder
<1>3. Honest(before)'
  BY <1>0, <1>1 DEF Honest
<1>4. CASE content' = content /\ Setup!RollBack(i - 1)
  <2>1. /\ officeUpdate'.at = IF i - 1 = 0 THEN "failed" ELSE "rollback"
        /\ officeUpdate'.item = i - 1
        /\ officeUpdate'.items = officeUpdate.items
        /\ officeUpdate'.aside = officeUpdate.aside
        /\ officeUpdate'.installed = officeUpdate.installed
        /\ SwapTypes' /\ ItemsInOrder'
    BY <1>0, <1>4, RollBackIs
  <2>2. \A p \in Setup!Pieces : /\ Replaced(p) => Replaced(p)'
                                /\ Waiting(p) => content'[p] = before'[p]
    BY <1>0, <1>4, <2>1 DEF Replaced, Waiting, Aside
  <2> HIDE DEF q, i
  <2>3. SwapOrder'
    <3>1. CASE i = 1
      <4>1. \A p \in Setup!Pieces : content'[p] = before'[p]
        BY <1>1, <1>2, <2>2, <3>1
      <4>2. content' = before'
        BY <1>0, <1>1, <1>4, <4>1
      <4> QED
        BY <2>1, <3>1, <4>2 DEF SwapOrder
    <3>2. CASE i # 1
      <4>1. officeUpdate'.at = "rollback"
        BY <1>1, <2>1, <3>2
      <4>2. \A p \in Setup!Pieces :
              IF Turns[p] <= i - 1 THEN Replaced(p)' ELSE content'[p] = before'[p]
        BY <1>1, <1>2, <2>2
      <4>3. \A p \in Setup!Pieces :
              IF Turns[p] < officeUpdate'.item THEN Replaced(p)'
              ELSE IF Turns[p] = officeUpdate'.item THEN Replaced(p)' \/ Emptied(p)'
              ELSE Returned(p)'
        BY <1>1, <2>1, <4>2 DEF Returned
      <4> QED
        BY <4>1, <4>3 DEF SwapOrder
    <3> QED
      BY <3>1, <3>2
  <2>4. PluginsLocked'
    BY <1>0, <1>1, <2>1 DEF SetupInv, PluginsLocked
  <2>5. Honest(content)'
    BY <1>0, <1>4 DEF SetupInv, Honest
  <2> QED
    BY <1>0, <1>1, <1>3, <1>4, <2>1, <2>3, <2>4, <2>5, SetupKept
<1>5. CASE /\ content' = [content EXCEPT ![q] = "none"]
           /\ officeUpdate' = [officeUpdate EXCEPT !.at = "install",
                !.aside = [p \in DOMAIN @ \cup ({q} \cap {r \in Setup!Pieces : content[r] # "none"})
                             |-> IF p = q THEN content[p] ELSE @[p]]]
  <2> HIDE DEF q, i
  <2>1. /\ officeUpdate'.at = "install" /\ officeUpdate'.item = i
        /\ officeUpdate'.items = officeUpdate.items
        /\ officeUpdate'.installed = officeUpdate.installed
        /\ officeUpdate'.aside = [p \in DOMAIN officeUpdate.aside
                                       \cup ({q} \cap {r \in Setup!Pieces : content[r] # "none"})
                                    |-> IF p = q THEN content[p] ELSE officeUpdate.aside[p]]
        /\ officeUpdate' = [at |-> officeUpdate'.at, items |-> officeUpdate'.items,
                            item |-> officeUpdate'.item, aside |-> officeUpdate'.aside,
                            installed |-> officeUpdate'.installed]
    BY <1>1, <1>5 DEF SwapTypes, i
  <2>2. /\ \A p \in Setup!Pieces \ {q} : content'[p] = content[p]
        /\ content'[q] = "none" /\ content' \in [Setup!Pieces -> Setup!Contents]
    BY <1>1, <1>5 DEF Setup!Contents
  <2>3. /\ \A p \in Setup!Pieces \ {q} :
             /\ p \in DOMAIN officeUpdate'.aside <=> p \in DOMAIN officeUpdate.aside
             /\ p \in DOMAIN officeUpdate.aside => officeUpdate'.aside[p] = officeUpdate.aside[p]
        /\ q \notin DOMAIN officeUpdate.aside =>
             /\ q \in DOMAIN officeUpdate'.aside <=> content[q] # "none"
             /\ q \in DOMAIN officeUpdate'.aside => officeUpdate'.aside[q] = content[q]
        /\ DOMAIN officeUpdate'.aside \subseteq Setup!Pieces
    BY <1>1, <2>1 DEF SwapTypes
  <2>4. \A p \in Setup!Pieces \ {q} : (Replaced(p) => Replaced(p)') /\ (Waiting(p) => Waiting(p)')
    BY <1>0, <2>1, <2>2, <2>3 DEF Replaced, Waiting, Aside
  <2>5. Emptied(q)'
    <3>1. Waiting(q)
      BY <1>1, <1>2
    <3>2. \A p \in Setup!Pieces : p = q => Emptied(p)'
      BY <1>0, <2>1, <2>2, <2>3, <3>1 DEF Waiting, Emptied, Aside
    <3>3. q' = q
      BY <2>1 DEF q, i, Setup!Piece
    <3> QED
      BY <1>1, <3>2, <3>3
  <2>6. q' = q
    BY <2>1 DEF q, i, Setup!Piece
  <2>7. SwapOrder'
    <3>1. \A p \in Setup!Pieces :
            IF Turns[p] < i THEN Replaced(p)' ELSE IF Turns[p] = i THEN Emptied(p)' ELSE Waiting(p)'
      BY <1>1, <1>2, <2>4, <2>5, <2>6
    <3> QED
      BY <2>1, <3>1 DEF SwapOrder
  <2>8. SwapTypes'
    BY <1>1, <2>1, <2>3 DEF SwapTypes, SwapStages
  <2>9. ItemsInOrder'
    BY <1>0, <2>1 DEF SetupInv, ItemsInOrder, i
  <2>10. PluginsLocked'
    BY <1>0, <1>1, <2>1 DEF SetupInv, PluginsLocked
  <2>11. Honest(content)'
    <3>1. content'["version"] = "new" => content["version"] = "new"
      BY <1>1, <2>2 DEF Setup!Pieces, Setup!Templates
    <3> QED
      BY <1>0, <2>2, <3>1 DEF SetupInv, Honest, Setup!Pieces, Setup!Templates
  <2> QED
    BY <1>0, <1>1, <1>3, <2>2, <2>7, <2>8, <2>9, <2>10, <2>11, SetupKept
<1> QED
  BY <1>4, <1>5 DEF Setup!MoveAside

LEMMA InstallKeeps ==
  ASSUME SetupInv, Setup!Install
  PROVE  SetupInv'
<1> DEFINE q == Setup!Piece
           i == officeUpdate.item
           n == Len(officeUpdate.items)
<1>0. /\ officeUpdate.at = "install"
      /\ UNCHANGED <<officeConfig, globals, setup, pluginLock, before>>
  BY DEF Setup!Install, Setup!At
<1>1. /\ q \in Setup!Pieces /\ Turns[q] = i /\ i \in 1..5 /\ i <= n /\ n \in {4, 5}
      /\ \A p \in Setup!Pieces : Turns[p] \in 1..5 /\ (p # q => Turns[p] # i)
      /\ content \in [Setup!Pieces -> Setup!Contents] /\ before \in [Setup!Pieces -> Setup!Contents]
      /\ pluginLock = "update" /\ Honest(before) /\ SwapTypes /\ spoiled \subseteq Setup!Pieces
  BY <1>0, AtSwap DEF SetupInv, ItemsInOrder
<1>2. \A p \in Setup!Pieces :
        IF Turns[p] < i THEN Replaced(p) ELSE IF Turns[p] = i THEN Emptied(p) ELSE Waiting(p)
  BY <1>0 DEF SetupInv, SwapOrder
<1>4. CASE content' = content /\ spoiled' = spoiled /\ Setup!RollBack(i)
  <2>0. Honest(before)'
    BY <1>0, <1>1, <1>4 DEF Honest
  <2>1. /\ officeUpdate'.at = "rollback" /\ officeUpdate'.item = i
        /\ officeUpdate'.items = officeUpdate.items
        /\ officeUpdate'.aside = officeUpdate.aside
        /\ officeUpdate'.installed = officeUpdate.installed
        /\ SwapTypes' /\ ItemsInOrder'
    <3>1. i # 0
      BY <1>1
    <3> QED
      BY <1>0, <1>4, <3>1, RollBackIs
  <2>2. \A p \in Setup!Pieces : /\ Replaced(p) => Replaced(p)'
                                /\ Emptied(p) => Emptied(p)'
                                /\ Waiting(p) => content'[p] = before'[p]
    BY <1>0, <1>4, <2>1 DEF Replaced, Waiting, Emptied, Aside
  <2> HIDE DEF q, i, n
  <2>3. SwapOrder'
    <3>1. \A p \in Setup!Pieces :
            IF Turns[p] < i THEN Replaced(p)'
            ELSE IF Turns[p] = i THEN Replaced(p)' \/ Emptied(p)' ELSE Returned(p)'
      BY <1>2, <2>2 DEF Returned
    <3> QED
      BY <2>1, <3>1 DEF SwapOrder
  <2>4. PluginsLocked'
    BY <1>0, <1>1, <2>1 DEF SetupInv, PluginsLocked
  <2>5. Honest(content)'
    BY <1>0, <1>4 DEF SetupInv, Honest
  <2> QED
    BY <1>0, <1>1, <1>4, <2>0, <2>1, <2>3, <2>4, <2>5, SetupKept
<1>5. CASE /\ content' = [content EXCEPT ![q] = "new"]
           /\ officeUpdate' = [officeUpdate EXCEPT
                !.installed = @ \cup {q}, !.item = IF @ = n THEN @ ELSE @ + 1,
                !.at = IF i = n THEN "finalize" ELSE "aside"]
           /\ spoiled' = IF i = n THEN {} ELSE spoiled
  <2>0. officeUpdate' = [officeUpdate EXCEPT
          !.installed = @ \cup {q}, !.item = IF i = n THEN i ELSE i + 1,
          !.at = IF i = n THEN "finalize" ELSE "aside"]
    BY <1>5
  <2> DEFINE j == IF i = n THEN i ELSE i + 1
  <2> HIDE DEF q, i, n
  <2>1. /\ officeUpdate'.at = (IF i = n THEN "finalize" ELSE "aside") /\ officeUpdate'.item = j
        /\ officeUpdate'.items = officeUpdate.items
        /\ officeUpdate'.installed = officeUpdate.installed \cup {q}
        /\ officeUpdate'.aside = officeUpdate.aside
        /\ officeUpdate' = [at |-> officeUpdate'.at, items |-> officeUpdate'.items,
                            item |-> officeUpdate'.item, aside |-> officeUpdate'.aside,
                            installed |-> officeUpdate'.installed]
    BY <1>1, <2>0 DEF SwapTypes
  <2>2. /\ \A p \in Setup!Pieces \ {q} : content'[p] = content[p]
        /\ content'[q] = "new" /\ content' \in [Setup!Pieces -> Setup!Contents]
    BY <1>1, <1>5 DEF Setup!Contents
  <2>3. \A p \in Setup!Pieces : /\ p # q /\ Replaced(p) => Replaced(p)'
                                /\ p # q /\ Waiting(p) => Waiting(p)'
                                /\ p = q /\ Emptied(p) => Replaced(p)'
    BY <1>0, <2>1, <2>2 DEF Replaced, Waiting, Emptied, Aside
  <2>4. \A p \in Setup!Pieces : IF Turns[p] <= i THEN Replaced(p)' ELSE Waiting(p)'
    BY <1>1, <1>2, <2>3
  <2>5. SwapOrder'
    <3>1. CASE i = n
      <4>1. \A p \in Setup!Pieces : Turns[p] <= n => content'[p] = "new"
        BY <2>4, <3>1 DEF Replaced
      <4> QED
        BY <2>1, <3>1, <4>1 DEF SwapOrder, n
    <3>2. CASE i # n
      <4>1. \A p \in Setup!Pieces : IF Turns[p] < j THEN Replaced(p)' ELSE Waiting(p)'
        BY <1>1, <2>4, <3>2
      <4> QED
        BY <2>1, <3>2, <4>1 DEF SwapOrder
    <3> QED
      BY <3>1, <3>2
  <2>6. SwapTypes'
    BY <1>1, <2>1 DEF SwapTypes, SwapStages
  <2>7. ItemsInOrder'
    <3>1. j \in 0..n /\ j # 0
      BY <1>1
    <3>2. j \in 0..Len(officeUpdate.items)
      BY <3>1 DEF n
    <3> HIDE DEF j
    <3> QED
      BY <1>0, <2>1, <3>1, <3>2 DEF SetupInv, ItemsInOrder
  <2>8. PluginsLocked'
    BY <1>0, <1>1, <2>1 DEF SetupInv, PluginsLocked
  <2>9. Honest(content)'
    <3>1. CASE q = "version"
      <4>1. \A p \in Setup!Templates \cup {"nudge"} : p \in Setup!Pieces /\ p # q /\ Turns[p] < Turns["version"]
        BY <3>1 DEF Turns, Setup!Pieces, Setup!Templates
      <4>2. \A p \in Setup!Templates \cup {"nudge"} : content'[p] = "new"
        BY <1>1, <1>2, <2>2, <3>1, <4>1 DEF Replaced
      <4> QED
        BY <4>2 DEF Honest
    <3>2. CASE q # "version" /\ i # n
      BY <1>5, <2>2, <3>2 DEF SetupInv, Honest, Setup!Pieces, Setup!Templates
    <3>3. CASE i = n
      <4>1. \A p \in Setup!Templates \cup {"nudge"} : p \in Setup!Pieces /\ Turns[p] <= 3
        BY DEF Turns, Setup!Pieces, Setup!Templates
      <4>2. \A p \in Setup!Templates \cup {"nudge"} : content'[p] = "new"
        BY <1>1, <2>4, <3>3, <4>1 DEF Replaced
      <4> QED
        BY <4>2 DEF Honest
    <3> QED
      BY <3>1, <3>2, <3>3
  <2>10. officeUpdate'.at \in {"aside", "install", "rollback"} => Honest(before)'
    BY <1>0, <1>1, <1>5, <2>1 DEF Honest
  <2> QED
    BY <1>0, <1>1, <1>5, <2>2, <2>5, <2>6, <2>7, <2>8, <2>9, <2>10, SetupKept
<1> QED
  BY <1>4, <1>5 DEF Setup!Install

LEMMA RollBackItemKeeps ==
  ASSUME SetupInv, Setup!RollBackItem
  PROVE  SetupInv'
<1> DEFINE q == Setup!Piece
           i == officeUpdate.item
<1>0. /\ officeUpdate.at = "rollback" /\ Setup!RollBack(i - 1)
      /\ UNCHANGED <<officeConfig, globals, setup, pluginLock, before>>
      /\ \/ /\ content' = [content EXCEPT ![q] =
                IF q \in DOMAIN officeUpdate.aside THEN officeUpdate.aside[q]
                ELSE IF q \in officeUpdate.installed THEN "none" ELSE @]
            /\ spoiled' = spoiled
         \/ /\ \E what \in {"new", "part", "none"} : content' = [content EXCEPT ![q] = what]
            /\ spoiled' = spoiled \cup {q}
  BY DEF Setup!RollBackItem, Setup!At
<1>1. /\ q \in Setup!Pieces /\ Turns[q] = i /\ i \in 1..5
      /\ \A p \in Setup!Pieces : Turns[p] \in 1..5 /\ (p # q => Turns[p] # i)
      /\ content \in [Setup!Pieces -> Setup!Contents] /\ before \in [Setup!Pieces -> Setup!Contents]
      /\ pluginLock = "update" /\ Honest(before) /\ SwapTypes /\ spoiled \subseteq Setup!Pieces
  BY <1>0, AtSwap
<1>2. \A p \in Setup!Pieces :
        IF Turns[p] < i THEN Replaced(p)
        ELSE IF Turns[p] = i THEN Replaced(p) \/ Emptied(p) ELSE Returned(p)
  BY <1>0 DEF SetupInv, SwapOrder
<1>4. /\ officeUpdate'.at = IF i - 1 = 0 THEN "failed" ELSE "rollback"
      /\ officeUpdate'.item = i - 1
      /\ officeUpdate'.items = officeUpdate.items
      /\ officeUpdate'.aside = officeUpdate.aside
      /\ officeUpdate'.installed = officeUpdate.installed
      /\ SwapTypes' /\ ItemsInOrder'
  BY <1>0, RollBackIs
<1> HIDE DEF q, i
<1>a. spoiled \subseteq spoiled' /\ spoiled' \subseteq Setup!Pieces
  BY <1>0, <1>1
<1>3. Honest(before)'
  BY <1>0, <1>1, <1>a DEF Honest
<1>5. /\ content'[q] = before[q] \/ (q \in spoiled' /\ content'[q] # "old")
      /\ content' \in [Setup!Pieces -> Setup!Contents]
      /\ \A p \in Setup!Pieces \ {q} : content'[p] = content[p]
  <2>1. Replaced(q) \/ Emptied(q)
    BY <1>1, <1>2
  <2> QED
    BY <1>0, <1>1, <2>1 DEF Replaced, Emptied, Aside, Setup!Contents
<1>6. \A p \in Setup!Pieces :
        IF Turns[p] <= i - 1 THEN Replaced(p) /\ Replaced(p)'
        ELSE content'[p] = before[p] \/ (p \in spoiled' /\ content'[p] # "old")
  <2>1. \A p \in Setup!Pieces : p # q /\ Replaced(p) => Replaced(p)'
    BY <1>0, <1>4, <1>5 DEF Replaced, Aside
  <2> QED
    BY <1>1, <1>2, <1>5, <1>a, <2>1 DEF Returned
<1>7. SwapOrder'
  <2>1. CASE i = 1
    <3>1. \A p \in Setup!Pieces \ spoiled' : content'[p] = before[p]
      BY <1>1, <1>6, <2>1
    <3>2. officeUpdate'.at = "failed"
      BY <1>4, <2>1
    <3> QED
      BY <1>0, <3>1, <3>2 DEF SwapOrder
  <2>2. CASE i # 1
    <3>1. officeUpdate'.at = "rollback"
      BY <1>1, <1>4, <2>2
    <3>2. \A p \in Setup!Pieces :
            IF Turns[p] < officeUpdate'.item THEN Replaced(p)'
            ELSE IF Turns[p] = officeUpdate'.item THEN Replaced(p)' \/ Emptied(p)'
            ELSE Returned(p)'
      BY <1>0, <1>1, <1>4, <1>6 DEF Returned
    <3> QED
      BY <3>1, <3>2 DEF SwapOrder
  <2> QED
    BY <2>1, <2>2
<1>8. PluginsLocked'
  BY <1>0, <1>1, <1>4 DEF SetupInv, PluginsLocked
<1>9. Honest(content)'
  <2>0. /\ Setup!Templates \cup {"nudge"} \subseteq Setup!Pieces /\ "version" \in Setup!Pieces
        /\ Turns["version"] = 4 /\ \A p \in Setup!Templates \cup {"nudge"} : Turns[p] < 4
    BY DEF Turns, Setup!Pieces, Setup!Templates
  <2>1. CASE i <= 4 /\ "version" \notin spoiled'
    <3>1. content'["version"] = before["version"]
      BY <1>1, <1>6, <2>0, <2>1
    <3>2. before["version"] = "new" => \A p \in Setup!Templates \cup {"nudge"} : before[p] # "old"
      BY <1>1, <1>a, <2>1 DEF Honest
    <3>3. content'["version"] = "new" => \A p \in Setup!Templates \cup {"nudge"} : content'[p] # "old"
      BY <1>1, <1>6, <2>0, <3>1, <3>2 DEF Replaced
    <3> QED
      BY <3>3 DEF Honest
  <2>2. CASE i = 5
    <3>1. \A p \in Setup!Templates \cup {"nudge"} : Replaced(p)'
      BY <1>1, <1>6, <2>0, <2>2
    <3>2. \A p \in Setup!Templates \cup {"nudge"} : content'[p] = "new"
      BY <3>1 DEF Replaced
    <3> QED
      BY <3>2 DEF Honest
  <2>3. CASE "version" \in spoiled'
    BY <2>3 DEF Honest
  <2> QED
    BY <1>1, <2>1, <2>2, <2>3
<1> QED
  BY <1>0, <1>1, <1>3, <1>4, <1>5, <1>7, <1>8, <1>9, <1>a, SetupKept

LEMMA SetupInvStep ==
  ASSUME SetupInv, [Next]_vars
  PROVE  SetupInv'
<1>1. CASE Setup!SetupStep \/ Setup!SetupDies
  BY <1>1, BeginsKeep, ConfigureKeeps, DefaultsKeep, BundledKeep, FinishKeeps DEF Setup!SetupStep
<1>2. CASE Setup!UpdateStep \/ Setup!UpdateDies
  BY <1>2, SwapOpens, SwapCloses, MoveAsideKeeps, InstallKeeps, RollBackItemKeeps
  DEF Setup!UpdateStep
<1>3. CASE Setup!UserEdits \/ Setup!NewBinary
  BY <1>3, WorldKeeps
<1>4. CASE UNCHANGED setupVars
  <2>1. OfficeTypes' /\ PluginsLocked' /\ SetupOrder' /\ FreshMakes' /\ Honest(content)'
    BY <1>4 DEF setupVars, SetupInv, OfficeTypes, PluginsLocked, SetupOrder, FreshMakes, Honest
  <2> QED
    BY <1>4, <2>1, SwapKept DEF setupVars
<1> QED
  BY <1>1, <1>2, <1>3, <1>4, SetupMoves DEF Setup!Next

LEMMA SetupBegins == Init => SetupInv
<1> SUFFICES ASSUME Setup!Init PROVE SetupInv
  BY DEF Init
<1>1. /\ content \in [Setup!Pieces -> Setup!Contents] /\ content["version"] # "new"
      /\ ~officeConfig.exists => \A p \in Setup!Pieces : content[p] # "old"
      /\ officeConfig \in [exists : BOOLEAN, tools : {"absent", "builtin", "other"}, extra : BOOLEAN]
  <2>1. CASE /\ officeConfig = Setup!NoConfig /\ content \in [Setup!Pieces -> {"none", "mine"}]
             /\ content["version"] = "none"
    BY <2>1 DEF Setup!NoConfig, Setup!Contents, Setup!Pieces
  <2>2. CASE /\ officeConfig = [Setup!NoConfig EXCEPT !.exists = TRUE, !.tools = "builtin"]
             /\ content \in [Setup!Pieces -> {"old", "mine"}] /\ content["version"] = "old"
    BY <2>2 DEF Setup!NoConfig, Setup!Contents, Setup!Pieces
  <2> QED
    BY <2>1, <2>2 DEF Setup!Init
<1>2. /\ setup.at = "idle" /\ ~setup.fresh /\ pluginLock = "none" /\ before = content /\ spoiled = {}
      /\ setup \in [at : SetupStages, fresh : BOOLEAN, extra : {"no", "local", "global"}]
  BY DEF Setup!Init, Setup!NoSetup, SetupStages
<1>3. SwapTypes /\ officeUpdate.at = "idle"
  BY DEF Setup!Init, Setup!NoUpdate, SwapTypes, SwapStages
<1>4. OfficeTypes /\ PluginsLocked /\ SetupOrder
  BY <1>1, <1>2, <1>3 DEF OfficeTypes, PluginsLocked, SetupOrder
<1>5. FreshMakes /\ SwapOrder /\ Honest(content) /\ ItemsInOrder
  BY <1>1, <1>2, <1>3 DEF FreshMakes, SwapOrder, Honest, ItemsInOrder
<1> QED
  BY <1>3, <1>4, <1>5 DEF SetupInv

LEMMA SetupCorrect == Spec => []SetupInv
<1>1. SetupInv /\ [Next]_vars => SetupInv'
  BY SetupInvStep
<1> QED
  BY <1>1, SetupBegins, PTL DEF Spec

LEMMA SetupTypes == Spec => []Setup!TypeOK
<1>1. SetupInv => Setup!TypeOK
  BY DEF SetupInv, OfficeTypes, SwapTypes, SetupStages, SwapStages, Setup!TypeOK
<1> QED
  BY <1>1, SetupCorrect, PTL

\* The steps of a setup by where they lead.
LEMMA SetupLeads ==
  ASSUME SetupInv, [Next]_vars
  PROVE  \/ setup' = setup
         \/ setup'.at \in {"lock", "global", "marker", "idle"}
         \/ \E step \in SetupStages \ {"done"} : Setup!Then(step)
         \/ ~setup.fresh /\ setup.at \in {"tools", "record"} /\ Setup!Then("done")
            /\ (Setup!EnsureTools \/ Setup!RecordTools)
         \/ setup.at = "overlay" /\ Setup!Then("done") /\ Setup!ApplyTemplate
<1>1. CASE Setup!SetupStarts
  <2>1. \/ setup' = [Setup!NoSetup EXCEPT !.at = "lock"]
        \/ \E extra \in {"no", "local", "global"} :
             setup' = [at |-> IF extra = "global" THEN "global" ELSE "marker",
                       fresh |-> TRUE, extra |-> extra]
    BY <1>1 DEF Setup!SetupStarts
  <2> QED
    BY <2>1 DEF Setup!NoSetup
<1>2. CASE Setup!SetupEnds \/ Setup!SetupDies
  BY <1>2 DEF Setup!SetupEnds, Setup!SetupDies, Setup!NoSetup
<1>3. CASE \/ Setup!InstallGlobally \/ Setup!WriteMarker \/ Setup!Configure \/ Setup!LockPlugins
           \/ Setup!EnsureNudge \/ Setup!WriteVersion
           \/ Setup!WriteDefaults("messages", "prompts") \/ Setup!WriteDefaults("prompts", "lock")
  BY <1>3 DEF Setup!InstallGlobally, Setup!WriteMarker, Setup!Configure, Setup!LockPlugins,
     Setup!EnsureNudge, Setup!WriteVersion, Setup!WriteDefaults, Setup!SetupFails, SetupStages
<1>4. CASE Setup!EnsureTools \/ Setup!RecordTools
  BY <1>4 DEF Setup!EnsureTools, Setup!RecordTools, Setup!SetupFails, Setup!Unlock, SetupStages,
     Setup!Here
<1>5. CASE Setup!ApplyTemplate
  BY <1>5 DEF Setup!ApplyTemplate, Setup!SetupFails, SetupStages, Setup!Here
<1>6. CASE \/ Setup!UpdateStep \/ Setup!UpdateDies \/ Setup!UserEdits \/ Setup!NewBinary
           \/ UNCHANGED setupVars
  BY <1>6 DEF Setup!UpdateStep, Setup!UpdateStarts, Setup!UpdateLocks, Setup!Stage, Setup!MoveAside,
     Setup!Install, Setup!RollBackItem, Setup!Finalize, Setup!UpdateEnds, Setup!UserEdits,
     Setup!NewBinary, Setup!UpdateDies, setupVars
<1> QED
  BY <1>1, <1>2, <1>3, <1>4, <1>5, <1>6, SetupMoves DEF Setup!Next, Setup!SetupStep

\* A setup that reaches its end has made an office, and one that fails leaves no marker.
LEMMA SetupMakes ==
  ASSUME SetupInv, SetupInv', [Next]_vars
  PROVE  /\ ~Setup!Here("done") /\ Setup!Here("done")' =>
              /\ officeConfig'.exists /\ content'["nudge"] # "none"
              /\ officeConfig'.tools = "builtin" => content'["tools"] # "none"
              /\ setup.fresh => /\ content'["version"] = "new"
                                /\ \A p \in Setup!Templates : content'[p] \in {"new", "mine"}
                                /\ setup.extra = "local" => officeConfig'.extra
                                /\ setup.extra = "global" => globals'
         /\ ~Setup!Here("failed") /\ Setup!Here("failed")' /\ setup.fresh => ~officeConfig'.exists
<1> USE DEF Setup!Here
<1>1. ASSUME setup'.at = "failed", setup.at # "failed", setup.fresh PROVE ~officeConfig'.exists
  <2>1. setup'.fresh
    BY <1>1, SetupLeads, ThenIs DEF SetupStages
  <2> QED
    BY <1>1, <2>1 DEF SetupInv, SetupOrder
<1>2. ASSUME setup'.at = "done", setup.at # "done"
      PROVE  /\ officeConfig'.exists /\ content'["nudge"] # "none"
             /\ officeConfig'.tools = "builtin" => content'["tools"] # "none"
             /\ setup.fresh => /\ content'["version"] = "new"
                               /\ \A p \in Setup!Templates : content'[p] \in {"new", "mine"}
                               /\ setup.extra = "local" => officeConfig'.extra
                               /\ setup.extra = "global" => globals'
  <2>1. \/ ~setup.fresh /\ setup.at \in {"tools", "record"} /\ Setup!Then("done")
           /\ (Setup!EnsureTools \/ Setup!RecordTools)
        \/ setup.at = "overlay" /\ Setup!Then("done") /\ Setup!ApplyTemplate
    BY <1>2, SetupLeads, ThenIs
  <2>2. /\ content \in [Setup!Pieces -> Setup!Contents]
        /\ officeConfig \in [exists : BOOLEAN, tools : {"absent", "builtin", "other"}, extra : BOOLEAN]
        /\ officeConfig'.exists /\ officeConfig.exists
    BY <1>2, <2>1 DEF SetupInv, OfficeTypes, SetupOrder
  <2>3. ~Setup!Then("failed") /\ ~Setup!Then("record")
    BY <1>2, ThenIs DEF SetupStages
  <2>4. CASE ~setup.fresh /\ Setup!EnsureTools
    BY <2>2, <2>3, <2>4 DEF Setup!EnsureTools, Setup!SetupFails, Setup!ToolsShouldInstall, SetupInv,
       SetupOrder
  <2>5. CASE ~setup.fresh /\ Setup!RecordTools
    BY <2>2, <2>3, <2>5 DEF Setup!RecordTools, Setup!SetupFails, SetupInv, SetupOrder
  <2>6. CASE setup.at = "overlay" /\ Setup!ApplyTemplate
    <3>1. /\ UNCHANGED <<officeConfig, globals>> /\ setup.fresh
          /\ \E copied \in SUBSET Setup!Templates :
               content' = [p \in Setup!Pieces |-> IF p \in copied THEN "mine" ELSE content[p]]
      BY <2>3, <2>6 DEF Setup!ApplyTemplate, Setup!SetupFails, SetupInv, SetupOrder
    <3>2. \A p \in Setup!Pieces : content'[p] = content[p] \/ (p \in Setup!Templates /\ content'[p] = "mine")
      BY <2>2, <3>1
    <3> QED
      BY <2>2, <2>6, <3>1, <3>2 DEF SetupInv, FreshMakes, Setup!Pieces, Setup!Templates
  <2> QED
    BY <2>1, <2>4, <2>5, <2>6
<1> QED
  BY <1>1, <1>2

\* A setup that succeeds leaves a whole office and one that fails no marker, or
\* says that the marker is still there; an update replaces all pieces or none,
\* but for those that its rollback could not put back; and the version marker
\* vouches for nothing an older binary wrote, unless a rollback could not remove
\* it (SetupWithTemplate, Update, rollback), whatever the user edits, fails or dies.
THEOREM OfficesAreTrue == Spec => Setup!OfficeFilesAreWhole
<1>1. SetupInv => Setup!UpdateIsAtomic /\ Setup!MarkerIsHonest
  <2> SUFFICES ASSUME SetupInv PROVE Setup!UpdateIsAtomic /\ Setup!MarkerIsHonest
    OBVIOUS
  <2>1. Setup!MarkerIsHonest
    BY DEF SetupInv, Honest, Setup!MarkerIsHonest
  <2>2. officeUpdate.at = "failed" => \A p \in Setup!Pieces \ spoiled : content[p] = before[p]
    BY DEF SetupInv, SwapOrder
  <2>3. ASSUME officeUpdate.at = "updated", NEW i \in DOMAIN officeUpdate.items
        PROVE  content[officeUpdate.items[i]] = "new"
    <3>1. /\ Len(officeUpdate.items) \in {4, 5}
          /\ \A k \in 1..5 : k <= Len(officeUpdate.items) =>
               officeUpdate.items[k] \in Setup!Pieces /\ Turns[officeUpdate.items[k]] = k
      BY <2>3 DEF SetupInv, ItemsInOrder
    <3>2. i \in 1..5 /\ i <= Len(officeUpdate.items)
      BY <2>3, <3>1
    <3>3. officeUpdate.items[i] \in Setup!Pieces /\ Turns[officeUpdate.items[i]] = i
      BY <3>1, <3>2
    <3>4. \A p \in Setup!Pieces : Turns[p] <= Len(officeUpdate.items) => content[p] = "new"
      BY <2>3 DEF SetupInv, SwapOrder
    <3> QED
      BY <3>2, <3>3, <3>4
  <2> QED
    BY <2>1, <2>2, <2>3 DEF Setup!UpdateIsAtomic, Setup!At
<1>2. SetupInv /\ SetupInv' /\ [Next]_vars =>
        [/\ ~Setup!Here("done") /\ Setup!Here("done")' =>
              /\ officeConfig'.exists /\ content'["nudge"] # "none"
              /\ officeConfig'.tools = "builtin" => content'["tools"] # "none"
              /\ setup.fresh => /\ content'["version"] = "new"
                                /\ \A p \in Setup!Templates : content'[p] \in {"new", "mine"}
                                /\ setup.extra = "local" => officeConfig'.extra
                                /\ setup.extra = "global" => globals'
         /\ ~Setup!Here("failed") /\ Setup!Here("failed")' /\ setup.fresh => ~officeConfig'.exists
        ]_Setup!vars
  BY SetupMakes
<1> QED
  BY <1>1, <1>2, SetupCorrect, PTL DEF Spec, Setup!OfficeFilesAreWhole, Setup!SetupIsWhole

-----------------------------------------------------------------------------
\* However installs, updates, edits, failures and crashes overlap: what an
\* update of plugins reports is what it did, a plugin that was whole is whole on
\* disk, an office's pieces are all old or all new again, and the program that is
\* in place is a whole release - but for the failures that the parts name (a
\* directory that cannot be removed or put back, and on windows an executable
\* that stays moved aside).
THEOREM FilesAreSafe == Spec => FilesAreWhole
  BY UpdatesAreTrue, OfficesAreTrue, ExecutablesAreTrue DEF FilesAreWhole
=============================================================================
