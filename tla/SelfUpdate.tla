------------------------------ MODULE SelfUpdate ------------------------------
(***************************************************************************)
(* The program replacing itself (src/internal/selfupdate, the self-update  *)
(* command of src/internal/cli/self_update.go and the check at start of    *)
(* startup.go): several processes may download, verify, stage and install  *)
(* a release over the one executable they all were started from, each may  *)
(* end at any step, and a version the user asked for is pinned by turning  *)
(* the office's check_self_update off before it is installed.              *)
(*                                                                         *)
(* A release is its version number; a file is the release it holds.        *)
(***************************************************************************)
EXTENDS Integers

CONSTANTS Updaters,         \* processes that may update at once
          Releases,         \* the versions GitHub ever publishes, 1 the oldest
          MaxSelfUpdates    \* bound on the processes started

VARIABLES
    platform,   \* "unix" or "windows": replace_unix.go, replace_windows.go
    binary,     \* the executable: a release, Missing or Broken
    previous,   \* windows: the executable moved aside
    latest,     \* the newest published release
    checks,     \* the office's startup.check_self_update
    updater,    \* what each process does
    asked,      \* ghost: a version asked for in the office has been installed
    discarded,    \* ghost: a backup was removed while it was the only copy
    selfUpdates \* processes the run may still start

selfUpdateVars == <<platform, binary, previous, latest, checks, updater, asked, discarded, selfUpdates>>

Missing == 0
Broken == -1
Ended == [kind |-> "none", step |-> "idle", running |-> 0, release |-> 0,
          archive |-> 0, office |-> FALSE, after |-> FALSE]

TypeOK ==
    /\ platform \in {"unix", "windows"}
    /\ {binary, previous} \subseteq Releases \union {Missing, Broken}
    /\ latest \in Releases /\ checks \in BOOLEAN /\ asked \in BOOLEAN /\ discarded \in BOOLEAN
    /\ updater \in [Updaters -> [kind : {"none", "start", "newest", "exact"},
           step : {"idle", "looking", "pinning", "fetching", "verifying", "staging", "replacing", "cleared", "aside"},
           running : Releases \union {0}, release : Releases \union {0},
           archive : Releases \union {0, Broken}, office : BOOLEAN, after : BOOLEAN]]
    /\ selfUpdates \in 0..MaxSelfUpdates

Init ==
    /\ platform \in {"unix", "windows"}
    /\ binary = 1 /\ previous = Missing /\ latest \in {r \in Releases : r < 3}
    /\ checks = TRUE /\ asked = FALSE /\ discarded = FALSE
    /\ updater = [u \in Updaters |-> Ended]
    /\ selfUpdates = MaxSelfUpdates

Moves(u, from, to) == updater[u].step = from /\ updater' = [updater EXCEPT ![u].step = to]
Ends(u) == updater' = [updater EXCEPT ![u] = Ended]

----------------------------------------------------------------------------
\* A new release is published.
Publishes ==
    /\ latest + 1 \in Releases /\ latest' = latest + 1
    /\ UNCHANGED <<platform, binary, previous, checks, updater, asked, discarded, selfUpdates>>

\* An office starts and its configuration asks for the check
\* (runStartupChecks), or the user runs self-update, inside an office or not,
\* with or without the exact version.
Runs(u, kind, office) ==
    /\ updater[u] = Ended /\ binary \in Releases /\ selfUpdates > 0
    /\ kind = "start" => (office /\ checks)
    /\ updater' = [updater EXCEPT ![u] = [kind |-> kind, step |-> "looking", running |-> binary,
                      release |-> 0, archive |-> 0, office |-> office, after |-> asked]]
    /\ selfUpdates' = selfUpdates - 1
    /\ UNCHANGED <<platform, binary, previous, latest, checks, asked, discarded>>

\* IsNewer.
IsNewer(current, release) == release > current

\* Latest, or Release with the tag that was asked for: without one, only a
\* newer release goes on (and at start the user has said yes).
Looks(u, release) ==
    /\ updater[u].step = "looking"
    /\ IF updater[u].kind = "exact"
       THEN /\ release <= latest
            /\ updater' = [updater EXCEPT ![u].release = release, ![u].step = "pinning"]
       ELSE /\ release = latest
            /\ IF IsNewer(updater[u].running, release)
               THEN updater' = [updater EXCEPT ![u].release = release, ![u].step = "fetching"]
               ELSE Ends(u)
    /\ UNCHANGED <<platform, binary, previous, latest, checks, asked, discarded, selfUpdates>>

\* MUTANT of AfterPin: the check is turned off when the version is installed.
PinsNothing(u) == checks

\* installSelfUpdate: the office's check is off before its version is installed.
AfterPin(u) == checks /\ ~updater[u].office

Pins(u) ==
    /\ Moves(u, "pinning", "fetching")
    /\ checks' = AfterPin(u)
    /\ UNCHANGED <<platform, binary, previous, latest, asked, discarded, selfUpdates>>

\* The archive is downloaded, as it was published or not.
Fetches(u, archive) ==
    /\ updater[u].step = "fetching" /\ archive \in {updater[u].release, Broken}
    /\ updater' = [updater EXCEPT ![u].archive = archive, ![u].step = "verifying"]
    /\ UNCHANGED <<platform, binary, previous, latest, checks, asked, discarded, selfUpdates>>

\* MUTANT of Verified: the checksum is not compared.
VerifiesNothing(u) == TRUE

\* Install: the archive's SHA-256 is the one SHA256SUMS names.
Verified(u) == updater[u].archive = updater[u].release

Verifies(u) ==
    /\ updater[u].step = "verifying"
    /\ IF Verified(u) THEN updater' = [updater EXCEPT ![u].step = "staging"] ELSE Ends(u)
    /\ UNCHANGED <<platform, binary, previous, latest, checks, asked, discarded, selfUpdates>>

\* installBinary: a file of the process's own is written, synced and closed.
\* Whatever fails here ends the update with the executable as it was.
Stages(u) ==
    /\ Moves(u, "staging", "replacing")
    /\ UNCHANGED <<platform, binary, previous, latest, checks, asked, discarded, selfUpdates>>

\* The version the user asked for is in place.
AskedBy(u) == updater[u].kind = "exact" /\ updater[u].office

\* MUTANT of Renames: the executable is truncated and written in place.
WritesInPlace(u) ==
    /\ platform = "unix" /\ updater[u].step \in {"replacing", "cleared"}
    /\ IF updater[u].step = "replacing"
       THEN binary' = Broken /\ updater' = [updater EXCEPT ![u].step = "cleared"] /\ UNCHANGED asked
       ELSE binary' = updater[u].archive /\ Ends(u) /\ asked' = (asked \/ AskedBy(u))
    /\ UNCHANGED <<platform, previous, latest, checks, discarded, selfUpdates>>

\* replaceExecutable on unix: one rename.
Renames(u) ==
    /\ platform = "unix" /\ updater[u].step = "replacing"
    /\ binary' = updater[u].archive /\ Ends(u)
    /\ asked' = (asked \/ AskedBy(u))
    /\ UNCHANGED <<platform, previous, latest, checks, discarded, selfUpdates>>

\* ... on windows: an older backup is removed, or stays where it cannot be,
ClearsBackup(u) ==
    /\ platform = "windows" /\ Moves(u, "replacing", "cleared")
    /\ \/ previous' = Missing /\ discarded' = (discarded \/ binary = Missing)
       \/ UNCHANGED <<previous, discarded>>
    /\ UNCHANGED <<platform, binary, latest, checks, asked, selfUpdates>>

\* the running executable is moved aside, if there is one,
MovesAside(u) ==
    /\ platform = "windows" /\ updater[u].step = "cleared"
    /\ IF binary = Missing
       THEN Ends(u) /\ UNCHANGED <<binary, previous>>
       ELSE /\ previous' = binary /\ binary' = Missing
            /\ updater' = [updater EXCEPT ![u].step = "aside"]
    /\ UNCHANGED <<platform, latest, checks, asked, discarded, selfUpdates>>

\* and the new one is moved in and the backup removed, unless it is still
\* running; when that fails the backup is moved back - where even that fails,
\* the update Stops with the backup where it is.
MovesIn(u, ok) ==
    /\ platform = "windows" /\ updater[u].step = "aside"
    /\ IF ok
       THEN /\ binary' = updater[u].archive /\ asked' = (asked \/ AskedBy(u))
            /\ previous' \in {previous, Missing}
       ELSE /\ binary' = (IF previous = Missing THEN binary ELSE previous)
            /\ previous' = Missing /\ UNCHANGED asked
    /\ Ends(u)
    /\ UNCHANGED <<platform, latest, checks, discarded, selfUpdates>>

\* The process ends or fails at any step before the last.
Stops(u) ==
    /\ updater[u] # Ended
    /\ Ends(u)
    /\ UNCHANGED <<platform, binary, previous, latest, checks, asked, discarded, selfUpdates>>

----------------------------------------------------------------------------
Next ==
    \/ Publishes
    \/ \E u \in Updaters :
         \/ \E kind \in {"start", "newest", "exact"}, office \in BOOLEAN : Runs(u, kind, office)
         \/ \E release \in Releases : Looks(u, release)
         \/ \E archive \in Releases \union {Broken} : Fetches(u, archive)
         \/ Pins(u) \/ Verifies(u) \/ Stages(u) \/ Renames(u)
         \/ ClearsBackup(u) \/ MovesAside(u)
         \/ \E ok \in BOOLEAN : MovesIn(u, ok)
         \/ Stops(u)

Spec == Init /\ [][Next]_selfUpdateVars

----------------------------------------------------------------------------
\* Wherever an update ends, the user has a whole, verified executable: in its
\* place, or on windows moved aside by the update that ended. (A second update
\* that was already under way there removes the backup the first one left.)
BinaryIsWhole ==
    /\ binary # Broken
    /\ binary = Missing => (platform = "windows" /\ (previous \in Releases \/ discarded))

\* A start does not replace a version the user asked for in that office before.
AskedVersionStays ==
    \A u \in Updaters : updater[u].after => updater[u].kind # "start"

ExecutableIsTrue == BinaryIsWhole /\ AskedVersionStays
=============================================================================
