-------------------------- MODULE HomeCompanyProofs --------------------------
(***************************************************************************)
(* Proofs about the company, for all values of Home's constants: its       *)
(* commands, the process that serves it and its terminals.  For each part: *)
(* its inductive invariant, that every step keeps it, and what the part is *)
(* promised.                                                               *)
(***************************************************************************)
EXTENDS Home, FiniteSetTheorems, SequenceTheorems, TLAPS

-----------------------------------------------------------------------------
(* Commands of the dashboard's client.                                      *)

LEMMA SameCardinality ==
  ASSUME NEW S
  PROVE  Command!Cardinality(S) = Cardinality(S)
  BY DEF Command!Cardinality, Cardinality

LEMMA CommandMoves ==
  ASSUME [Next]_vars
  PROVE  Command!Next \/ UNCHANGED commandVars
  BY DEF Next, vars, Others

CommandTypes ==
  /\ Command!TypeOK
  /\ client \in [Commands -> {"sending", "sent", "tooMuch", "gone"}]
  /\ input \in [Commands -> {"open", "closed"}]
  /\ cancel \subseteq Commands

\* A handler that has not started its child has no copier either; one that waited
\* has a child that is over.
HandlerInStep(c) ==
  /\ handler[c] \in {"none", "parsing", "starting", "refused"} =>
       command[c] = "none" /\ copier[c] = "none"
  /\ handler[c] \in {"settling", "releasing", "joining", "ended"} => command[c] \in {"exited", "killed"}

\* A child is killed because its client is gone or sent what cannot be read to
\* the end, which the copier remembers.
InputFailed(c) == client[c] = "gone" \/ copier[c] \in {"tooMuch", "broken"}
KilledFor(c) ==
  /\ copier[c] = "tooMuch" => client[c] = "tooMuch"
  /\ copier[c] = "broken" => client[c] = "gone"
  /\ c \in cancel => handler[c] = "ended" \/ InputFailed(c)
  /\ command[c] = "killed" => InputFailed(c)

\* What the exit event says.
EventSays(c) ==
  /\ event[c] = "status" => command[c] = "exited"
  /\ event[c] = "killed" => client[c] = "gone"
  /\ event[c] = "broken" => client[c] = "gone"
  /\ event[c] = "tooMuch" => client[c] = "tooMuch"

\* The commands that have a place.
Placed == {c \in Commands : handler[c] \notin {"none", "refused", "ended"}}
SlotsTaken == slots \in Nat /\ slots = Cardinality(Placed) /\ slots <= MaxCommands

CommandInv ==
  /\ CommandTypes /\ SlotsTaken
  /\ \A c \in Commands : HandlerInStep(c) /\ KilledFor(c) /\ EventSays(c)

\* A step of one command keeps the places in order.
LEMMA PlacesStep ==
  ASSUME CommandInv, NEW c \in Commands,
         \A d \in Commands \ {c} : handler'[d] = handler[d],
         \/ (c \in Placed <=> c \in Placed') /\ slots' = slots
         \/ c \notin Placed /\ c \in Placed' /\ slots < MaxCommands /\ slots' = slots + 1
         \/ c \in Placed /\ c \notin Placed' /\ slots' = slots - 1
  PROVE  SlotsTaken'
<1>1. IsFiniteSet(Placed) /\ MaxCommands \in Nat
  BY HomeConstants, FS_Subset DEF Placed
<1>2. Placed \subseteq Commands /\ Placed' \subseteq Commands
  BY DEF Placed
<1>3. \A d \in Commands \ {c} : d \in Placed' <=> d \in Placed
  BY DEF Placed
<1>4. CASE (c \in Placed <=> c \in Placed') /\ slots' = slots
  <2>1. Placed' = Placed
    BY <1>2, <1>3, <1>4
  <2> QED
    BY <1>4, <2>1 DEF CommandInv, SlotsTaken
<1>5. CASE c \notin Placed /\ c \in Placed' /\ slots < MaxCommands /\ slots' = slots + 1
  <2>1. Placed' = Placed \cup {c}
    BY <1>2, <1>3, <1>5
  <2>2. Cardinality(Placed') = Cardinality(Placed) + 1 /\ Cardinality(Placed) \in Nat
    BY <1>1, <1>5, <2>1, FS_AddElement, FS_CardinalityType
  <2> QED
    BY <1>1, <1>5, <2>2 DEF CommandInv, SlotsTaken
<1>6. CASE c \in Placed /\ c \notin Placed' /\ slots' = slots - 1
  <2>1. Placed' = Placed \ {c}
    BY <1>2, <1>3, <1>6
  <2>2. Cardinality(Placed') = Cardinality(Placed) - 1 /\ Cardinality(Placed') \in Nat
    BY <1>1, <1>6, <2>1, FS_RemoveElement, FS_Subset, FS_CardinalityType
  <2> QED
    BY <1>1, <1>6, <2>2 DEF CommandInv, SlotsTaken
<1> QED
  BY <1>4, <1>5, <1>6

\* A step of the command c concerns no other command.
Alone(c) ==
  /\ \A d \in Commands \ {c} :
       /\ handler'[d] = handler[d] /\ command'[d] = command[d] /\ client'[d] = client[d]
       /\ copier'[d] = copier[d] /\ event'[d] = event[d]
       /\ d \in cancel' <=> d \in cancel
  /\ CommandTypes'

\* What is true of a command stays so in a step of another one.
LEMMA OthersKept ==
  ASSUME CommandInv, NEW c \in Commands, Alone(c),
         HandlerInStep(c)', KilledFor(c)', EventSays(c)', SlotsTaken'
  PROVE  CommandInv'
<1> SUFFICES ASSUME NEW d \in Commands
             PROVE  HandlerInStep(d)' /\ KilledFor(d)' /\ EventSays(d)'
  BY DEF CommandInv, Alone
<1>1. CASE d = c
  BY <1>1
<1>2. CASE d # c
  BY <1>2 DEF CommandInv, Alone, HandlerInStep, KilledFor, EventSays, InputFailed
<1> QED
  BY <1>1, <1>2

\* Every step of a handler, a child, a copier and a client keeps the invariant.
LEMMA CommandStep ==
  ASSUME CommandInv, Command!Next
  PROVE  CommandInv'
<1> PICK c \in Commands :
      \/ Command!Handles(c) \/ Command!Exits(c) \/ Command!Killed(c) \/ Command!CopierReads(c)
      \/ Command!CopierWrites(c) \/ Command!ClientActs(c)
  BY DEF Command!Next
<1>0. /\ CommandTypes /\ HandlerInStep(c) /\ KilledFor(c) /\ EventSays(c)
      /\ slots \in Nat
  BY DEF CommandInv, SlotsTaken
<1> USE <1>0 DEF Command!At, Command!Goes, Command!GivesBack, Command!Errors, Command!CopierEnded
<1>1. CASE Command!Arrives(c)
  <2>1. Alone(c) /\ HandlerInStep(c)' /\ KilledFor(c)' /\ EventSays(c)'
    <3>1. CommandTypes'
      BY <1>1 DEF Command!Arrives, CommandTypes, Command!TypeOK
    <3>2. Alone(c)
      BY <1>1, <3>1 DEF Command!Arrives, Alone, CommandTypes, Command!TypeOK
    <3>3. HandlerInStep(c)'
      BY <1>1 DEF Command!Arrives, CommandTypes, Command!TypeOK, HandlerInStep
    <3>4. KilledFor(c)'
      BY <1>1 DEF Command!Arrives, CommandTypes, Command!TypeOK, HandlerInStep, KilledFor, InputFailed
    <3>5. EventSays(c)'
      BY <1>1 DEF Command!Arrives, CommandTypes, Command!TypeOK, HandlerInStep, KilledFor, InputFailed,
         EventSays
    <3> QED
      BY <3>2, <3>3, <3>4, <3>5
  <2>2. SlotsTaken'
    <3>1. \/ slots' = slots /\ handler'[c] = "refused"
          \/ slots < MaxCommands /\ slots' = slots + 1 /\ handler'[c] = "parsing"
      BY <1>1 DEF Command!Arrives, CommandTypes, Command!TypeOK
    <3>2. handler[c] = "none" /\ \A d \in Commands \ {c} : handler'[d] = handler[d]
      BY <1>1, <2>1 DEF Command!Arrives, Alone
    <3> QED
      BY <3>1, <3>2, PlacesStep DEF Placed
  <2> QED
    BY <2>1, <2>2, OthersKept
<1>2. CASE Command!Parses(c)
  <2>1. Alone(c) /\ HandlerInStep(c)' /\ KilledFor(c)' /\ EventSays(c)'
    <3>1. CommandTypes'
      BY <1>2 DEF Command!Parses, CommandTypes, Command!TypeOK
    <3>2. Alone(c)
      BY <1>2, <3>1 DEF Command!Parses, Alone, CommandTypes, Command!TypeOK
    <3>3. HandlerInStep(c)'
      BY <1>2 DEF Command!Parses, CommandTypes, Command!TypeOK, HandlerInStep
    <3>4. KilledFor(c)'
      BY <1>2 DEF Command!Parses, CommandTypes, Command!TypeOK, HandlerInStep, KilledFor, InputFailed
    <3>5. EventSays(c)'
      BY <1>2 DEF Command!Parses, CommandTypes, Command!TypeOK, HandlerInStep, KilledFor, InputFailed,
         EventSays
    <3> QED
      BY <3>2, <3>3, <3>4, <3>5
  <2>2. SlotsTaken'
    <3>1. /\ handler[c] = "parsing"
          /\ \/ handler'[c] = "starting" /\ slots' = slots
             \/ handler'[c] = "refused" /\ slots' = slots - 1
      BY <1>2 DEF Command!Parses, CommandTypes, Command!TypeOK
    <3> QED
      BY <2>1, <3>1, PlacesStep DEF Placed, Alone
  <2> QED
    BY <2>1, <2>2, OthersKept
<1>3. CASE Command!Starts(c)
  <2>1. Alone(c) /\ HandlerInStep(c)' /\ KilledFor(c)' /\ EventSays(c)'
    <3>1. CommandTypes'
      BY <1>3 DEF Command!Starts, CommandTypes, Command!TypeOK
    <3>2. Alone(c)
      BY <1>3, <3>1 DEF Command!Starts, Alone, CommandTypes, Command!TypeOK
    <3>3. HandlerInStep(c)'
      BY <1>3 DEF Command!Starts, CommandTypes, Command!TypeOK, HandlerInStep
    <3>4. KilledFor(c)'
      BY <1>3 DEF Command!Starts, CommandTypes, Command!TypeOK, HandlerInStep, KilledFor, InputFailed
    <3>5. EventSays(c)'
      BY <1>3 DEF Command!Starts, CommandTypes, Command!TypeOK, HandlerInStep, KilledFor, InputFailed,
         EventSays
    <3> QED
      BY <3>2, <3>3, <3>4, <3>5
  <2>2. SlotsTaken'
    <3>1. /\ handler[c] = "starting"
          /\ \/ handler'[c] = "waiting" /\ slots' = slots
             \/ handler'[c] = "refused" /\ slots' = slots - 1
      BY <1>3 DEF Command!Starts, CommandTypes, Command!TypeOK
    <3> QED
      BY <2>1, <3>1, PlacesStep DEF Placed, Alone
  <2> QED
    BY <2>1, <2>2, OthersKept
<1>4. CASE Command!Waits(c)
  <2>1. Alone(c) /\ HandlerInStep(c)' /\ KilledFor(c)' /\ EventSays(c)'
    <3>1. CommandTypes'
      BY <1>4 DEF Command!Waits, CommandTypes, Command!TypeOK
    <3>2. Alone(c)
      BY <1>4, <3>1 DEF Command!Waits, Alone, CommandTypes, Command!TypeOK
    <3>3. HandlerInStep(c)'
      BY <1>4 DEF Command!Waits, CommandTypes, Command!TypeOK, HandlerInStep
    <3>4. KilledFor(c)'
      BY <1>4 DEF Command!Waits, CommandTypes, Command!TypeOK, HandlerInStep, KilledFor, InputFailed
    <3>5. EventSays(c)'
      BY <1>4 DEF Command!Waits, CommandTypes, Command!TypeOK, HandlerInStep, KilledFor, InputFailed,
         EventSays
    <3> QED
      BY <3>2, <3>3, <3>4, <3>5
  <2>2. SlotsTaken'
    <3>1. handler[c] \in {"waiting", "settling"} /\ handler'[c] \in {"settling", "joining"}
          /\ slots' = slots
      BY <1>4 DEF Command!Waits, CommandTypes, Command!TypeOK
    <3> QED
      BY <2>1, <3>1, PlacesStep DEF Placed, Alone
  <2> QED
    BY <2>1, <2>2, OthersKept
<1>5. CASE Command!Settles(c)
  <2>1. Alone(c) /\ HandlerInStep(c)' /\ KilledFor(c)' /\ EventSays(c)'
    <3>1. CommandTypes'
      BY <1>5 DEF Command!Settles, Command!Releases, CommandTypes, Command!TypeOK
    <3>2. Alone(c)
      BY <1>5, <3>1 DEF Command!Settles, Command!Releases, Alone, CommandTypes, Command!TypeOK
    <3>3. HandlerInStep(c)'
      BY <1>5 DEF Command!Settles, Command!Releases, CommandTypes, Command!TypeOK, HandlerInStep
    <3>4. KilledFor(c)'
      BY <1>5 DEF Command!Settles, Command!Releases, CommandTypes, Command!TypeOK, HandlerInStep, KilledFor, InputFailed
    <3>5. EventSays(c)'
      BY <1>5 DEF Command!Settles, Command!Releases, CommandTypes, Command!TypeOK, HandlerInStep, KilledFor, InputFailed,
         EventSays
    <3> QED
      BY <3>2, <3>3, <3>4, <3>5
  <2>2. SlotsTaken'
    <3>1. handler[c] \in {"waiting", "settling"} /\ handler'[c] \in {"settling", "joining"}
          /\ slots' = slots
      BY <1>5 DEF Command!Settles, Command!Releases, CommandTypes, Command!TypeOK
    <3> QED
      BY <2>1, <3>1, PlacesStep DEF Placed, Alone
  <2> QED
    BY <2>1, <2>2, OthersKept
<1>6. CASE Command!Reports(c)
  <2>1. Alone(c) /\ HandlerInStep(c)' /\ KilledFor(c)' /\ EventSays(c)'
    <3>1. CommandTypes'
      BY <1>6 DEF Command!Reports, Command!InputError, CommandTypes, Command!TypeOK
    <3>2. Alone(c)
      BY <1>6, <3>1 DEF Command!Reports, Command!InputError, Alone, CommandTypes, Command!TypeOK
    <3>3. HandlerInStep(c)'
      BY <1>6 DEF Command!Reports, Command!InputError, CommandTypes, Command!TypeOK, HandlerInStep
    <3>4. KilledFor(c)'
      BY <1>6 DEF Command!Reports, Command!InputError, CommandTypes, Command!TypeOK, HandlerInStep, KilledFor, InputFailed
    <3>5. EventSays(c)'
      BY <1>6 DEF Command!Reports, Command!InputError, CommandTypes, Command!TypeOK, HandlerInStep, KilledFor, InputFailed,
         EventSays
    <3> QED
      BY <3>2, <3>3, <3>4, <3>5
  <2>2. SlotsTaken'
    <3>1. handler[c] = "joining" /\ handler'[c] = "ended" /\ slots' = slots - 1
      BY <1>6 DEF Command!Reports, Command!InputError, CommandTypes, Command!TypeOK
    <3> QED
      BY <2>1, <3>1, PlacesStep DEF Placed, Alone
  <2> QED
    BY <2>1, <2>2, OthersKept
<1>7. CASE Command!Exits(c)
  <2>1. Alone(c) /\ HandlerInStep(c)' /\ KilledFor(c)' /\ EventSays(c)'
    <3>1. CommandTypes'
      BY <1>7 DEF Command!Exits, CommandTypes, Command!TypeOK
    <3>2. Alone(c)
      BY <1>7, <3>1 DEF Command!Exits, Alone, CommandTypes, Command!TypeOK
    <3>3. HandlerInStep(c)'
      BY <1>7 DEF Command!Exits, CommandTypes, Command!TypeOK, HandlerInStep
    <3>4. KilledFor(c)'
      BY <1>7 DEF Command!Exits, CommandTypes, Command!TypeOK, HandlerInStep, KilledFor, InputFailed
    <3>5. EventSays(c)'
      BY <1>7 DEF Command!Exits, CommandTypes, Command!TypeOK, HandlerInStep, KilledFor, InputFailed,
         EventSays
    <3> QED
      BY <3>2, <3>3, <3>4, <3>5
  <2>2. SlotsTaken'
    BY <1>7 DEF Command!Exits, CommandInv, SlotsTaken, Placed
  <2> QED
    BY <2>1, <2>2, OthersKept
<1>8. CASE Command!Killed(c)
  <2>1. Alone(c) /\ HandlerInStep(c)' /\ KilledFor(c)' /\ EventSays(c)'
    <3>1. CommandTypes'
      BY <1>8 DEF Command!Killed, CommandTypes, Command!TypeOK
    <3>2. Alone(c)
      BY <1>8, <3>1 DEF Command!Killed, Alone, CommandTypes, Command!TypeOK
    <3>3. HandlerInStep(c)'
      BY <1>8 DEF Command!Killed, CommandTypes, Command!TypeOK, HandlerInStep
    <3>4. KilledFor(c)'
      BY <1>8 DEF Command!Killed, CommandTypes, Command!TypeOK, HandlerInStep, KilledFor, InputFailed
    <3>5. EventSays(c)'
      BY <1>8 DEF Command!Killed, CommandTypes, Command!TypeOK, HandlerInStep, KilledFor, InputFailed,
         EventSays
    <3> QED
      BY <3>2, <3>3, <3>4, <3>5
  <2>2. SlotsTaken'
    BY <1>8 DEF Command!Killed, CommandInv, SlotsTaken, Placed
  <2> QED
    BY <2>1, <2>2, OthersKept
<1>9. CASE Command!CopierReads(c)
  <2>1. Alone(c) /\ HandlerInStep(c)' /\ KilledFor(c)' /\ EventSays(c)'
    <3>1. CommandTypes'
      BY <1>9 DEF Command!CopierReads, Command!StopsCopying, CommandTypes, Command!TypeOK
    <3>2. Alone(c)
      BY <1>9, <3>1 DEF Command!CopierReads, Command!StopsCopying, Alone, CommandTypes, Command!TypeOK
    <3>3. HandlerInStep(c)'
      BY <1>9 DEF Command!CopierReads, Command!StopsCopying, CommandTypes, Command!TypeOK, HandlerInStep
    <3>4. KilledFor(c)'
      BY <1>9 DEF Command!CopierReads, Command!StopsCopying, CommandTypes, Command!TypeOK, HandlerInStep, KilledFor, InputFailed
    <3>5. EventSays(c)'
      BY <1>9 DEF Command!CopierReads, Command!StopsCopying, CommandTypes, Command!TypeOK, HandlerInStep, KilledFor, InputFailed,
         EventSays
    <3> QED
      BY <3>2, <3>3, <3>4, <3>5
  <2>2. SlotsTaken'
    BY <1>9 DEF Command!CopierReads, Command!StopsCopying, CommandInv, SlotsTaken, Placed
  <2> QED
    BY <2>1, <2>2, OthersKept
<1>10. CASE Command!CopierWrites(c)
  <2>1. Alone(c) /\ HandlerInStep(c)' /\ KilledFor(c)' /\ EventSays(c)'
    <3>1. CommandTypes'
      BY <1>10 DEF Command!CopierWrites, Command!StopsCopying, CommandTypes, Command!TypeOK
    <3>2. Alone(c)
      BY <1>10, <3>1 DEF Command!CopierWrites, Command!StopsCopying, Alone, CommandTypes, Command!TypeOK
    <3>3. HandlerInStep(c)'
      BY <1>10 DEF Command!CopierWrites, Command!StopsCopying, CommandTypes, Command!TypeOK, HandlerInStep
    <3>4. KilledFor(c)'
      BY <1>10 DEF Command!CopierWrites, Command!StopsCopying, CommandTypes, Command!TypeOK, HandlerInStep, KilledFor, InputFailed
    <3>5. EventSays(c)'
      BY <1>10 DEF Command!CopierWrites, Command!StopsCopying, CommandTypes, Command!TypeOK, HandlerInStep, KilledFor, InputFailed,
         EventSays
    <3> QED
      BY <3>2, <3>3, <3>4, <3>5
  <2>2. SlotsTaken'
    BY <1>10 DEF Command!CopierWrites, Command!StopsCopying, CommandInv, SlotsTaken, Placed
  <2> QED
    BY <2>1, <2>2, OthersKept
<1>11. CASE Command!ClientActs(c)
  <2>1. Alone(c) /\ HandlerInStep(c)' /\ KilledFor(c)' /\ EventSays(c)'
    <3>1. CommandTypes'
      BY <1>11 DEF Command!ClientActs, CommandTypes, Command!TypeOK
    <3>2. Alone(c)
      BY <1>11, <3>1 DEF Command!ClientActs, Alone, CommandTypes, Command!TypeOK
    <3>3. HandlerInStep(c)'
      BY <1>11 DEF Command!ClientActs, CommandTypes, Command!TypeOK, HandlerInStep
    <3>4. KilledFor(c)'
      BY <1>11 DEF Command!ClientActs, CommandTypes, Command!TypeOK, HandlerInStep, KilledFor, InputFailed
    <3>5. EventSays(c)'
      BY <1>11 DEF Command!ClientActs, CommandTypes, Command!TypeOK, HandlerInStep, KilledFor, InputFailed,
         EventSays
    <3> QED
      BY <3>2, <3>3, <3>4, <3>5
  <2>2. SlotsTaken'
    BY <1>11 DEF Command!ClientActs, CommandInv, SlotsTaken, Placed
  <2> QED
    BY <2>1, <2>2, OthersKept
<1> QED
  BY <1>1, <1>2, <1>3, <1>4, <1>5, <1>6, <1>7, <1>8, <1>9, <1>10, <1>11 DEF Command!Handles

\* CommandInv holds in every state.
LEMMA CommandCorrect == Spec => []CommandInv
<1>1. Init => CommandInv
  <2> SUFFICES ASSUME Init PROVE CommandInv
    OBVIOUS
  <2>1. Command!Init
    BY DEF Init
  <2>2. Placed = {} /\ MaxCommands \in Nat
    BY <2>1, HomeConstants DEF Placed, Command!Init
  <2>3. SlotsTaken
    BY <2>1, <2>2, FS_EmptySet DEF SlotsTaken, Command!Init
  <2> QED
    BY <2>1, <2>3 DEF Command!Init, CommandInv, CommandTypes, Command!TypeOK, HandlerInStep,
       KilledFor, EventSays, InputFailed
<1>2. ASSUME CommandInv, UNCHANGED commandVars PROVE CommandInv'
  BY <1>2 DEF commandVars, CommandInv, CommandTypes, Command!TypeOK, SlotsTaken, Placed,
     HandlerInStep, KilledFor, EventSays, InputFailed
<1>3. CommandInv /\ [Next]_vars => CommandInv'
  BY <1>2, CommandMoves, CommandStep
<1> QED
  BY <1>1, <1>3, PTL DEF Spec

\* The client is told the child's own status when it ended by itself, and what
\* was wrong with its input when that is why it was killed; every command that
\* is over has given its place back (commands.go).
THEOREM EventsAreTrue == Spec => [](part = "command" => Command!EventIsTrue)
<1>1. CommandInv => Command!EventIsTrue
  <2> SUFFICES ASSUME CommandInv PROVE Command!EventIsTrue
    OBVIOUS
  <2>1. \A c \in Commands : EventSays(c)
    BY DEF CommandInv
  <2>2. slots = Cardinality({c \in Commands : handler[c] \notin {"none", "refused", "ended"}})
        /\ slots <= MaxCommands
    BY DEF CommandInv, SlotsTaken, Placed
  <2> QED
    BY <2>1, <2>2, SameCardinality DEF EventSays, Command!EventIsTrue
<1> QED
  BY CommandCorrect, <1>1, PTL

LEMMA CommandTypesHold == Spec => []Command!TypeOK
<1>1. CommandInv => Command!TypeOK
  BY DEF CommandInv, CommandTypes
<1> QED
  BY <1>1, CommandCorrect, PTL

-----------------------------------------------------------------------------
(* The one company of a home.                                               *)

LEMMA ServiceMoves ==
  ASSUME [Next]_vars
  PROVE  Service!Next \/ UNCHANGED serviceVars
  BY DEF Next, vars, Others

CompanySteps == Service!Owning \cup {"none", "starting", "gone"}
SomeCompany == Service!Companies \cup {0}
ServiceTypes ==
  /\ company \in [Service!Companies -> CompanySteps]
  /\ launch \in [Service!Companies -> SomeCompany]
  /\ \A c \in Service!Companies : launch[c] \in {0, c}
  /\ terminals \subseteq Service!Companies
  /\ runtime \in [owner : SomeCompany, launch : SomeCompany] /\ runtime.launch \in {0, runtime.owner}
  /\ launcher \in [Launchers -> [at : {"idle", "locked", "probing", "spawning", "polling",
                                       "interrupted", "started", "failed"}, child : SomeCompany]]
  /\ stopper \in [Stoppers -> [at : {"idle", "locking", "clearing", "notRunning", "reading",
                                     "requesting", "waiting", "releasing", "stopped", "error"},
                               target : SomeCompany]]

\* run.lock is held by the company that runs, by the launcher that probes it and
\* by the stopper that clears what is left of a company.
RunLocked ==
  /\ \A c \in Service!Companies : company[c] \in Service!Owning <=> runLock = <<"company", c>>
  /\ \A l \in Launchers : launcher[l].at = "probing" => runLock = <<"probe", l>>
  /\ \A s \in Stoppers : stopper[s].at \in {"clearing", "releasing"} => runLock = <<"stop", s>>

\* A launcher has a child once it has spawned one.
ChildrenKnown ==
  \A l \in Launchers :
    /\ launcher[l].at \in {"idle", "locked", "probing", "spawning"} => launcher[l].child = 0
    /\ launcher[l].at \in {"polling", "interrupted"} => launcher[l].child \in Service!Companies

\* What a stopper waits for is ending, and does not come back.
TargetsEnd ==
  \A s \in Stoppers :
    /\ stopper[s].at \in {"waiting", "stopped"} => stopper[s].target \in Service!Companies
    /\ stopper[s].at = "waiting" =>
         company[stopper[s].target] \in {"stopping", "cleaned", "cleared", "gone"}
    /\ stopper[s].at = "stopped" => company[stopper[s].target] = "gone"

ServiceInv ==
  /\ ServiceTypes /\ RunLocked /\ ChildrenKnown /\ TargetsEnd
  /\ \A c \in terminals : company[c] \in {"ready", "stopping"}
  /\ Service!ReadyIsReachable

LauncherSteps == {"idle", "locked", "probing", "spawning", "polling", "interrupted", "started",
                  "failed"}
StopperSteps == {"idle", "locking", "clearing", "notRunning", "reading", "requesting", "waiting",
                 "releasing", "stopped", "error"}
Endings == {"stopping", "cleaned", "cleared", "gone"}

\* A step of one company's process, perhaps together with the launcher that spawned
\* it or the stopper that asked it to end.
LEMMA ProcessMoves ==
  ASSUME ServiceInv, NEW c \in Service!Companies, NEW step \in CompanySteps,
         company' = [company EXCEPT ![c] = step],
         \/ /\ company[c] \in Service!Owning <=> step \in Service!Owning
            /\ runLock' = runLock
         \/ company[c] \in Service!Owning /\ step = "gone" /\ runLock' = <<>>
         \/ company[c] = "starting" /\ runLock = <<>> /\ step = "owning" /\ runLock' = <<"company", c>>,
         company[c] \in Endings => step \in Endings,
         company[c] = "gone" => step = "gone",
         \/ runtime' = runtime /\ (step = "ready" => company[c] = "ready")
         \/ runtime' = Service!NoState /\ company[c] \in Service!Owning /\ step # "ready"
         \/ /\ runtime' = [owner |-> c, launch |-> launch[c]] /\ step = "ready"
            /\ company[c] \in Service!Owning,
         terminals' \subseteq terminals \cup {c}, c \in terminals' => step \in {"ready", "stopping"},
         \/ launch' = launch
         \/ launch' = [launch EXCEPT ![c] = c] /\ company[c] = "none" /\ step # "ready",
         launcher' \in [Launchers -> [at : LauncherSteps, child : SomeCompany]], ChildrenKnown',
         \A l \in Launchers : launcher'[l].at = "probing" => launcher[l].at = "probing",
         stopper' \in [Stoppers -> [at : StopperSteps, target : SomeCompany]],
         \A s \in Stoppers :
           \/ stopper'[s] = stopper[s]
           \/ stopper'[s].at = "waiting" /\ stopper'[s].target = c /\ step \in Endings
  PROVE  ServiceInv'
<1> USE DEF CompanySteps, Service!Owning
<1>1. /\ company \in [Service!Companies -> CompanySteps]
      /\ company'[c] = step /\ \A d \in Service!Companies \ {c} : company'[d] = company[d]
      /\ company' \in [Service!Companies -> CompanySteps]
  BY DEF ServiceInv, ServiceTypes
<1>2. ServiceTypes'
  <2>1. /\ launch' \in [Service!Companies -> SomeCompany]
        /\ \A d \in Service!Companies : launch'[d] \in {0, d}
    BY DEF ServiceInv, ServiceTypes, SomeCompany
  <2>2. /\ runtime' \in [owner : SomeCompany, launch : SomeCompany]
        /\ runtime'.launch \in {0, runtime'.owner}
    BY DEF ServiceInv, ServiceTypes, SomeCompany, Service!NoState, Service!Nobody
  <2> QED
    BY <1>1, <2>1, <2>2 DEF ServiceInv, ServiceTypes, LauncherSteps, StopperSteps
<1>3. RunLocked'
  <2>1. ASSUME NEW d \in Service!Companies
        PROVE  company'[d] \in Service!Owning <=> runLock' = <<"company", d>>
    <3>1. company[d] \in Service!Owning <=> runLock = <<"company", d>>
      BY DEF ServiceInv, RunLocked
    <3>2. company[c] \in Service!Owning <=> runLock = <<"company", c>>
      BY DEF ServiceInv, RunLocked
    <3> HIDE DEF Service!Owning
    <3>3. /\ "owning" \in Service!Owning /\ "gone" \notin Service!Owning
          /\ "starting" \notin Service!Owning
      BY DEF Service!Owning
    <3>4. CASE d = c
      <4>1. CASE (company[c] \in Service!Owning <=> step \in Service!Owning) /\ runLock' = runLock
        BY <1>1, <3>2, <3>4, <4>1
      <4>2. CASE step = "gone" /\ runLock' = <<>>
        BY <1>1, <3>3, <3>4, <4>2
      <4>3. CASE step = "owning" /\ runLock' = <<"company", c>>
        BY <1>1, <3>3, <3>4, <4>3
      <4> QED
        BY <4>1, <4>2, <4>3
    <3>5. CASE d # c
      BY <1>1, <3>1, <3>2, <3>3, <3>5
    <3> QED
      BY <3>4, <3>5
  <2>2. \A l \in Launchers : launcher'[l].at = "probing" => runLock' = <<"probe", l>>
    BY <1>1 DEF ServiceInv, RunLocked
  <2>3. \A s \in Stoppers : stopper'[s].at \in {"clearing", "releasing"} => runLock' = <<"stop", s>>
    BY <1>1 DEF ServiceInv, RunLocked
  <2> QED
    BY <2>1, <2>2, <2>3 DEF RunLocked
<1>4. TargetsEnd'
  BY <1>1 DEF ServiceInv, TargetsEnd, Endings
<1>5. \A d \in terminals' : company'[d] \in {"ready", "stopping"}
  <2>1. \A d \in terminals' : d \in Service!Companies
    BY DEF ServiceInv, ServiceTypes
  <2> QED
    BY <1>1, <2>1 DEF ServiceInv
<1>6. Service!ReadyIsReachable'
  <2>1. \A d \in Service!Companies \ {c} :
          company[d] = "ready" => company[c] \notin Service!Owning
    BY DEF ServiceInv, RunLocked
  <2> SUFFICES ASSUME NEW d \in Service!Companies, company'[d] = "ready"
               PROVE  runtime' = [owner |-> d, launch |-> launch'[d]]
    BY DEF Service!ReadyIsReachable
  <2>2. CASE d = c
    BY <1>1, <2>2 DEF ServiceInv, Service!ReadyIsReachable
  <2>3. CASE d # c
    <3>1. launch'[d] = launch[d]
      BY <2>3 DEF ServiceInv, ServiceTypes
    <3> QED
      BY <1>1, <2>1, <2>3, <3>1 DEF ServiceInv, Service!ReadyIsReachable
  <2> QED
    BY <2>2, <2>3
<1> QED
  BY <1>2, <1>3, <1>4, <1>5, <1>6 DEF ServiceInv

\* The processes of launchers and stoppers, which leave the companies alone.
LEMMA CommandsMove ==
  ASSUME ServiceInv, UNCHANGED <<company, launch, terminals>>,
         launcher' \in [Launchers -> [at : LauncherSteps, child : SomeCompany]],
         stopper' \in [Stoppers -> [at : StopperSteps, target : SomeCompany]],
         ChildrenKnown', TargetsEnd',
         runtime' = runtime
           \/ (runtime' = Service!NoState /\ \E s \in Stoppers : runLock = <<"stop", s>>),
         runLock' = runLock
           \/ \A d \in Service!Companies : runLock # <<"company", d>> /\ runLock' # <<"company", d>>,
         \A l \in Launchers : launcher'[l].at = "probing" => runLock' = <<"probe", l>>,
         \A s \in Stoppers : stopper'[s].at \in {"clearing", "releasing"} => runLock' = <<"stop", s>>
  PROVE  ServiceInv'
<1>1. ServiceTypes'
  <2>1. /\ runtime' \in [owner : SomeCompany, launch : SomeCompany]
        /\ runtime'.launch \in {0, runtime'.owner}
    BY DEF ServiceInv, ServiceTypes, SomeCompany, Service!NoState, Service!Nobody
  <2> QED
    BY <2>1 DEF ServiceInv, ServiceTypes, LauncherSteps, StopperSteps
<1>2. RunLocked'
  BY DEF ServiceInv, RunLocked
<1>3. Service!ReadyIsReachable'
  <2>1. runtime' = runtime \/ \A d \in Service!Companies : company[d] # "ready"
    BY DEF ServiceInv, RunLocked, Service!Owning
  <2> QED
    BY <2>1 DEF ServiceInv, Service!ReadyIsReachable
<1> QED
  BY <1>1, <1>2, <1>3 DEF ServiceInv

LEMMA CompanyKeeps ==
  ASSUME ServiceInv, NEW c \in Service!Companies,
         \/ Service!RunForeground(c) \/ Service!RunLocks(c) \/ Service!ClearState(c)
         \/ Service!Ready(c) \/ Service!RunFails(c) \/ Service!Interrupt(c) \/ Service!CleanUp(c)
         \/ Service!RemoveState(c) \/ Service!RunUnlocks(c) \/ Service!Crash(c)
  PROVE  ServiceInv'
<1> USE DEF Service!Becomes, CompanySteps, Service!Owning, Endings
<1>0. UNCHANGED <<launch, launcher, stopper>>
  BY DEF Service!RunForeground, Service!RunLocks, Service!ClearState, Service!Ready,
     Service!RunFails, Service!Interrupt, Service!CleanUp, Service!RemoveState, Service!RunUnlocks,
     Service!Crash
<1>1. /\ launcher' \in [Launchers -> [at : LauncherSteps, child : SomeCompany]] /\ ChildrenKnown'
      /\ stopper' \in [Stoppers -> [at : StopperSteps, target : SomeCompany]]
      /\ \A l \in Launchers : launcher'[l].at = "probing" => launcher[l].at = "probing"
      /\ \A s \in Stoppers : stopper'[s] = stopper[s]
  BY <1>0 DEF ServiceInv, ServiceTypes, LauncherSteps, StopperSteps, ChildrenKnown
<1>2. /\ company[c] \in Service!Owning <=> runLock = <<"company", c>>
      /\ c \in terminals => company[c] \in {"ready", "stopping"}
      /\ company[c] \in CompanySteps
  BY DEF ServiceInv, RunLocked, ServiceTypes
<1>3. CASE Service!RunForeground(c)
  BY <1>0, <1>1, <1>2, <1>3, ProcessMoves DEF Service!RunForeground, Service!Fresh
<1>4. CASE Service!RunLocks(c)
  BY <1>0, <1>1, <1>2, <1>4, ProcessMoves DEF Service!RunLocks
<1>5. CASE Service!ClearState(c)
  BY <1>0, <1>1, <1>2, <1>5, ProcessMoves DEF Service!ClearState
<1>6. CASE Service!Ready(c)
  BY <1>0, <1>1, <1>2, <1>6, ProcessMoves DEF Service!Ready
<1>7. CASE Service!RunFails(c)
  BY <1>0, <1>1, <1>2, <1>7, ProcessMoves DEF Service!RunFails
<1>8. CASE Service!Interrupt(c)
  <2>1. PICK step \in CompanySteps : /\ company' = [company EXCEPT ![c] = step]
                                     /\ step = CASE company[c] \in {"owning", "preparing", "ready"} -> "stopping"
                                                 [] company[c] = "starting" -> "gone"
                                                 [] OTHER -> company[c]
    BY <1>2, <1>8 DEF Service!Interrupt, Service!Cancelled, ServiceInv, ServiceTypes
  <2> QED
    BY <1>0, <1>1, <1>2, <1>8, <2>1, ProcessMoves DEF Service!Interrupt
<1>9. CASE Service!CleanUp(c)
  BY <1>0, <1>1, <1>2, <1>9, ProcessMoves DEF Service!CleanUp
<1>10. CASE Service!RemoveState(c)
  BY <1>0, <1>1, <1>2, <1>10, ProcessMoves DEF Service!RemoveState
<1>11. CASE Service!RunUnlocks(c)
  BY <1>0, <1>1, <1>2, <1>11, ProcessMoves DEF Service!RunUnlocks
<1>12. CASE Service!Crash(c)
  BY <1>0, <1>1, <1>2, <1>12, ProcessMoves DEF Service!Crash, Service!Dead, Service!Holds, Service!Alive
<1> QED
  BY <1>3, <1>4, <1>5, <1>6, <1>7, <1>8, <1>9, <1>10, <1>11, <1>12

LEMMA LauncherKeeps ==
  ASSUME ServiceInv, NEW l \in Launchers,
         \/ Service!LaunchLocks(l) \/ Service!Probe(l) \/ Service!EndProbe(l) \/ Service!ChildExited(l)
         \/ Service!SeesReady(l)
  PROVE  ServiceInv'
<1> USE DEF Service!LauncherAt, Service!LauncherGoes
<1>0. /\ UNCHANGED <<company, launch, terminals, runtime, stopper>>
      /\ launcher \in [Launchers -> [at : LauncherSteps, child : SomeCompany]]
      /\ stopper' \in [Stoppers -> [at : StopperSteps, target : SomeCompany]] /\ TargetsEnd'
  BY DEF Service!LaunchLocks, Service!Probe, Service!EndProbe, Service!ChildExited,
     Service!SeesReady, ServiceInv, ServiceTypes, LauncherSteps, StopperSteps, TargetsEnd
<1>1. PICK step \in LauncherSteps :
        /\ launcher' = [launcher EXCEPT ![l].at = step]
        /\ \/ step \in {"locked", "spawning"} /\ launcher[l].at \in {"idle", "probing"}
           \/ step = "probing" /\ launcher[l].at = "locked"
           \/ step \in {"started", "failed"}
        /\ \/ step = "probing" /\ runLock = <<>> /\ runLock' = <<"probe", l>>
           \/ step = "spawning" /\ launcher[l].at = "probing" /\ runLock' = <<>>
           \/ step \notin {"probing", "spawning"} /\ launcher[l].at # "probing" /\ runLock' = runLock
  BY DEF Service!LaunchLocks, Service!Probe, Service!EndProbe, Service!ChildExited,
     Service!SeesReady, Service!LaunchEnds, LauncherSteps
<1>2. /\ launcher' \in [Launchers -> [at : LauncherSteps, child : SomeCompany]]
      /\ launcher'[l].at = step /\ launcher'[l].child = launcher[l].child
      /\ \A k \in Launchers \ {l} : launcher'[k] = launcher[k]
  BY <1>0, <1>1
<1>3. ChildrenKnown'
  BY <1>1, <1>2 DEF ServiceInv, ChildrenKnown
<1>4. /\ \A k \in Launchers : launcher[k].at = "probing" => runLock = <<"probe", k>>
      /\ \A s \in Stoppers : stopper[s].at \in {"clearing", "releasing"} => runLock = <<"stop", s>>
  BY DEF ServiceInv, RunLocked
<1>5. \A d \in Service!Companies : runLock' = runLock \/ (runLock # <<"company", d>> /\ runLock' # <<"company", d>>)
  BY <1>1, <1>4
<1>6. \A k \in Launchers : launcher'[k].at = "probing" => runLock' = <<"probe", k>>
  BY <1>1, <1>2, <1>4
<1>7. \A s \in Stoppers : stopper'[s].at \in {"clearing", "releasing"} => runLock' = <<"stop", s>>
  BY <1>0, <1>1, <1>4
<1> QED
  BY <1>0, <1>2, <1>3, <1>5, <1>6, <1>7, CommandsMove

LEMMA SpawnKeeps ==
  ASSUME ServiceInv, NEW l \in Launchers,
         Service!Spawn(l) \/ Service!LaunchTimesOut(l) \/ Service!Terminate(l)
  PROVE  ServiceInv'
<1> USE DEF Service!LauncherAt, Service!LauncherGoes, CompanySteps, Service!Owning, Endings
<1>0. /\ UNCHANGED <<runtime, stopper>>
      /\ launcher \in [Launchers -> [at : LauncherSteps, child : SomeCompany]]
      /\ stopper' \in [Stoppers -> [at : StopperSteps, target : SomeCompany]]
      /\ \A s \in Stoppers : stopper'[s] = stopper[s]
      /\ company \in [Service!Companies -> CompanySteps]
      /\ \A c \in Service!Companies : /\ company[c] \in Service!Owning <=> runLock = <<"company", c>>
                                      /\ c \in terminals => company[c] \in {"ready", "stopping"}
  BY DEF Service!Spawn, Service!LaunchTimesOut, Service!Terminate, ServiceInv, ServiceTypes,
     LauncherSteps, StopperSteps, RunLocked
<1>1. CASE Service!Spawn(l)
  <2>1. PICK c \in Service!Companies :
          /\ company[c] = "none" /\ company' = [company EXCEPT ![c] = "starting"]
          /\ launch' = [launch EXCEPT ![c] = c]
          /\ launcher' = [launcher EXCEPT ![l] = [at |-> "polling", child |-> c]]
    BY <1>1 DEF Service!Spawn, Service!Fresh, Service!Becomes
  <2>2. /\ launcher' \in [Launchers -> [at : LauncherSteps, child : SomeCompany]]
        /\ \A k \in Launchers \ {l} : launcher'[k] = launcher[k]
        /\ launcher'[l].at = "polling" /\ launcher'[l].child = c
    BY <1>0, <2>1 DEF LauncherSteps, SomeCompany
  <2>3. ChildrenKnown'
    BY <2>2 DEF ServiceInv, ChildrenKnown
  <2>4. UNCHANGED <<terminals, runLock>>
    BY <1>1 DEF Service!Spawn
  <2> QED
    BY <1>0, <2>1, <2>2, <2>3, <2>4, ProcessMoves
<1>2. CASE Service!LaunchTimesOut(l)
  <2> DEFINE c == launcher[l].child
  <2>1. c \in Service!Companies
    BY <1>2 DEF Service!LaunchTimesOut, ServiceInv, ChildrenKnown
  <2>2. PICK step \in CompanySteps : /\ company' = [company EXCEPT ![c] = step]
                                     /\ step = CASE company[c] \in {"owning", "preparing", "ready"} -> "stopping"
                                                 [] company[c] = "starting" -> "gone"
                                                 [] OTHER -> company[c]
    BY <1>0, <1>2, <2>1 DEF Service!LaunchTimesOut, Service!Cancelled
  <2>3. /\ launcher' = [launcher EXCEPT ![l].at = "interrupted"]
        /\ UNCHANGED <<launch, terminals, runLock>>
    BY <1>2 DEF Service!LaunchTimesOut
  <2> HIDE DEF c
  <2>4. /\ launcher' \in [Launchers -> [at : LauncherSteps, child : SomeCompany]]
        /\ \A k \in Launchers \ {l} : launcher'[k] = launcher[k]
        /\ launcher'[l].at = "interrupted" /\ launcher'[l].child = c
    BY <1>0, <2>3 DEF LauncherSteps, c
  <2>5. ChildrenKnown'
    BY <2>1, <2>4 DEF ServiceInv, ChildrenKnown
  <2>6. company[c] \in CompanySteps
    BY <1>0, <2>1
  <2> QED
    BY <1>0, <2>1, <2>2, <2>3, <2>4, <2>5, <2>6, ProcessMoves
<1>3. CASE Service!Terminate(l)
  <2> DEFINE c == launcher[l].child
  <2>1. /\ c \in Service!Companies /\ company' = [company EXCEPT ![c] = "gone"]
        /\ terminals' = terminals \ {c}
        /\ runLock' = IF runLock = <<"company", c>> THEN <<>> ELSE runLock
        /\ UNCHANGED <<launch, launcher>>
    BY <1>3 DEF Service!Terminate, Service!Dead, Service!Becomes, Service!Holds, ServiceInv, ChildrenKnown
  <2>2. ChildrenKnown'
    BY <2>1 DEF ServiceInv, ChildrenKnown
  <2> HIDE DEF c
  <2>3. company[c] \in Service!Owning <=> runLock = <<"company", c>>
    BY <1>0, <2>1
  <2> QED
    BY <1>0, <2>1, <2>2, <2>3, ProcessMoves
<1> QED
  BY <1>1, <1>2, <1>3

LEMMA StopperKeeps ==
  ASSUME ServiceInv, NEW s \in Stoppers,
         \/ Service!StopBegins(s) \/ Service!StopLocks(s) \/ Service!StopClears(s)
         \/ Service!StopRemoves(s) \/ Service!StopReads(s) \/ Service!StopDone(s)
         \/ Service!StopTimesOut(s)
  PROVE  ServiceInv'
<1> USE DEF Service!StopperAt, Service!StopperGoes
<1>0. /\ UNCHANGED <<company, launch, terminals, launcher>>
      /\ launcher' \in [Launchers -> [at : LauncherSteps, child : SomeCompany]]
      /\ stopper \in [Stoppers -> [at : StopperSteps, target : SomeCompany]]
      /\ runtime.owner \in SomeCompany
  BY DEF Service!StopBegins, Service!StopLocks, Service!StopClears, Service!StopRemoves,
     Service!StopReads, Service!StopDone, Service!StopTimesOut, ServiceInv, ServiceTypes,
     LauncherSteps, StopperSteps
<1>1. PICK step \in StopperSteps, target \in SomeCompany :
        /\ stopper' = [stopper EXCEPT ![s] = [at |-> step, target |-> target]]
        /\ step \in {"waiting"} => FALSE
        /\ step = "stopped" => stopper[s].at = "waiting" /\ runLock = <<>> /\ target = stopper[s].target
        /\ \/ step = "clearing" /\ runLock = <<>> /\ runLock' = <<"stop", s>> /\ runtime' = runtime
           \/ /\ step = "releasing" /\ stopper[s].at = "clearing" /\ runLock' = runLock
              /\ runtime' = runtime
           \/ /\ step = "notRunning" /\ stopper[s].at = "releasing"
              /\ runLock' = IF runLock = <<"stop", s>> THEN <<>> ELSE runLock
              /\ runtime' = Service!NoState
           \/ /\ step \notin {"clearing", "releasing"} /\ stopper[s].at \notin {"clearing", "releasing"}
              /\ runLock' = runLock /\ runtime' = runtime
  <2>1. \A step \in StopperSteps : Service!StopperGoes(s, step) =>
          stopper' = [stopper EXCEPT ![s] = [at |-> step, target |-> stopper[s].target]]
    <3>1. stopper[s] \in [at : StopperSteps, target : SomeCompany]
      BY <1>0
    <3>2. \A step : [stopper[s] EXCEPT !.at = step] = [at |-> step, target |-> stopper[s].target]
      BY <3>1
    <3> QED
      BY <3>2
  <2>2. stopper[s].target \in SomeCompany
    BY <1>0
  <2> HIDE DEF Service!StopperGoes
  <2>3. CASE Service!StopBegins(s)
    BY <2>1, <2>2, <2>3 DEF Service!StopBegins, StopperSteps
  <2>4. CASE Service!StopLocks(s)
    BY <2>1, <2>2, <2>4 DEF Service!StopLocks, StopperSteps
  <2>5. CASE Service!StopClears(s)
    BY <2>1, <2>2, <2>5 DEF Service!StopClears, Service!StopKeepsLock, StopperSteps
  <2>6. CASE Service!StopRemoves(s)
    BY <2>1, <2>2, <2>6 DEF Service!StopRemoves, Service!Holds, StopperSteps
  <2>7. CASE Service!StopReads(s)
    <3>1. PICK step \in {"error", "requesting"} :
            stopper' = [stopper EXCEPT ![s] = [at |-> step, target |-> runtime.owner]]
      BY <2>7 DEF Service!StopReads
    <3> QED
      BY <1>0, <2>7, <3>1 DEF Service!StopReads, StopperSteps
  <2>8. CASE Service!StopDone(s)
    BY <2>1, <2>2, <2>8 DEF Service!StopDone, Service!StopWaits, StopperSteps
  <2>9. CASE Service!StopTimesOut(s)
    BY <2>1, <2>2, <2>9 DEF Service!StopTimesOut, StopperSteps
  <2> QED
    BY <2>3, <2>4, <2>5, <2>6, <2>7, <2>8, <2>9
<1>2. /\ stopper' \in [Stoppers -> [at : StopperSteps, target : SomeCompany]]
      /\ stopper'[s].at = step /\ stopper'[s].target = target
      /\ \A r \in Stoppers \ {s} : stopper'[r] = stopper[r]
  BY <1>0, <1>1
<1>3. ChildrenKnown'
  BY <1>0 DEF ServiceInv, ChildrenKnown
<1>4. /\ \A k \in Launchers : launcher[k].at = "probing" => runLock = <<"probe", k>>
      /\ \A r \in Stoppers : stopper[r].at \in {"clearing", "releasing"} => runLock = <<"stop", r>>
      /\ \A c \in Service!Companies : company[c] \in Service!Owning <=> runLock = <<"company", c>>
  BY DEF ServiceInv, RunLocked
<1>5. TargetsEnd'
  <2>1. step = "stopped" => target \in Service!Companies /\ company[target] = "gone"
    <3> SUFFICES ASSUME step = "stopped" PROVE target \in Service!Companies /\ company[target] = "gone"
      OBVIOUS
    <3>1. target \in Service!Companies /\ company[target] \in {"stopping", "cleaned", "cleared", "gone"}
      BY <1>1 DEF ServiceInv, TargetsEnd
    <3>2. company[target] \notin Service!Owning
      BY <1>1, <1>4, <3>1
    <3> QED
      BY <3>1, <3>2 DEF Service!Owning
  <2> QED
    BY <1>0, <1>1, <1>2, <2>1 DEF ServiceInv, TargetsEnd
<1>6. \A d \in Service!Companies : runLock' = runLock \/ (runLock # <<"company", d>> /\ runLock' # <<"company", d>>)
  BY <1>1, <1>4
<1>7. \A k \in Launchers : launcher'[k].at = "probing" => runLock' = <<"probe", k>>
  <2> SUFFICES ASSUME NEW k \in Launchers, launcher[k].at = "probing" PROVE runLock' = <<"probe", k>>
    BY <1>0
  <2>1. runLock = <<"probe", k>> /\ stopper[s].at \notin {"clearing", "releasing"}
    BY <1>4
  <2> QED
    BY <1>1, <2>1
<1>8. \A r \in Stoppers : stopper'[r].at \in {"clearing", "releasing"} => runLock' = <<"stop", r>>
  <2> SUFFICES ASSUME NEW r \in Stoppers, stopper'[r].at \in {"clearing", "releasing"}
               PROVE  runLock' = <<"stop", r>>
    OBVIOUS
  <2>1. CASE r = s
    BY <1>1, <1>2, <1>4, <2>1
  <2>2. CASE r # s
    <3>1. runLock = <<"stop", r>>
      BY <1>2, <1>4, <2>2
    <3>2. runLock # <<"stop", s>> /\ runLock # <<>>
      BY <2>2, <3>1
    <3> QED
      BY <1>1, <3>1, <3>2
  <2> QED
    BY <2>1, <2>2
<1>9. runtime' = runtime \/ (runtime' = Service!NoState /\ \E r \in Stoppers : runLock = <<"stop", r>>)
  BY <1>1, <1>4
<1> QED
  BY <1>0, <1>2, <1>3, <1>5, <1>6, <1>7, <1>8, <1>9, CommandsMove

LEMMA StopRequestsKeeps ==
  ASSUME ServiceInv, NEW s \in Stoppers, Service!StopRequests(s)
  PROVE  ServiceInv'
<1> USE DEF Service!StopperAt, Service!StopperGoes, CompanySteps, Service!Owning, Endings
<1> DEFINE c == stopper[s].target
<1>0. /\ UNCHANGED <<launch, terminals, runLock, runtime, launcher>>
      /\ launcher' \in [Launchers -> [at : LauncherSteps, child : SomeCompany]] /\ ChildrenKnown'
      /\ stopper \in [Stoppers -> [at : StopperSteps, target : SomeCompany]]
      /\ company \in [Service!Companies -> CompanySteps]
      /\ \A d \in Service!Companies : /\ company[d] \in Service!Owning <=> runLock = <<"company", d>>
                                      /\ d \in terminals => company[d] \in {"ready", "stopping"}
  BY DEF Service!StopRequests, ServiceInv, ServiceTypes, LauncherSteps, StopperSteps, ChildrenKnown,
     RunLocked
<1>1. CASE Service!Answers(c)
  <2>1. /\ c \in Service!Companies /\ company[c] \in {"ready", "stopping"}
    BY <1>0, <1>1 DEF Service!Answers, SomeCompany, Service!Nobody
  <2>2. /\ company' = [company EXCEPT ![c] = "stopping"]
        /\ stopper' = [stopper EXCEPT ![s].at = "waiting"]
    BY <1>0, <1>1, <2>1 DEF Service!StopRequests, Service!Cancelled
  <2> HIDE DEF c
  <2>3. /\ stopper' \in [Stoppers -> [at : StopperSteps, target : SomeCompany]]
        /\ stopper'[s].at = "waiting" /\ stopper'[s].target = c
        /\ \A r \in Stoppers \ {s} : stopper'[r] = stopper[r]
    BY <1>0, <2>2 DEF StopperSteps, c
  <2>4. PICK d \in Service!Companies, step \in CompanySteps : d = c /\ step = "stopping"
    BY <2>1
  <2>5. /\ company' = [company EXCEPT ![d] = step] /\ runLock' = runLock /\ runtime' = runtime
        /\ launch' = launch /\ launcher' = launcher /\ terminals' \subseteq terminals \cup {d}
    BY <1>0, <2>2, <2>4
  <2>6. /\ company[d] \in Service!Owning /\ step \in Service!Owning /\ step # "ready"
        /\ step \in Endings /\ company[d] # "gone"
    BY <2>1, <2>4
  <2> HIDE DEF Service!StopperAt, Service!StopperGoes, CompanySteps, Service!Owning, Endings
  <2>7. \A r \in Stoppers :
          \/ stopper'[r] = stopper[r]
          \/ stopper'[r].at = "waiting" /\ stopper'[r].target = d /\ step \in Endings
    BY <2>3, <2>4, <2>6
  <2> QED
    BY <1>0, <2>3, <2>4, <2>5, <2>6, <2>7, ProcessMoves
<1>2. CASE ~Service!Answers(c)
  <2>1. company' = company /\ stopper' = [stopper EXCEPT ![s].at = "error"] /\ stopper[s].at = "requesting"
    BY <1>2 DEF Service!StopRequests
  <2>2. /\ stopper' \in [Stoppers -> [at : StopperSteps, target : SomeCompany]]
        /\ stopper'[s].at = "error"
        /\ \A r \in Stoppers \ {s} : stopper'[r] = stopper[r]
    BY <1>0, <2>1 DEF StopperSteps
  <2>3. TargetsEnd'
    BY <2>1, <2>2 DEF ServiceInv, TargetsEnd
  <2> QED
    BY <1>0, <2>1, <2>2, <2>3, CommandsMove DEF ServiceInv, RunLocked
<1> QED
  BY <1>1, <1>2

LEMMA ServiceStep ==
  ASSUME ServiceInv, [Next]_vars
  PROVE  ServiceInv'
<1>1. CASE UNCHANGED serviceVars
  BY <1>1 DEF serviceVars, ServiceInv, ServiceTypes, RunLocked, ChildrenKnown, TargetsEnd,
     Service!ReadyIsReachable
<1>2. CASE \E c \in Service!Companies :
             \/ Service!RunForeground(c) \/ Service!RunLocks(c) \/ Service!ClearState(c)
             \/ Service!Ready(c) \/ Service!RunFails(c) \/ Service!Interrupt(c) \/ Service!CleanUp(c)
             \/ Service!RemoveState(c) \/ Service!RunUnlocks(c) \/ Service!Crash(c)
  BY <1>2, CompanyKeeps
<1>3. CASE \E l \in Launchers :
             \/ Service!LaunchLocks(l) \/ Service!Probe(l) \/ Service!EndProbe(l)
             \/ Service!Spawn(l) \/ Service!ChildExited(l) \/ Service!SeesReady(l)
             \/ Service!LaunchTimesOut(l) \/ Service!Terminate(l)
  BY <1>3, LauncherKeeps, SpawnKeeps
<1>4. CASE \E s \in Stoppers :
             \/ Service!StopBegins(s) \/ Service!StopLocks(s) \/ Service!StopClears(s)
             \/ Service!StopRemoves(s) \/ Service!StopReads(s) \/ Service!StopRequests(s)
             \/ Service!StopDone(s) \/ Service!StopTimesOut(s)
  BY <1>4, StopperKeeps, StopRequestsKeeps
<1> QED
  BY <1>1, <1>2, <1>3, <1>4, ServiceMoves DEF Service!Next

LEMMA ServiceBegins == Init => ServiceInv
<1> SUFFICES ASSUME Service!Init PROVE ServiceInv
  BY DEF Init
<1> QED
  BY DEF Service!Init, ServiceInv, ServiceTypes, RunLocked, ChildrenKnown, TargetsEnd,
     Service!ReadyIsReachable, CompanySteps, Service!Owning, SomeCompany, Service!NoState,
     Service!Nobody

LEMMA ServiceCorrect == Spec => []ServiceInv
<1>1. ServiceInv /\ [Next]_vars => ServiceInv'
  BY ServiceStep
<1> QED
  BY <1>1, ServiceBegins, PTL DEF Spec

LEMMA ServiceTypesHold == Spec => []Service!TypeOK
<1>1. ServiceInv => Service!TypeOK
  BY DEF ServiceInv, ServiceTypes, Service!TypeOK, CompanySteps, SomeCompany, Service!Nobody
<1> QED
  BY <1>1, ServiceCorrect, PTL

\* What a launcher reports is so when it reports it.
LEMMA LaunchersReport ==
  ASSUME ServiceInv, [Next]_vars, NEW l \in Launchers
  PROVE  /\ ~Service!LauncherAt(l, "started") /\ Service!LauncherAt(l, "started")' =>
              Service!Answers(launcher[l].child)
         /\ ~Service!LauncherAt(l, "failed") /\ Service!LauncherAt(l, "failed")' =>
              (launcher[l].child # 0 => ~Service!Alive(launcher[l].child))
<1> USE DEF Service!LauncherAt, Service!LauncherGoes
<1>0. launcher \in [Launchers -> [at : LauncherSteps, child : SomeCompany]]
  BY DEF ServiceInv, ServiceTypes, LauncherSteps
<1>1. CASE launcher'[l] = launcher[l]
  BY <1>1
<1>2. CASE launcher'[l] # launcher[l]
  <2>1. PICK k \in Launchers :
          \/ Service!LaunchLocks(k) \/ Service!Probe(k) \/ Service!EndProbe(k)
          \/ Service!Spawn(k) \/ Service!ChildExited(k) \/ Service!SeesReady(k)
          \/ Service!LaunchTimesOut(k)
    BY <1>2, ServiceMoves DEF serviceVars, Service!Next, Service!RunForeground, Service!RunLocks,
       Service!ClearState, Service!Ready, Service!RunFails, Service!Interrupt, Service!CleanUp,
       Service!RemoveState, Service!RunUnlocks, Service!Crash, Service!Terminate,
       Service!StopBegins, Service!StopLocks, Service!StopClears, Service!StopRemoves,
       Service!StopReads, Service!StopRequests, Service!StopDone, Service!StopTimesOut
  <2>2. k = l
    BY <1>0, <1>2, <2>1 DEF Service!LaunchLocks, Service!Probe, Service!EndProbe, Service!Spawn,
       Service!ChildExited, Service!SeesReady, Service!LaunchTimesOut, Service!LaunchEnds
  <2>3. CASE Service!LaunchLocks(l) \/ Service!Probe(l) \/ Service!EndProbe(l)
    BY <1>0, <2>3 DEF Service!LaunchLocks, Service!Probe, Service!EndProbe, ServiceInv, ChildrenKnown
  <2>4. CASE Service!Spawn(l) \/ Service!LaunchTimesOut(l)
    BY <1>0, <2>4 DEF Service!Spawn, Service!LaunchTimesOut
  <2>5. CASE Service!ChildExited(l)
    BY <1>0, <2>5 DEF Service!ChildExited, Service!LaunchEnds, Service!Alive, Service!Owning
  <2>6. CASE Service!SeesReady(l)
    <3>1. launcher[l].child \in Service!Companies /\ launcher'[l].at = "started"
      BY <1>0, <2>6 DEF Service!SeesReady, Service!LaunchEnds, ServiceInv, ChildrenKnown
    <3>2. runtime.launch = launcher[l].child /\ Service!Answers(runtime.owner)
      BY <2>6 DEF Service!SeesReady, Service!ChildIsReady
    <3>3. launcher[l].child # 0
      BY <3>1, HomeConstants DEF Service!Companies
    <3>4. runtime.owner = launcher[l].child
      BY <3>2, <3>3 DEF ServiceInv, ServiceTypes
    <3> QED
      BY <3>1, <3>2, <3>4
  <2> QED
    BY <2>1, <2>2, <2>3, <2>4, <2>5, <2>6
<1> QED
  BY <1>1, <1>2

\* A company that is ready is found and its terminals are the only ones, and what a
\* detached start and a stop report is so (Run, StartDetached, Stop), for any
\* number of processes, launchers and stoppers.
THEOREM OneCompanyRuns == Spec => Service!OneCompany
<1>1. ServiceInv => Service!ReadyIsReachable /\ Service!OneOwnerOfTerminals /\ Service!StopsAreTrue
  <2> SUFFICES ASSUME ServiceInv
               PROVE  Service!ReadyIsReachable /\ Service!OneOwnerOfTerminals /\ Service!StopsAreTrue
    OBVIOUS
  <2>1. Service!OneOwnerOfTerminals
    <3> SUFFICES ASSUME NEW c \in Service!Companies, NEW d \in Service!Companies,
                        c \in terminals, company[d] \in Service!Owning
                 PROVE  c = d
      BY DEF Service!OneOwnerOfTerminals
    <3>1. company[c] \in Service!Owning
      BY DEF ServiceInv, Service!Owning
    <3>2. runLock = <<"company", c>> /\ runLock = <<"company", d>>
      BY <3>1 DEF ServiceInv, RunLocked
    <3> QED
      BY <3>2
  <2>2. Service!StopsAreTrue
    BY DEF ServiceInv, TargetsEnd, Service!StopsAreTrue, Service!StopperAt, Service!Alive, Service!Owning
  <2> QED
    BY <2>1, <2>2 DEF ServiceInv
<1>2. ServiceInv /\ [Next]_vars =>
        [\A l \in Launchers :
           /\ ~Service!LauncherAt(l, "started") /\ Service!LauncherAt(l, "started")' =>
                Service!Answers(launcher[l].child)
           /\ ~Service!LauncherAt(l, "failed") /\ Service!LauncherAt(l, "failed")' =>
                (launcher[l].child # Service!Nobody => ~Service!Alive(launcher[l].child))]_Service!vars
  BY LaunchersReport DEF Service!Nobody
<1> QED
  BY <1>1, <1>2, ServiceCorrect, PTL DEF Spec, Service!OneCompany, Service!StartsAreTrue

-----------------------------------------------------------------------------
(* A terminal of the company and its viewers.                               *)

LEMMA TerminalMoves ==
  ASSUME [Next]_vars
  PROVE  Terminal!Next \/ UNCHANGED terminalVars
  BY DEF Next, vars, Others

LEMMA TerminalBounds ==
  /\ ReplayLimit \in Nat \ {0} /\ StreamLimit \in Nat /\ TypingLimit \in Nat /\ AckLimit \in Nat
  BY HomeConstants

\* s and t after it end with n, or with nothing while there is nothing.
Upto(s, t, n) ==
  IF s \o t = <<>> THEN n = 0 ELSE (s \o t)[Len(s) + Len(t)] = n

\* What is added after the end continues it.
LEMMA WholeGrows ==
  ASSUME NEW s \in Seq(Nat), NEW t \in Seq(Nat), NEW n \in Nat,
         Terminal!Consecutive(s \o t), Upto(s, t, n)
  PROVE  Terminal!Consecutive(s \o Append(t, n + 1)) /\ Upto(s, Append(t, n + 1), n + 1)
<1> DEFINE w == s \o t
           x == s \o Append(t, n + 1)
<1>1. w \in Seq(Nat) /\ Len(w) = Len(s) + Len(t) /\ Len(s) \in Nat /\ Len(t) \in Nat
  BY ConcatProperties, LenProperties
<1>2. x = w \o <<n + 1>>
  BY AppendIsConcat, ConcatAssociative
<1>3. x = Append(w, n + 1)
  BY <1>1, <1>2, AppendIsConcat
<1>4. x \in Seq(Nat) /\ Len(x) = Len(w) + 1 /\ x[Len(x)] = n + 1
      /\ \A i \in 1..Len(w) : x[i] = w[i]
  <2> DEFINE e == n + 1
  <2>1. e \in Nat /\ x = Append(w, e)
    BY <1>3
  <2> HIDE DEF w, x, e
  <2>2. Append(w, e) \in Seq(Nat) /\ Len(Append(w, e)) = Len(w) + 1
        /\ \A i \in 1..Len(w) : Append(w, e)[i] = w[i]
        /\ Append(w, e)[Len(w) + 1] = e
    BY <1>1, <2>1, AppendProperties
  <2> QED
    BY <2>1, <2>2 DEF e
<1>5. Len(Append(t, n + 1)) = Len(t) + 1
  BY AppendProperties
<1>6. w # <<>> => w[Len(w)] = n /\ Len(w) > 0
  <2>1. w # <<>> => Len(w) > 0
    <3> HIDE DEF w
    <3> QED
      BY <1>1, EmptySeq
  <2> QED
    BY <1>1, <2>1 DEF Upto
<1>7. \A i \in 1..(Len(w) - 1) : w[i + 1] = w[i] + 1
  BY DEF Terminal!Consecutive
<1>8. w = <<>> => n = 0
  BY DEF Upto
<1>9. Terminal!Consecutive(x)
  <2> HIDE DEF w, x
  <2>1. ASSUME NEW i \in 1..(Len(x) - 1) PROVE x[i + 1] = x[i] + 1
    <3>1. CASE i < Len(w)
      <4>1. i \in 1..Len(w) /\ i + 1 \in 1..Len(w) /\ i \in 1..(Len(w) - 1)
        BY <3>1, <2>1, <1>1, <1>4
      <4> QED
        BY <4>1, <1>4, <1>7
    <3>2. CASE i = Len(w)
      <4>1. w # <<>>
        BY <3>2, <2>1, EmptySeq
      <4>2. Len(w) \in 1..Len(w) /\ w[Len(w)] = n
        BY <4>1, <1>1, <1>6
      <4>3. x[i] = n /\ x[i + 1] = n + 1
        BY <3>2, <4>2, <1>4
      <4> QED
        BY <4>3
    <3> QED
      BY <2>1, <3>1, <3>2, <1>1, <1>4
  <2> QED
    BY <2>1 DEF Terminal!Consecutive
<1>10. x # <<>>
  <2> HIDE DEF w, x
  <2> QED
    BY <1>4, <1>1, EmptySeq
<1>11. Upto(s, Append(t, n + 1), n + 1)
  BY <1>1, <1>4, <1>5, <1>10 DEF Upto
<1> QED
  BY <1>9, <1>11

\* What moves from the front of t to the end of s keeps its place.
LEMMA WholeMoves ==
  ASSUME NEW s \in Seq(Nat), NEW t \in Seq(Nat), t # <<>>
  PROVE  /\ Append(s, Head(t)) \o Tail(t) = s \o t
         /\ Len(Append(s, Head(t))) + Len(Tail(t)) = Len(s) + Len(t)
         /\ Append(s, Head(t)) \in Seq(Nat) /\ Tail(t) \in Seq(Nat)
<1>1. Head(t) \in Nat /\ Tail(t) \in Seq(Nat) /\ Len(Tail(t)) = Len(t) - 1
  BY HeadTailProperties
<1>2. <<Head(t)>> \o Tail(t) = t
  <2> DEFINE h == Head(t)
             r == Tail(t)
  <2>1. h \in Nat /\ r \in Seq(Nat) /\ Len(r) = Len(t) - 1 /\ Len(t) \in Nat /\ h = t[1]
        /\ \A i \in 1..Len(r) : r[i] = t[i + 1]
    BY <1>1, HeadTailProperties, LenProperties
  <2> HIDE DEF h, r
  <2>2. <<h>> \in Seq(Nat) /\ Len(<<h>>) = 1 /\ <<h>>[1] = h
    BY <2>1
  <2> DEFINE u == <<h>>
  <2>3. u \in Seq(Nat) /\ Len(u) = 1 /\ u[1] = h
    BY <2>2
  <2> HIDE DEF u
  <2>4. u \o r \in Seq(Nat) /\ Len(u \o r) = Len(u) + Len(r)
        /\ \A i \in 1..Len(u) + Len(r) : (u \o r)[i] = IF i <= Len(u) THEN u[i] ELSE r[i - Len(u)]
    <3>1. u \in Seq(Nat) /\ r \in Seq(Nat)
      BY <2>1, <2>3
    <3> QED
      BY <3>1, ConcatProperties
  <2>5. ASSUME NEW i \in 1..Len(t) PROVE (u \o r)[i] = t[i]
    <3>0. i \in 1..Len(u) + Len(r) /\ Len(u) = 1 /\ Len(r) \in Nat
      BY <2>1, <2>3
    <3>1. (u \o r)[i] = IF i <= 1 THEN u[i] ELSE r[i - 1]
      BY <3>0, <2>4
    <3>2. CASE i = 1
      BY <2>1, <2>3, <3>1, <3>2
    <3>3. CASE i # 1
      <4>1. i - 1 \in 1..Len(r) /\ (i - 1) + 1 = i
        BY <2>1, <3>3
      <4>2. r[i - 1] = t[(i - 1) + 1]
        BY <2>1, <4>1
      <4> QED
        BY <3>1, <3>3, <4>1, <4>2
    <3> QED
      BY <3>2, <3>3
  <2>7. Len(u \o r) = Len(t)
    BY <2>1, <2>3, <2>4
  <2>6. u \o r = t
    BY <2>4, <2>5, <2>7, SeqEqual
  <2> QED
    BY <2>6 DEF u, h, r
<1>3. Append(s, Head(t)) = s \o <<Head(t)>> /\ <<Head(t)>> \in Seq(Nat)
  BY <1>1, AppendIsConcat
<1>4. (s \o <<Head(t)>>) \o Tail(t) = s \o (<<Head(t)>> \o Tail(t))
  BY <1>1, <1>3, ConcatAssociative
<1>5. Append(s, Head(t)) \in Seq(Nat) /\ Len(Append(s, Head(t))) = Len(s) + 1
  BY <1>1, AppendProperties
<1> QED
  BY <1>1, <1>2, <1>3, <1>4, <1>5, LenProperties

\* The replay is the end of what was published.
LEMMA ReplayIsTheEnd ==
  ASSUME published \in Nat
  PROVE  /\ Terminal!Replay \in Seq(Nat) /\ Terminal!Consecutive(Terminal!Replay \o <<>>)
         /\ Upto(Terminal!Replay, <<>>, published)
<1> DEFINE all == [i \in 1..published |-> i]
           m == IF published > ReplayLimit THEN published - ReplayLimit + 1 ELSE 1
           r == SubSeq(all, m, published)
<1>1. m \in Nat \ {0} /\ (published > 0 => m <= published) /\ (published = 0 => m = 1)
  BY TerminalBounds
<1>2. \A i \in m..published : all[i] = i /\ all[i] \in Nat
  BY <1>1
<1>3. Terminal!Replay = r
  BY DEF Terminal!Replay
<1> HIDE DEF all, m
<1>4. /\ r \in Seq(Nat) /\ Len(r) = IF m <= published THEN published - m + 1 ELSE 0
      /\ \A i \in 1..published - m + 1 : r[i] = all[m + i - 1]
  BY <1>1, <1>2, SubSeqProperties
<1> HIDE DEF r
<1>5. r \o <<>> = r /\ Len(<<>>) = 0
  BY <1>4, ConcatEmptySeq
<1>6. \A i \in 1..published - m + 1 : r[i] = m + i - 1
  <2> TAKE i \in 1..published - m + 1
  <2>1. m + i - 1 \in m..published
    BY <1>1
  <2> QED
    BY <2>1, <1>2, <1>4
<1>7. Terminal!Consecutive(r)
  BY <1>1, <1>4, <1>6 DEF Terminal!Consecutive
<1>8. published = 0 => r = <<>>
  BY <1>1, <1>4, EmptySeq
<1>9. published > 0 => r # <<>> /\ r[Len(r)] = published
  BY <1>1, <1>4, <1>6, EmptySeq
<1>10. Upto(r, <<>>, published)
  BY <1>4, <1>5, <1>8, <1>9 DEF Upto
<1> QED
  BY <1>3, <1>4, <1>5, <1>7, <1>10

-----------------------------------------------------------------------------
\* The ends of the writer, of the reader and of the process.
TerminalTypes ==
  /\ process \in {"running", "ended"} /\ held \in BOOLEAN /\ cut \in BOOLEAN
  /\ produced \in Nat /\ published \in Nat /\ published <= produced
  /\ reader \in {"reading", "done"}
  /\ writer \in [at : {"idle", "writing", "acking", "done"}, of : Seq(Viewers), ok : BOOLEAN]
  /\ writer.at \in {"writing", "acking"} => writer.of # <<>>
  /\ writer.at = "writing" => writer.ok
  /\ typing \in Seq(Viewers) /\ Len(typing) <= TypingLimit
  /\ exit \in {"waiting", "draining", "closing", "closed", "exited", "done"}
  /\ view \in [Viewers -> {"none", "greeting", "streaming", "ended", "left"}]
  /\ stream \in [Viewers -> [chunks : Seq(Nat), open : BOOLEAN, dropped : BOOLEAN]]
  /\ acks \in [Viewers -> Seq(BOOLEAN)] /\ shown \in [Viewers -> Seq(Nat)]
  /\ typed \in Nat /\ written \in [Viewers -> Nat] /\ acked \in [Viewers -> Nat]

\* Once the drain is over without its timer, the reader has read everything.
AllIsRead ==
  /\ reader = "done" /\ ~cut => process = "ended" /\ ~held /\ published = produced
  /\ exit \notin {"waiting", "draining"} /\ ~cut => reader = "done"
  /\ Terminal!Exited => reader = "done"

\* What a viewer was shown and what waits for it is the output up to its end, as
\* long as its connection is there and was not dropped.
InOrder(v) ==
  /\ Len(stream[v].chunks) <= StreamLimit
  /\ Terminal!Consecutive(shown[v] \o stream[v].chunks)
  /\ view[v] = "none" => shown[v] = <<>> /\ stream[v].chunks = <<>> /\ ~stream[v].dropped
  /\ view[v] \in {"none", "ended", "left"} \/ stream[v].dropped => ~stream[v].open
  /\ view[v] = "ended" => stream[v].chunks = <<>>
  /\ view[v] \in {"greeting", "streaming", "ended"} /\ ~stream[v].dropped =>
       /\ Upto(shown[v], stream[v].chunks, published)
       /\ stream[v].open \/ Terminal!Exited

\* Only the last acknowledgement tells of a failed write, and the writer is gone
\* by then: all the others are of inputs that were written.
Acking(v) == writer.at = "acking" /\ writer.ok /\ Head(writer.of) = v
Acknowledged(v) ==
  /\ Len(acks[v]) <= AckLimit
  /\ \A i \in 1..Len(acks[v]) : ~acks[v][i] => i = Len(acks[v]) /\ writer.at = "done"
  /\ acked[v] + Len(acks[v]) + (IF Acking(v) THEN 1 ELSE 0) <=
       written[v] + (IF \E i \in 1..Len(acks[v]) : ~acks[v][i] THEN 1 ELSE 0)

TerminalInv ==
  /\ TerminalTypes /\ AllIsRead
  /\ \A v \in Viewers : InOrder(v) /\ Acknowledged(v)

\* What a viewer was shown stays in order while its connection is left alone.
LEMMA InOrderKept ==
  ASSUME NEW v \in Viewers, InOrder(v), view'[v] = view[v], stream'[v] = stream[v],
         shown'[v] = shown[v], published' = published, Terminal!Exited => Terminal!Exited'
  PROVE  InOrder(v)'
  BY DEF InOrder, Upto, Terminal!Consecutive

\* What is acknowledged stays right while the writer and that viewer's inputs are
\* left alone.
LEMMA AcknowledgedKept ==
  ASSUME NEW v \in Viewers, Acknowledged(v), writer' = writer, acks'[v] = acks[v],
         acked'[v] = acked[v], written'[v] = written[v]
  PROVE  Acknowledged(v)'
  BY DEF Acknowledged, Acking

\* Where the connection of one viewer moves, the others' are left alone.
OnlyConnection(v) ==
  /\ \A u \in Viewers \ {v} : view'[u] = view[u] /\ stream'[u] = stream[u] /\ shown'[u] = shown[u]
  /\ published' = published /\ (Terminal!Exited => Terminal!Exited')

LEMMA OthersInOrder ==
  ASSUME TerminalInv, NEW v \in Viewers, OnlyConnection(v), InOrder(v)'
  PROVE  \A u \in Viewers : InOrder(u)'
<1> SUFFICES ASSUME NEW u \in Viewers, u # v PROVE InOrder(u)'
  OBVIOUS
<1> QED
  BY InOrderKept DEF TerminalInv, OnlyConnection

-----------------------------------------------------------------------------
(* The process, its reader and its writer.                                  *)

\* The process prints, ends, is waited for, and its reader ends.
LEMMA ProcessStep ==
  ASSUME TerminalInv,
         \/ Terminal!Prints \/ Terminal!ProcessEnds \/ Terminal!ReaderEnds \/ Terminal!Waits
         \/ Terminal!Drains \/ Terminal!ClosesPty \/ Terminal!Finishes
  PROVE  TerminalInv'
<1> USE DEF Terminal!Prints, Terminal!ProcessEnds, Terminal!ReaderEnds, Terminal!Waits,
        Terminal!Drains, Terminal!ClosesPty, Terminal!Finishes, Terminal!ExitGoes,
        Terminal!PtyOpen, Terminal!Exited, Terminal!DrainIsOver, Terminal!output,
        Terminal!input, Terminal!viewers
<1>0. TerminalTypes
  BY DEF TerminalInv
<1>1. TerminalTypes'
  <2>1. /\ process' \in {"running", "ended"} /\ held' \in BOOLEAN /\ cut' \in BOOLEAN
        /\ reader' \in {"reading", "done"}
        /\ exit' \in {"waiting", "draining", "closing", "closed", "exited", "done"}
    <3>1. process \in {"running", "ended"} /\ held \in BOOLEAN
      BY <1>0 DEF TerminalTypes
    <3>2. process' \in {"running", "ended"} /\ held' \in BOOLEAN
      BY <3>1
    <3>3. cut \in BOOLEAN /\ reader \in {"reading", "done"}
      BY <1>0 DEF TerminalTypes
    <3>4. cut' \in BOOLEAN /\ reader' \in {"reading", "done"}
      BY <3>3
    <3>5. exit' \in {"waiting", "draining", "closing", "closed", "exited", "done"}
      BY <1>0 DEF TerminalTypes
    <3> QED
      BY <3>2, <3>4, <3>5
  <2>2. produced' \in Nat /\ published' \in Nat /\ published' <= produced'
    <3>1. produced \in Nat /\ published \in Nat /\ published <= produced
      BY <1>0 DEF TerminalTypes
    <3>2. produced' \in {produced, produced + 1} /\ published' = published
      OBVIOUS
    <3> QED
      BY <3>1, <3>2
  <2>3. UNCHANGED <<writer, typing, view, stream, acks, shown, typed, written, acked>>
    OBVIOUS
  <2> HIDE DEF Terminal!Prints, Terminal!ProcessEnds, Terminal!ReaderEnds, Terminal!Waits,
        Terminal!Drains, Terminal!ClosesPty, Terminal!Finishes, Terminal!ExitGoes
  <2> QED
    BY <1>0, <2>1, <2>2, <2>3 DEF TerminalTypes
<1>2. AllIsRead'
  BY DEF TerminalInv, TerminalTypes, AllIsRead
<1>3. /\ published' = published /\ (Terminal!Exited => Terminal!Exited')
      /\ UNCHANGED <<view, stream, shown, writer, acks, acked, written>>
  BY DEF TerminalInv, TerminalTypes
<1>4. \A v \in Viewers : InOrder(v) /\ Acknowledged(v)
  BY DEF TerminalInv
<1> HIDE DEF Terminal!Prints, Terminal!ProcessEnds, Terminal!ReaderEnds, Terminal!Waits,
        Terminal!Drains, Terminal!ClosesPty, Terminal!Finishes, Terminal!ExitGoes,
        Terminal!PtyOpen, Terminal!Exited, Terminal!DrainIsOver
<1>5. \A v \in Viewers : InOrder(v)' /\ Acknowledged(v)'
  BY <1>3, <1>4, InOrderKept, AcknowledgedKept
<1> QED
  BY <1>1, <1>2, <1>5 DEF TerminalInv

\* The reader publishes a chunk.
LEMMA PublishStep ==
  ASSUME TerminalInv, Terminal!Publish
  PROVE  TerminalInv'
<1>0. TerminalTypes /\ AllIsRead /\ \A v \in Viewers : InOrder(v) /\ Acknowledged(v)
  BY DEF TerminalInv
<1>1. /\ reader = "reading" /\ published < produced /\ published' = published + 1
      /\ stream' = [v \in Viewers |-> Terminal!Offer(stream[v], published + 1)]
      /\ UNCHANGED <<process, held, produced, reader, writer, typing, typed, written, exit, cut,
                     view, acks, shown, acked>>
  BY DEF Terminal!Publish, Terminal!input
<1>2. ~Terminal!Exited /\ ~Terminal!Exited'
  BY <1>0, <1>1 DEF AllIsRead, Terminal!Exited
<1>3. ASSUME NEW v \in Viewers
      PROVE  stream'[v] \in [chunks : Seq(Nat), open : BOOLEAN, dropped : BOOLEAN] /\ InOrder(v)'
  <2> DEFINE s == stream[v]
  <2>1. /\ s \in [chunks : Seq(Nat), open : BOOLEAN, dropped : BOOLEAN] /\ published \in Nat
        /\ shown[v] \in Seq(Nat) /\ s.chunks \in Seq(Nat) /\ Len(s.chunks) \in Nat
    BY <1>0, LenProperties DEF TerminalTypes
  <2>2. stream'[v] = Terminal!Offer(s, published + 1) /\ view'[v] = view[v] /\ shown'[v] = shown[v]
    BY <1>1
  <2>3. CASE ~s.open
    <3>1. stream'[v] = s
      BY <2>2, <2>3 DEF Terminal!Offer
    <3>2. ~(view[v] \in {"greeting", "streaming", "ended"} /\ ~s.dropped)
      BY <1>0, <1>2, <2>3 DEF InOrder
    <3> QED
      BY <1>0, <2>1, <2>2, <3>1, <3>2 DEF InOrder, Terminal!Consecutive
  <2>4. CASE s.open /\ Len(s.chunks) < StreamLimit
    <3>1. stream'[v] = [s EXCEPT !.chunks = Append(@, published + 1)]
      BY <2>2, <2>4 DEF Terminal!Offer
    <3>2. /\ Append(s.chunks, published + 1) \in Seq(Nat)
          /\ Len(Append(s.chunks, published + 1)) = Len(s.chunks) + 1
      BY <2>1, AppendProperties
    <3>3. /\ stream'[v].chunks = Append(s.chunks, published + 1)
          /\ stream'[v].open = s.open /\ stream'[v].dropped = s.dropped
          /\ stream'[v] \in [chunks : Seq(Nat), open : BOOLEAN, dropped : BOOLEAN]
      BY <2>1, <3>1, <3>2
    <3>4. view[v] \in {"greeting", "streaming"} /\ ~s.dropped
      BY <1>0, <2>4 DEF InOrder, TerminalTypes
    <3>5. Upto(shown[v], s.chunks, published) /\ Terminal!Consecutive(shown[v] \o s.chunks)
      BY <1>0, <3>4 DEF InOrder
    <3>6. /\ Terminal!Consecutive(shown[v] \o Append(s.chunks, published + 1))
          /\ Upto(shown[v], Append(s.chunks, published + 1), published + 1)
      BY <2>1, <3>5, WholeGrows
    <3>7. Terminal!Consecutive(shown[v] \o stream[v].chunks)'
      BY <3>6, <3>3, <2>2 DEF Terminal!Consecutive
    <3>8. Upto(shown[v], stream[v].chunks, published)'
      BY <3>6, <3>3, <2>2, <1>1 DEF Upto
    <3> HIDE DEF s
    <3>9. Len(stream'[v].chunks) <= StreamLimit
      BY <2>1, <2>4, <3>2, <3>3, TerminalBounds
    <3> QED
      BY <2>2, <2>4, <3>3, <3>4, <3>7, <3>8, <3>9 DEF InOrder
  <2>5. CASE s.open /\ ~(Len(s.chunks) < StreamLimit)
    <3>1. stream'[v] = [s EXCEPT !.open = FALSE, !.dropped = TRUE]
      BY <2>2, <2>5 DEF Terminal!Offer
    <3>2. /\ stream'[v].chunks = s.chunks /\ ~stream'[v].open /\ stream'[v].dropped
          /\ stream'[v] \in [chunks : Seq(Nat), open : BOOLEAN, dropped : BOOLEAN]
      BY <2>1, <3>1
    <3>3. view[v] \in {"greeting", "streaming"}
      BY <1>0, <2>5 DEF InOrder, TerminalTypes
    <3>4. Terminal!Consecutive(shown[v] \o stream[v].chunks)' /\ Len(stream'[v].chunks) <= StreamLimit
      <4>1. Terminal!Consecutive(shown[v] \o s.chunks) /\ Len(s.chunks) <= StreamLimit
        BY <1>0 DEF InOrder
      <4>2. shown'[v] \o stream'[v].chunks = shown[v] \o s.chunks
        BY <2>2, <3>2
      <4> HIDE DEF s
      <4> QED
        BY <4>1, <4>2, <3>2 DEF Terminal!Consecutive
    <3> HIDE DEF s
    <3> QED
      BY <2>2, <3>2, <3>3, <3>4 DEF InOrder
  <2>6. s.open \in BOOLEAN
    BY <2>1
  <2> HIDE DEF s
  <2> QED
    BY <2>3, <2>4, <2>5, <2>6
<1>4. \A v \in Viewers : Acknowledged(v)'
  BY <1>0, <1>1, AcknowledgedKept
<1>5. TerminalTypes'
  <2>1. stream' \in [Viewers -> [chunks : Seq(Nat), open : BOOLEAN, dropped : BOOLEAN]]
    BY <1>1, <1>3
  <2>2. published' \in Nat /\ published' <= produced'
    BY <1>0, <1>1 DEF TerminalTypes
  <2>3. UNCHANGED <<process, held, produced, reader, writer, typing, typed, written, exit, cut,
                    view, acks, shown, acked>>
    BY <1>1
  <2> QED
    BY <1>0, <2>1, <2>2, <2>3 DEF TerminalTypes
<1>6. AllIsRead'
  BY <1>0, <1>1, <1>2 DEF AllIsRead
<1> QED
  BY <1>3, <1>4, <1>5, <1>6 DEF TerminalInv

\* The writer takes an input, writes it and stops.
LEMMA WriterStep ==
  ASSUME TerminalInv,
         Terminal!WriterTakes \/ Terminal!Writes \/ Terminal!WriteFails \/ Terminal!WriterStops
  PROVE  TerminalInv'
<1>0. TerminalTypes /\ AllIsRead /\ \A v \in Viewers : InOrder(v) /\ Acknowledged(v)
  BY DEF TerminalInv
<1>1. UNCHANGED <<process, held, produced, published, reader, exit, cut, view, stream, acks, shown,
                  acked, typed>>
  BY DEF Terminal!WriterTakes, Terminal!Writes, Terminal!WriteFails, Terminal!WriterStops,
     Terminal!output, Terminal!viewers
<1>2. /\ writer' \in [at : {"idle", "writing", "acking", "done"}, of : Seq(Viewers), ok : BOOLEAN]
      /\ writer'.at \in {"writing", "acking"} => writer'.of # <<>>
      /\ writer'.at = "writing" => writer'.ok
      /\ typing' \in Seq(Viewers) /\ Len(typing') <= TypingLimit
      /\ written' \in [Viewers -> Nat]
  <2>1. CASE Terminal!WriterTakes
    <3>1. typing # <<>> /\ typing' = Tail(typing) /\ written' = written
          /\ writer' = [at |-> "writing", of |-> <<Head(typing)>>, ok |-> TRUE]
      BY <2>1 DEF Terminal!WriterTakes
    <3>2. Head(typing) \in Viewers /\ Tail(typing) \in Seq(Viewers)
          /\ Len(Tail(typing)) = Len(typing) - 1 /\ Len(typing) \in Nat
      BY <1>0, <3>1, HeadTailProperties, LenProperties DEF TerminalTypes
    <3>3. <<Head(typing)>> \in Seq(Viewers) /\ <<Head(typing)>> # <<>>
      BY <3>2
    <3>4. Len(typing') <= TypingLimit
      <4> DEFINE n == Len(typing)
      <4>1. n <= TypingLimit /\ n \in Nat /\ Len(typing') = n - 1
        BY <1>0, <3>1, <3>2 DEF TerminalTypes
      <4> HIDE DEF n
      <4> QED
        BY <4>1, TerminalBounds
    <3>5. /\ writer'.at = "writing" /\ writer'.of # <<>> /\ writer'.ok
          /\ writer' \in [at : {"idle", "writing", "acking", "done"}, of : Seq(Viewers), ok : BOOLEAN]
      <4>1. PICK h \in Seq(Viewers) : h = <<Head(typing)>> /\ h # <<>>
        BY <3>3
      <4> QED
        BY <3>1, <4>1
    <3>6. written' \in [Viewers -> Nat]
      BY <1>0, <3>1 DEF TerminalTypes
    <3>7. typing' \in Seq(Viewers)
      BY <3>1, <3>2
    <3> QED
      BY <3>4, <3>5, <3>6, <3>7
  <2>2. CASE Terminal!Writes
    <3>1. /\ writer' = [writer EXCEPT !.at = "acking"] /\ writer.at = "writing"
          /\ written' = [written EXCEPT ![Head(writer.of)] = @ + 1] /\ typing' = typing
      BY <2>2 DEF Terminal!Writes
    <3>2. /\ writer' \in [at : {"idle", "writing", "acking", "done"}, of : Seq(Viewers), ok : BOOLEAN]
          /\ writer'.of = writer.of /\ writer'.at = "acking"
      BY <1>0, <3>1 DEF TerminalTypes
    <3>3. written' \in [Viewers -> Nat]
      <4>1. written \in [Viewers -> Nat]
        BY <1>0 DEF TerminalTypes
      <4>2. PICK v \in Viewers : v = Head(writer.of)
        <5>1. writer.of \in Seq(Viewers) /\ writer.of # <<>>
          BY <1>0, <3>1 DEF TerminalTypes
        <5> QED
          BY <5>1, HeadTailProperties
      <4>3. written' = [written EXCEPT ![v] = @ + 1]
        BY <3>1, <4>2
      <4> QED
        BY <4>1, <4>3
    <3>4. writer'.of # <<>> /\ writer'.at # "writing"
      BY <1>0, <3>1, <3>2 DEF TerminalTypes
    <3>5. typing' \in Seq(Viewers) /\ Len(typing') <= TypingLimit
      BY <1>0, <3>1 DEF TerminalTypes
    <3> QED
      BY <3>2, <3>3, <3>4, <3>5
  <2>3. CASE Terminal!WriteFails
    BY <1>0, <2>3 DEF Terminal!WriteFails, TerminalTypes
  <2>4. CASE Terminal!WriterStops
    BY <1>0, <2>4 DEF Terminal!WriterStops, TerminalTypes
  <2> QED
    BY <2>1, <2>2, <2>3, <2>4
<1>3. TerminalTypes'
  BY <1>0, <1>1, <1>2 DEF TerminalTypes
<1>4. AllIsRead'
  BY <1>0, <1>1 DEF AllIsRead, Terminal!Exited
<1>5. \A v \in Viewers : InOrder(v)'
  BY <1>0, <1>1, InOrderKept DEF Terminal!Exited
<1>6. ASSUME NEW v \in Viewers PROVE Acknowledged(v)'
  <2>1. writer.at # "done" /\ acks'[v] = acks[v] /\ acked'[v] = acked[v]
    BY <1>1 DEF Terminal!WriterTakes, Terminal!Writes, Terminal!WriteFails, Terminal!WriterStops
  <2>2. acks[v] \in Seq(BOOLEAN) /\ Len(acks[v]) \in Nat /\ acked[v] \in Nat /\ written[v] \in Nat
    BY <1>0, LenProperties DEF TerminalTypes
  <2>3. \A i \in 1..Len(acks[v]) : acks[v][i]
    BY <1>0, <2>1 DEF Acknowledged
  <2>4. /\ Len(acks[v]) <= AckLimit
        /\ acked[v] + Len(acks[v]) + (IF Acking(v) THEN 1 ELSE 0) <= written[v]
    BY <1>0, <2>2, <2>3 DEF Acknowledged
  <2>5. acked[v] + Len(acks[v]) + (IF Acking(v)' THEN 1 ELSE 0) <= written'[v]
    <3>1. CASE Acking(v)'
      <4>1. writer'.at = "acking" /\ writer'.ok /\ Head(writer'.of) = v
        BY <3>1 DEF Acking
      <4>2. writer \in [at : {"idle", "writing", "acking", "done"}, of : Seq(Viewers), ok : BOOLEAN]
            /\ written \in [Viewers -> Nat]
        BY <1>0 DEF TerminalTypes
      <4>3. Terminal!Writes
        <5>1. ~Terminal!WriterTakes
          BY <4>1 DEF Terminal!WriterTakes
        <5>2. ~Terminal!WriteFails
          <6>1. Terminal!WriteFails => ~writer'.ok
            BY <4>2 DEF Terminal!WriteFails
          <6> QED
            BY <4>1, <6>1
        <5>3. ~Terminal!WriterStops
          <6>1. Terminal!WriterStops => writer'.at = "done"
            BY <4>2 DEF Terminal!WriterStops
          <6> QED
            BY <4>1, <6>1
        <5> QED
          BY <5>1, <5>2, <5>3
      <4>4. writer' = [writer EXCEPT !.at = "acking"] /\ writer.at = "writing"
            /\ written' = [written EXCEPT ![Head(writer.of)] = @ + 1]
        BY <4>3 DEF Terminal!Writes
      <4>5. Head(writer.of) = v
        <5>1. writer'.of = writer.of
          BY <4>2, <4>4
        <5> QED
          BY <4>1, <5>1
      <4>6. written'[v] = written[v] + 1 /\ ~Acking(v)
        BY <4>2, <4>4, <4>5 DEF Acking
      <4> QED
        BY <2>2, <2>4, <3>1, <4>6
    <3>2. CASE ~Acking(v)'
      <4>1. \/ written' = written
            \/ written' = [written EXCEPT ![Head(writer.of)] = @ + 1]
        BY DEF Terminal!WriterTakes, Terminal!Writes, Terminal!WriteFails, Terminal!WriterStops
      <4>2. written'[v] >= written[v] /\ written'[v] \in Nat /\ written[v] \in Nat
        <5>1. written \in [Viewers -> Nat]
          BY <1>0 DEF TerminalTypes
        <5>2. written'[v] = written[v] \/ written'[v] = written[v] + 1
          BY <4>1, <5>1
        <5> QED
          BY <2>2, <5>2
      <4> QED
        BY <2>2, <2>4, <3>2, <4>2
    <3> QED
      BY <3>1, <3>2
  <2>6. ~\E i \in 1..Len(acks'[v]) : ~acks'[v][i]
    BY <2>1, <2>3
  <2>7. /\ Len(acks'[v]) <= AckLimit /\ written'[v] \in Nat
        /\ acked'[v] + Len(acks'[v]) + (IF Acking(v)' THEN 1 ELSE 0) <= written'[v] + 0
    BY <1>2, <2>1, <2>4, <2>5
  <2> QED
    BY <2>6, <2>7 DEF Acknowledged
<1> QED
  BY <1>3, <1>4, <1>5, <1>6 DEF TerminalInv

\* The writer acknowledges an input to the viewer that typed it, if it is there.
LEMMA AcknowledgeStep ==
  ASSUME TerminalInv, Terminal!Acknowledge
  PROVE  TerminalInv'
<1>0. TerminalTypes /\ AllIsRead /\ \A v \in Viewers : InOrder(v) /\ Acknowledged(v)
  BY DEF TerminalInv
<1> DEFINE w == Head(writer.of)
<1>1. /\ writer.at = "acking"
      /\ \/ Len(acks[w]) < AckLimit /\ acks' = [acks EXCEPT ![w] = Append(@, writer.ok)]
         \/ acks' = acks
      /\ writer' = [Terminal!NoWrite EXCEPT !.at = IF writer.ok THEN "idle" ELSE "done"]
      /\ UNCHANGED <<process, held, produced, published, reader, exit, cut, view, stream, typing,
                     shown, acked, typed, written>>
  BY DEF Terminal!Acknowledge, Terminal!output
<1>2. w \in Viewers /\ writer.ok \in BOOLEAN
  <2>1. writer.of \in Seq(Viewers) /\ writer.of # <<>>
    BY <1>0, <1>1 DEF TerminalTypes
  <2> QED
    BY <1>0, <2>1, HeadTailProperties DEF TerminalTypes
<1>3. /\ writer' \in [at : {"idle", "writing", "acking", "done"}, of : Seq(Viewers), ok : BOOLEAN]
      /\ writer'.at = IF writer.ok THEN "idle" ELSE "done"
  <2>1. writer' = [at |-> IF writer.ok THEN "idle" ELSE "done", of |-> <<>>, ok |-> TRUE]
    BY <1>1 DEF Terminal!NoWrite
  <2>2. <<>> \in Seq(Viewers)
    OBVIOUS
  <2> QED
    BY <2>1, <2>2
<1>4. acks' \in [Viewers -> Seq(BOOLEAN)] /\ \A v \in Viewers : v # w => acks'[v] = acks[v]
  <2>1. acks \in [Viewers -> Seq(BOOLEAN)]
    BY <1>0 DEF TerminalTypes
  <2>2. Append(acks[w], writer.ok) \in Seq(BOOLEAN)
    BY <1>2, <2>1, AppendProperties
  <2> HIDE DEF w
  <2> QED
    BY <1>1, <1>2, <2>1, <2>2
<1>5. TerminalTypes'
  BY <1>0, <1>1, <1>3, <1>4 DEF TerminalTypes
<1>6. AllIsRead'
  BY <1>0, <1>1 DEF AllIsRead, Terminal!Exited
<1>7. \A v \in Viewers : InOrder(v)'
  BY <1>0, <1>1, InOrderKept DEF Terminal!Exited
<1>8. ASSUME NEW v \in Viewers PROVE Acknowledged(v)'
  <2>1. acks[v] \in Seq(BOOLEAN) /\ Len(acks[v]) \in Nat /\ acked[v] \in Nat /\ written[v] \in Nat
    BY <1>0, LenProperties DEF TerminalTypes
  <2>2. \A i \in 1..Len(acks[v]) : acks[v][i]
    BY <1>0, <1>1 DEF Acknowledged
  <2>3. /\ Len(acks[v]) <= AckLimit
        /\ acked[v] + Len(acks[v]) + (IF Acking(v) THEN 1 ELSE 0) <= written[v]
    <3>1. ~\E i \in 1..Len(acks[v]) : ~acks[v][i]
      BY <2>2
    <3>2. /\ Len(acks[v]) <= AckLimit
          /\ acked[v] + Len(acks[v]) + (IF Acking(v) THEN 1 ELSE 0) <= written[v] + 0
      BY <1>0, <3>1 DEF Acknowledged
    <3> QED
      BY <2>1, <3>2
  <2>4. ~Acking(v)' /\ acked'[v] = acked[v] /\ written'[v] = written[v]
    BY <1>1, <1>3 DEF Acking
  <2>5. CASE acks'[v] = acks[v]
    BY <2>1, <2>2, <2>3, <2>4, <2>5 DEF Acknowledged
  <2>6. CASE acks'[v] # acks[v]
    <3>1. v = w /\ Len(acks[v]) < AckLimit /\ acks'[v] = Append(acks[v], writer.ok)
      <4>1. v = w
        BY <1>4, <2>6
      <4> HIDE DEF w
      <4> QED
        BY <1>0, <1>1, <2>6, <4>1 DEF TerminalTypes
    <3> DEFINE n == Len(acks[v])
               x == acks'[v]
    <3>2. /\ n \in Nat /\ n < AckLimit /\ Len(x) = n + 1 /\ \A i \in 1..n : x[i] = acks[v][i]
          /\ x[n + 1] = writer.ok
      BY <1>2, <2>1, <3>1, AppendProperties
    <3>3. \A i \in 1..n : x[i]
      BY <2>2, <3>2
    <3>4. Acking(v) <=> writer.ok
      BY <1>1, <3>1 DEF Acking
    <3>5. acked[v] + n + (IF Acking(v) THEN 1 ELSE 0) <= written[v]
      BY <2>3
    <3>6. acked'[v] \in Nat /\ written'[v] \in Nat /\ acked'[v] + n + (IF writer.ok THEN 1 ELSE 0) <= written'[v]
      BY <2>1, <2>4, <3>4, <3>5
    <3> HIDE DEF n, x
    <3>7. Len(x) <= AckLimit
      BY <3>2, TerminalBounds
    <3>8. CASE writer.ok
      <4>1. \A i \in 1..Len(x) : x[i]
        <5> SUFFICES ASSUME NEW i \in 1..Len(x) PROVE x[i]
          OBVIOUS
        <5>1. i \in 1..n \/ i = n + 1
          BY <3>2
        <5>2. x[n + 1]
          BY <3>2, <3>8
        <5> QED
          BY <3>3, <5>1, <5>2
      <4>2. acked'[v] + Len(x) + 0 <= written'[v] + 0
        BY <3>2, <3>6, <3>8
      <4>3. Len(acks'[v]) = Len(x) /\ \A i \in 1..Len(x) : acks'[v][i] = x[i]
        BY DEF x
      <4> QED
        BY <2>4, <3>7, <4>1, <4>2, <4>3 DEF Acknowledged
    <3>9. CASE ~writer.ok
      <4>1. ~x[Len(x)] /\ Len(x) \in 1..Len(x) /\ \A i \in 1..Len(x) : ~x[i] => i = Len(x)
        BY <3>2, <3>3, <3>9
      <4>2. acked'[v] + Len(x) + 0 <= written'[v] + 1
        BY <3>2, <3>6, <3>9
      <4>3. Len(acks'[v]) = Len(x) /\ \A i \in 1..Len(x) : acks'[v][i] = x[i]
        BY DEF x
      <4>4. writer'.at = "done"
        BY <1>3, <3>9
      <4>5. \E i \in 1..Len(acks'[v]) : ~acks'[v][i]
        BY <4>1, <4>3
      <4> QED
        BY <2>4, <3>7, <4>1, <4>2, <4>3, <4>4, <4>5 DEF Acknowledged
    <3> QED
      BY <3>8, <3>9
  <2> QED
    BY <2>5, <2>6
<1> QED
  BY <1>5, <1>6, <1>7, <1>8 DEF TerminalInv

\* The streams end with the process.
LEMMA SetsExitedStep ==
  ASSUME TerminalInv, Terminal!SetsExited
  PROVE  TerminalInv'
<1>0. TerminalTypes /\ AllIsRead /\ \A v \in Viewers : InOrder(v) /\ Acknowledged(v)
  BY DEF TerminalInv
<1>1. /\ exit = "closed" /\ exit' = "exited" /\ reader = "done"
      /\ stream' = [v \in Viewers |-> [stream[v] EXCEPT !.open = FALSE]]
      /\ UNCHANGED <<process, held, produced, published, reader, writer, typing, typed, written,
                     cut, view, acks, shown, acked>>
  BY DEF Terminal!SetsExited, Terminal!ExitGoes, Terminal!output, Terminal!input
<1>2. ASSUME NEW v \in Viewers
      PROVE  /\ stream'[v] \in [chunks : Seq(Nat), open : BOOLEAN, dropped : BOOLEAN]
             /\ stream'[v].chunks = stream[v].chunks /\ ~stream'[v].open
             /\ stream'[v].dropped = stream[v].dropped
  BY <1>0, <1>1 DEF TerminalTypes
<1>3. TerminalTypes'
  <2>1. stream' \in [Viewers -> [chunks : Seq(Nat), open : BOOLEAN, dropped : BOOLEAN]]
    BY <1>1, <1>2
  <2> QED
    BY <1>0, <1>1, <2>1 DEF TerminalTypes
<1>4. AllIsRead'
  BY <1>0, <1>1 DEF AllIsRead
<1>5. ASSUME NEW v \in Viewers PROVE InOrder(v)'
  <2>1. Terminal!Exited' /\ view'[v] = view[v] /\ shown'[v] = shown[v] /\ published' = published
    BY <1>1 DEF Terminal!Exited
  <2>2. Terminal!Consecutive(shown[v] \o stream[v].chunks)'
    BY <1>0, <1>2, <2>1 DEF InOrder, Terminal!Consecutive
  <2>3. Upto(shown[v], stream[v].chunks, published) => Upto(shown[v], stream[v].chunks, published)'
    BY <1>2, <2>1 DEF Upto
  <2> QED
    BY <1>0, <1>2, <2>1, <2>2, <2>3 DEF InOrder
<1>6. \A v \in Viewers : Acknowledged(v)'
  BY <1>0, <1>1, AcknowledgedKept
<1> QED
  BY <1>3, <1>4, <1>5, <1>6 DEF TerminalInv

-----------------------------------------------------------------------------
(* A viewer's connection.                                                   *)

\* What the connection of v may do to the rest: nothing, but the input it queues.
LEMMA ConnectionStep ==
  ASSUME TerminalInv, NEW v \in Viewers, Terminal!Connection(v),
         view' \in [Viewers -> {"none", "greeting", "streaming", "ended", "left"}],
         stream' \in [Viewers -> [chunks : Seq(Nat), open : BOOLEAN, dropped : BOOLEAN]],
         shown' \in [Viewers -> Seq(Nat)], acks' \in [Viewers -> Seq(BOOLEAN)],
         acked' \in [Viewers -> Nat], typed' \in Nat, writer' = writer, written' = written,
         typing' \in Seq(Viewers), Len(typing') <= TypingLimit,
         \A u \in Viewers \ {v} : /\ view'[u] = view[u] /\ stream'[u] = stream[u] /\ shown'[u] = shown[u]
                                  /\ acks'[u] = acks[u] /\ acked'[u] = acked[u],
         InOrder(v)', Acknowledged(v)'
  PROVE  TerminalInv'
<1>0. TerminalTypes /\ AllIsRead /\ \A u \in Viewers : InOrder(u) /\ Acknowledged(u)
  BY DEF TerminalInv
<1>1. UNCHANGED <<process, held, produced, published, reader, exit, cut>>
  BY DEF Terminal!Connection, Terminal!output
<1>2. TerminalTypes'
  BY <1>0, <1>1 DEF TerminalTypes
<1>3. AllIsRead'
  BY <1>0, <1>1 DEF AllIsRead, Terminal!Exited
<1>4. \A u \in Viewers : InOrder(u)'
  BY <1>1, OthersInOrder DEF OnlyConnection, Terminal!Exited
<1>5. \A u \in Viewers \ {v} : Acknowledged(u)'
  BY <1>0, AcknowledgedKept
<1> QED
  BY <1>2, <1>3, <1>4, <1>5 DEF TerminalInv

\* A viewer comes, is greeted, goes, types, is shown a chunk or sees the end of its
\* stream or of the writer: nothing is acknowledged.
LEMMA ViewerStep ==
  ASSUME TerminalInv, NEW v \in Viewers,
         \/ Terminal!Attach(v) \/ Terminal!Greet(v) \/ Terminal!Disconnects(v) \/ Terminal!Types(v)
         \/ Terminal!Shows(v) \/ Terminal!StreamEnds(v) \/ Terminal!SeesWriterGone(v)
  PROVE  TerminalInv'
<1>0. TerminalTypes /\ InOrder(v) /\ Acknowledged(v)
  BY DEF TerminalInv
<1> DEFINE Stream == [chunks : Seq(Nat), open : BOOLEAN, dropped : BOOLEAN]
<1>1. /\ view \in [Viewers -> {"none", "greeting", "streaming", "ended", "left"}]
      /\ stream \in [Viewers -> Stream] /\ shown \in [Viewers -> Seq(Nat)] /\ published \in Nat
      /\ stream[v] \in Stream /\ stream[v].chunks \in Seq(Nat) /\ shown[v] \in Seq(Nat)
  BY <1>0 DEF TerminalTypes
<1>2. /\ Terminal!Connection(v) /\ UNCHANGED <<acks, acked, writer, written>>
      /\ published' = published /\ exit' = exit
  BY DEF Terminal!Attach, Terminal!Greet, Terminal!Disconnects, Terminal!Types, Terminal!Shows,
     Terminal!StreamEnds, Terminal!SeesWriterGone, Terminal!input, Terminal!Connection, Terminal!output
<1>3. Terminal!Exited' <=> Terminal!Exited
  BY <1>2 DEF Terminal!Exited
<1>4. typed' \in Nat /\ typing' \in Seq(Viewers) /\ Len(typing') <= TypingLimit
  <2>1. typed \in Nat /\ typing \in Seq(Viewers) /\ Len(typing) <= TypingLimit
    BY <1>0 DEF TerminalTypes
  <2>2. typed' \in {typed, typed + 1}
    BY DEF Terminal!Attach, Terminal!Greet, Terminal!Disconnects, Terminal!Types, Terminal!Shows,
       Terminal!StreamEnds, Terminal!SeesWriterGone, Terminal!input
  <2>3. \/ typing' = typing
        \/ typing' = Append(typing, v) /\ Len(typing) # TypingLimit
    BY DEF Terminal!Attach, Terminal!Greet, Terminal!Disconnects, Terminal!Types, Terminal!Shows,
       Terminal!StreamEnds, Terminal!SeesWriterGone, Terminal!input
  <2>4. Append(typing, v) \in Seq(Viewers) /\ Len(Append(typing, v)) = Len(typing) + 1
        /\ Len(typing) \in Nat
    BY <2>1, AppendProperties, LenProperties
  <2> DEFINE n == Len(typing)
             m == Len(Append(typing, v))
  <2>5. n \in Nat /\ n <= TypingLimit /\ m = n + 1
    BY <2>1, <2>4
  <2> HIDE DEF n, m
  <2>6. n # TypingLimit => m <= TypingLimit
    BY <2>5, TerminalBounds
  <2>7. CASE typing' = typing
    BY <2>1, <2>2, <2>7
  <2>8. CASE typing' = Append(typing, v) /\ Len(typing) # TypingLimit
    BY <2>1, <2>2, <2>4, <2>6, <2>8 DEF n, m
  <2> QED
    BY <2>3, <2>7, <2>8
<1>5. /\ view' \in [Viewers -> {"none", "greeting", "streaming", "ended", "left"}]
      /\ stream' \in [Viewers -> Stream] /\ shown' \in [Viewers -> Seq(Nat)]
      /\ \A u \in Viewers \ {v} : view'[u] = view[u] /\ stream'[u] = stream[u] /\ shown'[u] = shown[u]
      /\ InOrder(v)'
  <2>1. CASE Terminal!Attach(v)
    <3>1. /\ view[v] = "none" /\ view' = [view EXCEPT ![v] = "greeting"]
          /\ stream' = [stream EXCEPT ![v].open = ~Terminal!Exited]
          /\ shown' = [shown EXCEPT ![v] = Terminal!Replay]
      BY <2>1 DEF Terminal!Attach
    <3>2. /\ Terminal!Replay \in Seq(Nat) /\ Terminal!Consecutive(Terminal!Replay \o <<>>)
          /\ Upto(Terminal!Replay, <<>>, published)
      BY <1>1, ReplayIsTheEnd
    <3>3. stream[v].chunks = <<>> /\ ~stream[v].dropped
      BY <1>0, <3>1 DEF InOrder
    <3>4. /\ stream'[v].chunks = <<>> /\ ~stream'[v].dropped /\ (stream'[v].open <=> ~Terminal!Exited)
          /\ stream' \in [Viewers -> Stream]
          /\ \A u \in Viewers \ {v} : stream'[u] = stream[u]
      <4>1. Terminal!Exited \in BOOLEAN
        BY DEF Terminal!Exited
      <4>2. stream'[v] = [stream[v] EXCEPT !.open = ~Terminal!Exited]
        BY <1>1, <3>1
      <4> QED
        BY <1>1, <3>1, <3>3, <4>1, <4>2
    <3>5. shown'[v] = Terminal!Replay /\ view'[v] = "greeting"
          /\ shown' \in [Viewers -> Seq(Nat)]
          /\ view' \in [Viewers -> {"none", "greeting", "streaming", "ended", "left"}]
          /\ \A u \in Viewers \ {v} : view'[u] = view[u] /\ shown'[u] = shown[u]
      BY <1>1, <3>1, <3>2
    <3>6. Terminal!Consecutive(shown[v] \o stream[v].chunks)'
      BY <3>2, <3>4, <3>5 DEF Terminal!Consecutive
    <3>7. Upto(shown[v], stream[v].chunks, published)'
      BY <1>2, <3>2, <3>4, <3>5 DEF Upto
    <3>8. Len(stream'[v].chunks) <= StreamLimit
      BY <3>4, TerminalBounds
    <3>9. InOrder(v)'
      BY <1>3, <3>4, <3>5, <3>6, <3>7, <3>8 DEF InOrder
    <3> QED
      BY <3>4, <3>5, <3>9
  <2>2. CASE Terminal!Greet(v)
    <3>1. /\ view[v] = "greeting" /\ view' = [view EXCEPT ![v] = "streaming"]
          /\ stream' = stream /\ shown' = shown
      BY <2>2 DEF Terminal!Greet
    <3>2. view'[v] = "streaming"
      BY <1>1, <3>1
    <3>3. InOrder(v)'
      BY <1>0, <1>2, <1>3, <3>1, <3>2 DEF InOrder, Upto, Terminal!Consecutive
    <3> QED
      BY <1>1, <3>1, <3>3
  <2>3. CASE Terminal!StreamEnds(v)
    <3>1. /\ view[v] = "streaming" /\ view' = [view EXCEPT ![v] = "ended"]
          /\ stream[v].chunks = <<>> /\ ~stream[v].open /\ stream' = stream /\ shown' = shown
      BY <2>3 DEF Terminal!StreamEnds
    <3>2. view'[v] = "ended"
      BY <1>1, <3>1
    <3>3. InOrder(v)'
      BY <1>0, <1>2, <1>3, <3>1, <3>2 DEF InOrder, Upto, Terminal!Consecutive
    <3> QED
      BY <1>1, <3>1, <3>3
  <2>4. CASE Terminal!Leaves(v) /\ shown' = shown
    <3>1. /\ view' = [view EXCEPT ![v] = "left"] /\ stream' = [stream EXCEPT ![v].open = FALSE]
      BY <2>4 DEF Terminal!Leaves
    <3>2. /\ stream'[v].chunks = stream[v].chunks /\ ~stream'[v].open
          /\ stream' \in [Viewers -> Stream] /\ \A u \in Viewers \ {v} : stream'[u] = stream[u]
      <4>1. stream'[v] = [stream[v] EXCEPT !.open = FALSE]
        BY <1>1, <3>1
      <4> QED
        BY <1>1, <3>1, <4>1
    <3>3. view'[v] = "left" /\ \A u \in Viewers \ {v} : view'[u] = view[u]
      BY <1>1, <3>1
    <3>4. Terminal!Consecutive(shown[v] \o stream[v].chunks)'
      BY <1>0, <2>4, <3>2 DEF InOrder, Terminal!Consecutive
    <3>5. InOrder(v)'
      BY <1>0, <2>4, <3>2, <3>3, <3>4 DEF InOrder
    <3> QED
      BY <1>1, <2>4, <3>1, <3>2, <3>3, <3>5
  <2>5. CASE Terminal!Shows(v)
    <3> DEFINE t == stream[v].chunks
    <3>1. /\ view[v] = "streaming" /\ t # <<>> /\ view' = view
          /\ shown' = [shown EXCEPT ![v] = Append(@, Head(t))]
          /\ stream' = [stream EXCEPT ![v].chunks = Tail(@)]
      BY <2>5 DEF Terminal!Shows
    <3>2. /\ Append(shown[v], Head(t)) \o Tail(t) = shown[v] \o t
          /\ Len(Append(shown[v], Head(t))) + Len(Tail(t)) = Len(shown[v]) + Len(t)
          /\ Append(shown[v], Head(t)) \in Seq(Nat) /\ Tail(t) \in Seq(Nat)
      BY <1>1, <3>1, WholeMoves
    <3>3. /\ shown'[v] = Append(shown[v], Head(t)) /\ shown' \in [Viewers -> Seq(Nat)]
          /\ \A u \in Viewers \ {v} : shown'[u] = shown[u]
      BY <1>1, <3>1, <3>2
    <3>4. /\ stream'[v].chunks = Tail(t) /\ stream'[v].open = stream[v].open
          /\ stream'[v].dropped = stream[v].dropped
          /\ stream' \in [Viewers -> Stream] /\ \A u \in Viewers \ {v} : stream'[u] = stream[u]
      <4>1. stream'[v] = [stream[v] EXCEPT !.chunks = Tail(t)]
        BY <1>1, <3>1
      <4> QED
        BY <1>1, <3>1, <3>2, <4>1
    <3>5. Len(Tail(t)) <= StreamLimit
      <4>1. Len(Tail(t)) = Len(t) - 1 /\ Len(t) \in Nat
        BY <1>1, <3>1, HeadTailProperties, LenProperties
      <4>2. Len(t) <= StreamLimit
        BY <1>0 DEF InOrder
      <4> DEFINE n == Len(t)
                 m == Len(Tail(t))
      <4>3. n \in Nat /\ m = n - 1 /\ n <= StreamLimit
        BY <4>1, <4>2
      <4> HIDE DEF n, m
      <4>4. m <= StreamLimit
        BY <4>3, TerminalBounds
      <4> QED
        BY <4>4 DEF m
    <3>6. shown'[v] \o stream'[v].chunks = shown[v] \o t
          /\ Len(shown'[v]) + Len(stream'[v].chunks) = Len(shown[v]) + Len(t)
      BY <3>2, <3>3, <3>4
    <3>7. Terminal!Consecutive(shown[v] \o t)
      BY <1>0 DEF InOrder
    <3>8. Terminal!Consecutive(shown[v] \o stream[v].chunks)'
      BY <3>6, <3>7 DEF Terminal!Consecutive
    <3>9. Upto(shown[v], t, published) => Upto(shown[v], stream[v].chunks, published)'
      BY <1>2, <3>6 DEF Upto
    <3>10. view[v] = "streaming" /\ view'[v] = "streaming"
      BY <3>1
    <3>11. /\ stream[v].dropped => ~stream[v].open
           /\ ~stream[v].dropped => /\ Upto(shown[v], t, published)
                                    /\ stream[v].open \/ Terminal!Exited
      BY <1>0, <3>1 DEF InOrder
    <3>12. InOrder(v)'
      BY <1>3, <3>4, <3>5, <3>8, <3>9, <3>10, <3>11 DEF InOrder
    <3> QED
      BY <1>1, <3>1, <3>3, <3>4, <3>12
  <2>6. CASE view' = view /\ stream' = stream /\ shown' = shown
    <3>1. InOrder(v)'
      BY <1>0, <1>2, <1>3, <2>6, InOrderKept
    <3> QED
      BY <1>1, <2>6, <3>1
  <2>7. Terminal!Disconnects(v) \/ Terminal!SeesWriterGone(v) => Terminal!Leaves(v) /\ shown' = shown
    BY DEF Terminal!Disconnects, Terminal!SeesWriterGone
  <2>8. Terminal!Types(v) => \/ Terminal!Leaves(v) /\ shown' = shown
                             \/ view' = view /\ stream' = stream /\ shown' = shown
    BY DEF Terminal!Types
  <2> HIDE DEF Stream
  <2> QED
    BY <2>1, <2>2, <2>3, <2>4, <2>5, <2>6, <2>7, <2>8
<1>6. Acknowledged(v)'
  BY <1>0, <1>2, AcknowledgedKept
<1>7. acks' \in [Viewers -> Seq(BOOLEAN)] /\ acked' \in [Viewers -> Nat]
  BY <1>0, <1>2 DEF TerminalTypes
<1> QED
  BY <1>2, <1>4, <1>5, <1>6, <1>7, ConnectionStep

\* A viewer takes an acknowledgement, and leaves at one that tells of a failed write.
LEMMA TakesAckStep ==
  ASSUME TerminalInv, NEW v \in Viewers, Terminal!TakesAck(v)
  PROVE  TerminalInv'
<1>0. TerminalTypes /\ InOrder(v) /\ Acknowledged(v)
  BY DEF TerminalInv
<1> DEFINE Stream == [chunks : Seq(Nat), open : BOOLEAN, dropped : BOOLEAN]
           a == acks[v]
<1>1. /\ view[v] = "streaming" /\ a # <<>> /\ acks' = [acks EXCEPT ![v] = Tail(@)]
      /\ \/ Head(a) /\ acked' = [acked EXCEPT ![v] = @ + 1] /\ view' = view /\ stream' = stream
         \/ ~Head(a) /\ acked' = acked /\ Terminal!Leaves(v)
      /\ UNCHANGED <<writer, typing, typed, written, shown>> /\ Terminal!Connection(v)
  BY DEF Terminal!TakesAck, Terminal!input
<1>2. published' = published /\ (Terminal!Exited' <=> Terminal!Exited)
  BY <1>1 DEF Terminal!Connection, Terminal!output, Terminal!Exited
<1>3. /\ view \in [Viewers -> {"none", "greeting", "streaming", "ended", "left"}]
      /\ stream \in [Viewers -> Stream] /\ shown \in [Viewers -> Seq(Nat)]
      /\ acks \in [Viewers -> Seq(BOOLEAN)] /\ acked \in [Viewers -> Nat]
      /\ a \in Seq(BOOLEAN) /\ acked[v] \in Nat /\ written[v] \in Nat
      /\ typed \in Nat /\ typing \in Seq(Viewers) /\ Len(typing) <= TypingLimit
  BY <1>0 DEF TerminalTypes
<1>4. /\ view' \in [Viewers -> {"none", "greeting", "streaming", "ended", "left"}]
      /\ stream' \in [Viewers -> Stream]
      /\ \A u \in Viewers \ {v} : view'[u] = view[u] /\ stream'[u] = stream[u] /\ shown'[u] = shown[u]
      /\ InOrder(v)'
  <2>1. CASE view' = view /\ stream' = stream
    <3>1. InOrder(v)'
      BY <1>0, <1>1, <1>2, <2>1, InOrderKept
    <3> QED
      BY <1>1, <1>3, <2>1, <3>1
  <2>2. CASE Terminal!Leaves(v)
    <3>1. /\ view' = [view EXCEPT ![v] = "left"] /\ stream' = [stream EXCEPT ![v].open = FALSE]
      BY <2>2 DEF Terminal!Leaves
    <3>2. /\ stream'[v].chunks = stream[v].chunks /\ ~stream'[v].open
          /\ stream' \in [Viewers -> Stream] /\ \A u \in Viewers \ {v} : stream'[u] = stream[u]
      <4>1. stream'[v] = [stream[v] EXCEPT !.open = FALSE]
        BY <1>3, <3>1
      <4> QED
        BY <1>3, <3>1, <4>1
    <3>3. view'[v] = "left" /\ \A u \in Viewers \ {v} : view'[u] = view[u]
      BY <1>3, <3>1
    <3>4. Terminal!Consecutive(shown[v] \o stream[v].chunks)'
      BY <1>0, <1>1, <3>2 DEF InOrder, Terminal!Consecutive
    <3>5. InOrder(v)'
      BY <1>0, <1>1, <3>2, <3>3, <3>4 DEF InOrder
    <3> QED
      BY <1>1, <1>3, <3>1, <3>2, <3>3, <3>5
  <2> QED
    BY <1>1, <2>1, <2>2
<1>5. /\ Tail(a) \in Seq(BOOLEAN) /\ Len(a) \in Nat /\ Len(Tail(a)) = Len(a) - 1 /\ Len(a) > 0
      /\ Head(a) = a[1] /\ \A i \in 1..Len(Tail(a)) : Tail(a)[i] = a[i + 1]
  <2>1. a # <<>> /\ a \in Seq(BOOLEAN)
    BY <1>1, <1>3
  <2> HIDE DEF a
  <2>2. Len(a) \in Nat /\ Len(a) > 0
    BY <2>1, LenProperties, EmptySeq
  <2>3. Tail(a) \in Seq(BOOLEAN) /\ Len(Tail(a)) = Len(a) - 1
        /\ \A i \in 1..Len(Tail(a)) : Tail(a)[i] = a[i + 1]
    BY <2>1, HeadTailProperties
  <2>4. Head(a) = a[1]
    BY <2>1
  <2> QED
    BY <2>2, <2>3, <2>4
<1>6. /\ acks' \in [Viewers -> Seq(BOOLEAN)] /\ acks'[v] = Tail(a)
      /\ \A u \in Viewers \ {v} : acks'[u] = acks[u]
  BY <1>1, <1>3, <1>5
<1>7. /\ acked' \in [Viewers -> Nat] /\ \A u \in Viewers \ {v} : acked'[u] = acked[u]
      /\ acked'[v] = IF Head(a) THEN acked[v] + 1 ELSE acked[v]
  <2> HIDE DEF a
  <2>1. CASE Head(a)
    <3>1. acked' = [acked EXCEPT ![v] = @ + 1]
      BY <1>1, <2>1
    <3>2. acked' \in [Viewers -> Nat] /\ acked'[v] = acked[v] + 1
          /\ \A u \in Viewers \ {v} : acked'[u] = acked[u]
      BY <1>3, <3>1
    <3> QED
      BY <2>1, <3>2
  <2>2. CASE ~Head(a)
    <3>1. acked' = acked
      BY <1>1, <2>2
    <3> QED
      BY <1>3, <2>2, <3>1
  <2> QED
    BY <2>1, <2>2
<1>8. Acknowledged(v)'
  <2> DEFINE n == Len(a)
             x == Tail(a)
  <2>1. /\ n \in Nat /\ n > 0 /\ Len(x) = n - 1 /\ \A i \in 1..n - 1 : x[i] = a[i + 1]
        /\ n <= AckLimit
        /\ \A i \in 1..n : ~a[i] => i = n /\ writer.at = "done"
        /\ acked[v] + n + (IF Acking(v) THEN 1 ELSE 0) <=
             written[v] + (IF \E i \in 1..n : ~a[i] THEN 1 ELSE 0)
        /\ (Head(a) <=> a[1])
    BY <1>0, <1>5 DEF Acknowledged
  <2>2. (Acking(v)' <=> Acking(v)) /\ writer' = writer /\ written'[v] = written[v]
    BY <1>1 DEF Acking
  <2>3. Len(acks'[v]) = n - 1 /\ \A i \in 1..n - 1 : acks'[v][i] = a[i + 1]
    BY <1>6, <2>1
  <2> DEFINE d == IF \E i \in 1..n : ~a[i] THEN 1 ELSE 0
             e == IF \E i \in 1..Len(acks'[v]) : ~acks'[v][i] THEN 1 ELSE 0
             k == IF Acking(v) THEN 1 ELSE 0
  <2> HIDE DEF n, x, a
  <2>0. /\ n \in Nat /\ n > 0 /\ n <= AckLimit /\ AckLimit \in Nat
    BY <2>1, TerminalBounds
  <2>10. \A i \in 1..n : ~a[i] => i = n /\ writer.at = "done"
    BY <2>1
  <2>11. acked[v] + n + k <= written[v] + d
    BY <2>1 DEF k, d
  <2>12. d \in {0, 1} /\ e \in {0, 1} /\ k \in {0, 1}
    BY DEF d, e, k
  <2>13. (d = 1 <=> \E i \in 1..n : ~a[i])
         /\ (e = 1 <=> \E i \in 1..Len(acks'[v]) : ~acks'[v][i])
    BY DEF d, e
  <2>4. n - 1 <= AckLimit
    BY <2>0
  <2>5. \A i \in 1..n - 1 : ~acks'[v][i] => i = n - 1 /\ writer'.at = "done"
    <3> SUFFICES ASSUME NEW i \in 1..n - 1, ~acks'[v][i] PROVE i = n - 1 /\ writer'.at = "done"
      OBVIOUS
    <3>1. i + 1 \in 1..n /\ ~a[i + 1]
      BY <2>0, <2>3
    <3>2. i + 1 = n /\ writer.at = "done"
      BY <2>10, <3>1
    <3> QED
      BY <2>0, <2>2, <3>2
  <2>6. CASE Head(a)
    <3>1. a[1] /\ acked'[v] = acked[v] + 1
      BY <1>7, <2>1, <2>6
    <3>2. d <= e
      <4> SUFFICES ASSUME NEW i \in 1..n, ~a[i] PROVE \E j \in 1..Len(acks'[v]) : ~acks'[v][j]
        BY <2>12, <2>13
      <4>1. i # 1 /\ i - 1 \in 1..n - 1 /\ (i - 1) + 1 = i
        BY <2>0, <3>1
      <4>2. acks'[v][i - 1] = a[i]
        BY <2>3, <4>1
      <4> QED
        BY <2>3, <4>1, <4>2
    <3>4. Len(acks'[v]) = n - 1 /\ acked'[v] + (n - 1) + k <= written'[v] + e
      <4> HIDE DEF d, e, k
      <4>1. acked[v] \in Nat /\ written[v] \in Nat
        BY <1>3
      <4>2. \A q, w \in Nat : q + n + k <= w + d => (q + 1) + (n - 1) + k <= w + e
        BY <2>0, <2>12, <3>2
      <4>3. (acked[v] + 1) + (n - 1) + k <= written[v] + e
        BY <2>11, <4>1, <4>2
      <4> QED
        BY <2>2, <2>3, <3>1, <4>3
    <3> QED
      BY <2>2, <2>3, <2>4, <2>5, <3>4 DEF Acknowledged, e, k
  <2>7. CASE ~Head(a)
    <3>1. ~a[1] /\ acked'[v] = acked[v]
      BY <1>7, <2>1, <2>7
    <3>2. n = 1
      BY <2>0, <2>10, <3>1
    <3>4. Len(acks'[v]) = n - 1 /\ acked'[v] + (n - 1) + k <= written'[v] + e
      <4> HIDE DEF d, e, k
      <4>1. acked[v] \in Nat /\ written[v] \in Nat
        BY <1>3
      <4>2. \A q, w \in Nat : q + n + k <= w + d => q + (n - 1) + k <= w + e
        BY <2>0, <2>12, <3>2
      <4>3. acked[v] + (n - 1) + k <= written[v] + e
        BY <2>11, <4>1, <4>2
      <4> QED
        BY <2>2, <2>3, <3>1, <4>3
    <3> QED
      BY <2>2, <2>3, <2>4, <2>5, <3>4 DEF Acknowledged, e, k
  <2> QED
    BY <2>6, <2>7
<1> HIDE DEF a, Stream
<1>9. typing' \in Seq(Viewers) /\ Len(typing') <= TypingLimit /\ typed' \in Nat /\ shown' \in [Viewers -> Seq(Nat)]
  BY <1>1, <1>3
<1> QED
  BY <1>1, <1>4, <1>6, <1>7, <1>8, <1>9, ConnectionStep DEF Stream

-----------------------------------------------------------------------------
LEMMA TerminalStep ==
  ASSUME TerminalInv, Terminal!Next
  PROVE  TerminalInv'
  BY ProcessStep, PublishStep, WriterStep, AcknowledgeStep, SetsExitedStep, ViewerStep,
     TakesAckStep DEF Terminal!Next, Terminal!Serves

\* TerminalInv holds in every state.
LEMMA TerminalCorrect == Spec => []TerminalInv
<1>1. Init => TerminalInv
  <2> SUFFICES ASSUME Init PROVE TerminalInv
    OBVIOUS
  <2>1. Terminal!Init
    BY DEF Init
  <2>2. <<>> \in Seq(Viewers) /\ <<>> \in Seq(Nat) /\ <<>> \in Seq(BOOLEAN) /\ Len(<<>>) = 0
    OBVIOUS
  <2>3. TerminalTypes
    <3>1. Len(typing) <= TypingLimit /\ typing \in Seq(Viewers)
      BY <2>1, <2>2, TerminalBounds DEF Terminal!Init
    <3>2. writer \in [at : {"idle", "writing", "acking", "done"}, of : Seq(Viewers), ok : BOOLEAN]
          /\ writer.at = "idle"
      BY <2>1, <2>2 DEF Terminal!Init, Terminal!NoWrite
    <3>3. stream \in [Viewers -> [chunks : Seq(Nat), open : BOOLEAN, dropped : BOOLEAN]]
      BY <2>1, <2>2 DEF Terminal!Init
    <3>4. acks \in [Viewers -> Seq(BOOLEAN)] /\ shown \in [Viewers -> Seq(Nat)]
          /\ written \in [Viewers -> Nat] /\ acked \in [Viewers -> Nat]
          /\ view \in [Viewers -> {"none", "greeting", "streaming", "ended", "left"}]
      BY <2>1, <2>2 DEF Terminal!Init
    <3>5. process = "running" /\ held = FALSE /\ produced = 0 /\ published = 0 /\ reader = "reading"
          /\ exit = "waiting" /\ cut = FALSE /\ typed = 0
      BY <2>1 DEF Terminal!Init
    <3>6. published <= produced /\ writer.at \notin {"writing", "acking"}
      BY <3>2, <3>5
    <3> QED
      BY <3>1, <3>2, <3>3, <3>4, <3>5, <3>6 DEF TerminalTypes
  <2>4. AllIsRead
    BY <2>1 DEF Terminal!Init, AllIsRead, Terminal!Exited
  <2>5. ASSUME NEW v \in Viewers PROVE InOrder(v) /\ Acknowledged(v)
    <3>1. /\ view[v] = "none" /\ shown[v] = <<>> /\ acks[v] = <<>> /\ acked[v] = 0 /\ written[v] = 0
          /\ stream[v] = [chunks |-> <<>>, open |-> FALSE, dropped |-> FALSE]
          /\ writer.at = "idle"
      BY <2>1 DEF Terminal!Init, Terminal!NoWrite
    <3>2. <<>> \o <<>> = <<>>
      BY <2>2, ConcatEmptySeq
    <3>3. Terminal!Consecutive(shown[v] \o stream[v].chunks)
      BY <3>1, <3>2 DEF Terminal!Consecutive
    <3>4. InOrder(v)
      BY <2>2, <3>1, <3>3, TerminalBounds DEF InOrder
    <3>5. Len(acks[v]) = 0 /\ ~Acking(v)
      BY <2>2, <3>1 DEF Acking
    <3>6. Acknowledged(v)
      BY <3>1, <3>5, TerminalBounds DEF Acknowledged
    <3> QED
      BY <3>4, <3>6
  <2> QED
    BY <2>3, <2>4, <2>5 DEF TerminalInv
<1>2. ASSUME TerminalInv, UNCHANGED terminalVars PROVE TerminalInv'
  <2>1. UNCHANGED <<process, held, produced, published, reader, writer, typing, exit, cut, view,
                    stream, acks, shown, typed, written, acked>>
    BY <1>2 DEF terminalVars
  <2>2. Terminal!Exited' <=> Terminal!Exited
    BY <2>1 DEF Terminal!Exited
  <2>3. TerminalTypes' /\ AllIsRead'
    BY <1>2, <2>1, <2>2 DEF TerminalInv, TerminalTypes, AllIsRead
  <2>4. \A v \in Viewers : InOrder(v)' /\ Acknowledged(v)'
    BY <1>2, <2>1, <2>2, InOrderKept, AcknowledgedKept DEF TerminalInv
  <2> QED
    BY <2>3, <2>4 DEF TerminalInv
<1>3. TerminalInv /\ [Next]_vars => TerminalInv'
  BY <1>2, TerminalMoves, TerminalStep
<1> QED
  BY <1>1, <1>3, PTL DEF Spec

LEMMA TerminalTypesHold == Spec => []Terminal!TypeOK
<1>1. TerminalInv => Terminal!TypeOK
  <2> SUFFICES ASSUME TerminalInv PROVE Terminal!TypeOK
    OBVIOUS
  <2>1. writer.at \in {"idle", "writing", "acking", "done"}
    BY DEF TerminalInv, TerminalTypes
  <2>2. \A v \in Viewers : Len(stream[v].chunks) <= StreamLimit /\ Len(acks[v]) <= AckLimit
    BY DEF TerminalInv, InOrder, Acknowledged
  <2> QED
    BY <2>1, <2>2 DEF TerminalInv, TerminalTypes, Terminal!TypeOK
<1> QED
  BY <1>1, TerminalCorrect, PTL

\* However the process, its readers and the viewers' connections interleave: a viewer
\* is shown the output without a gap or a repetition and, unless it was dropped or the
\* drain was cut short, to its last chunk; an acknowledged input was written (terminal.go).
THEOREM TerminalsAreTrue == Spec => Terminal!TerminalIsTrue
<1>1. TerminalInv => Terminal!ShownInOrder /\ Terminal!LastWordsAreShown /\ Terminal!AcksAreHonest
  <2> SUFFICES ASSUME TerminalInv
               PROVE  Terminal!ShownInOrder /\ Terminal!LastWordsAreShown /\ Terminal!AcksAreHonest
    OBVIOUS
  <2>0. TerminalTypes /\ AllIsRead /\ \A v \in Viewers : InOrder(v) /\ Acknowledged(v)
    BY DEF TerminalInv
  <2>1. Terminal!ShownInOrder
    BY <2>0 DEF InOrder, Terminal!ShownInOrder
  <2>2. Terminal!LastWordsAreShown
    <3> SUFFICES ASSUME NEW v \in Viewers, view[v] = "ended", ~stream[v].dropped, ~cut, produced > 0
                 PROVE  shown[v] # <<>> /\ shown[v][Len(shown[v])] = produced
      BY DEF Terminal!LastWordsAreShown
    <3>1. /\ stream[v].chunks = <<>> /\ ~stream[v].open
          /\ Upto(shown[v], stream[v].chunks, published) /\ (stream[v].open \/ Terminal!Exited)
      BY <2>0 DEF InOrder
    <3>2. published = produced
      BY <2>0, <3>1 DEF AllIsRead
    <3>3. shown[v] \in Seq(Nat) /\ shown[v] \o <<>> = shown[v] /\ Len(<<>>) = 0 /\ Len(shown[v]) \in Nat
      BY <2>0, ConcatEmptySeq, LenProperties DEF TerminalTypes
    <3>4. shown[v] # <<>> /\ shown[v][Len(shown[v]) + 0] = produced
      BY <3>1, <3>2, <3>3 DEF Upto
    <3> QED
      BY <3>3, <3>4
  <2>3. Terminal!AcksAreHonest
    <3> SUFFICES ASSUME NEW v \in Viewers PROVE acked[v] <= written[v]
      BY DEF Terminal!AcksAreHonest
    <3>1. acks[v] \in Seq(BOOLEAN) /\ Len(acks[v]) \in Nat /\ acked[v] \in Nat /\ written[v] \in Nat
      BY <2>0, LenProperties DEF TerminalTypes
    <3> DEFINE n == Len(acks[v])
               d == IF \E i \in 1..n : ~acks[v][i] THEN 1 ELSE 0
               k == IF Acking(v) THEN 1 ELSE 0
    <3>2. n \in Nat /\ d \in Nat /\ k \in Nat /\ acked[v] + n + k <= written[v] + d
      BY <2>0, <3>1 DEF Acknowledged
    <3>3. d <= n
      BY <3>1
    <3> HIDE DEF n, d, k
    <3> QED
      BY <3>1, <3>2, <3>3
  <2> QED
    BY <2>1, <2>2, <2>3
<1> QED
  BY <1>1, TerminalCorrect, PTL DEF Terminal!TerminalIsTrue
=============================================================================
