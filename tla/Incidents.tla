----------------------------- MODULE Incidents -----------------------------
(* Incidents, filed by smoke alarms and firefighters, and the firefighters  *)
(* that fight them one after the other.                                     *)
EXTENDS Naturals, FiniteSets

CONSTANTS MaxIncidents, MaxFirefighters,
          MaxFireEvents        \* failed starts, restarts of the office

VARIABLES
  incident,     \* the rows of the incidents
  firefighter,  \* living; over (row done or dead, process alive); exited
                \* (nextOpenIncident to come); gone
  fights,       \* agents.incident_id of a firefighter
  replacing,    \* who is about to replace a firefighter: a restart, a retry
  picks,        \* goroutines on their way to a new firefighter
  stranded,     \* why nobody may be coming for an open incident
  fireEvents

IncidentIDs == 1 .. MaxIncidents
Firefighters == 1 .. MaxFirefighters

vars == <<incident, firefighter, fights, replacing, picks, stranded, fireEvents>>

TypeOK ==
  /\ stranded \in BOOLEAN
  /\ incident \in [IncidentIDs -> {"none", "open", "resolved"}]
  /\ firefighter \in [Firefighters -> {"none", "living", "over", "exited", "gone"}]
  /\ fights \in [Firefighters -> {0} \cup IncidentIDs]
  /\ replacing \in [Firefighters -> {"no", "restart", "retry"}]
  /\ \A p \in picks : p.at \in {"count", "read", "spawn"} /\ p.id \in IncidentIDs
  /\ fireEvents \in 0 .. MaxFireEvents

Init ==
  /\ incident = [i \in IncidentIDs |-> "none"]
  /\ firefighter = [f \in Firefighters |-> "none"]
  /\ fights = [f \in Firefighters |-> 0]
  /\ replacing = [f \in Firefighters |-> "no"]
  /\ picks = {} /\ stranded = FALSE /\ fireEvents = 0

FireEvent == fireEvents < MaxFireEvents /\ fireEvents' = fireEvents + 1

Fighting == {f \in Firefighters : firefighter[f] = "living"}
Open == {i \in IncidentIDs : incident[i] = "open"}
NextFirefighter(f) ==
  firefighter[f] = "none" /\ \A g \in Firefighters : firefighter[g] = "none" => f <= g

-----------------------------------------------------------------------------
(* Incidents.  A pick is a goroutine in onIncident (from = 0) or in the     *)
(* nextOpenIncident of a firefighter: it counts the firefighters, reads     *)
(* whether its incident is open, and starts a firefighter for it.           *)

Pick(who, i) == [from |-> who, id |-> i, at |-> "count"]

File(i) ==
  /\ incident[i] = "none" /\ \A j \in IncidentIDs : incident[j] = "none" => i <= j
  /\ incident' = [incident EXCEPT ![i] = "open"]
  /\ picks' = picks \cup {Pick(0, i)}

(* incident.create by a smoke alarm, each of which may file one.            *)
AlarmFiles(i) ==
  /\ Open = {} /\ File(i)
  /\ UNCHANGED <<firefighter, fights, replacing, stranded, fireEvents>>

(* incident.create by a firefighter.                                        *)
FirefighterFiles(i) ==
  /\ Fighting # {} /\ File(i)
  /\ UNCHANGED <<firefighter, fights, replacing, stranded, fireEvents>>

(* incident.resolve by the user, the CEO or a firefighter.                  *)
Resolve(i) ==
  /\ i \in Open
  /\ incident' = [incident EXCEPT ![i] = "resolved"]
  /\ UNCHANGED <<firefighter, fights, replacing, picks, stranded, fireEvents>>

Count(p) ==
  /\ p.at = "count"
  /\ picks' = (picks \ {p}) \cup
              IF Fighting = {} THEN {[p EXCEPT !.at = "read"]} ELSE {}
  /\ UNCHANGED <<incident, firefighter, fights, replacing, stranded, fireEvents>>

(* spawnFirefighter returns when its incident was resolved meanwhile; it    *)
(* does not look for another one.                                           *)
Reread(p) ==
  /\ p.at = "read"
  /\ \/ /\ incident[p.id] = "open"
        /\ picks' = (picks \ {p}) \cup {[p EXCEPT !.at = "spawn"]}
        /\ UNCHANGED stranded
     \/ /\ incident[p.id] # "open"
        /\ picks' = picks \ {p} /\ stranded' = TRUE
  /\ UNCHANGED <<incident, firefighter, fights, replacing, fireEvents>>

StartFirefighter(f, i) ==
  /\ NextFirefighter(f)
  /\ firefighter' = [firefighter EXCEPT ![f] = "living"]
  /\ fights' = [fights EXCEPT ![f] = i]
  /\ stranded' = FALSE

SpawnFirefighter(p) ==
  /\ p.at = "spawn" /\ picks' = picks \ {p}
  /\ \E f \in Firefighters : StartFirefighter(f, p.id)
  /\ UNCHANGED <<incident, replacing, fireEvents>>

(* No profile is left, or the process does not start.                       *)
SpawnFails(p) ==
  /\ p.at = "spawn" /\ picks' = picks \ {p} /\ FireEvent
  /\ stranded' = TRUE
  /\ UNCHANGED <<incident, firefighter, fights, replacing>>

(* The row ends first (omo done, a kill, a restart), or the process does.   *)
FirefighterEnds(f, why) ==
  /\ f \in Fighting
  /\ \E s \in {"over", "exited"} : firefighter' = [firefighter EXCEPT ![f] = s]
  /\ replacing' = [replacing EXCEPT ![f] = why]
  /\ why # "no" => firefighter'[f] = "over" /\ \E g \in Firefighters : NextFirefighter(g)
  /\ UNCHANGED <<incident, fights, picks, stranded, fireEvents>>

ProcessEnds(f) ==
  /\ firefighter[f] = "over" /\ firefighter' = [firefighter EXCEPT ![f] = "exited"]
  /\ UNCHANGED <<incident, fights, replacing, picks, stranded, fireEvents>>

(* StopAgent waits for the old session to be gone, watchHandshake does not. *)
Replace(f) ==
  /\ \/ replacing[f] = "restart" /\ firefighter[f] \in {"exited", "gone"}
     \/ replacing[f] = "retry"
  /\ replacing' = [replacing EXCEPT ![f] = "no"]
  /\ \/ \E g \in Firefighters : g # f /\ StartFirefighter(g, fights[f])
     \/ UNCHANGED <<firefighter, fights, stranded>>
  /\ UNCHANGED <<incident, picks, fireEvents>>

(* Mutation: only an unexpected exit hands over.                            *)
HandsOverLate(f) ==
  /\ firefighter[f] = "exited" /\ firefighter' = [firefighter EXCEPT ![f] = "gone"]
  /\ UNCHANGED <<incident, fights, replacing, picks, stranded, fireEvents>>

(* The end of watchExit: nextOpenIncident reads the oldest open incident.   *)
HandsOver(f) ==
  /\ firefighter[f] = "exited" /\ firefighter' = [firefighter EXCEPT ![f] = "gone"]
  /\ picks' = picks \cup {Pick(f, i) : i \in {j \in Open : \A k \in Open : j <= k}}
  /\ UNCHANGED <<incident, fights, replacing, stranded, fireEvents>>

-----------------------------------------------------------------------------
(* The office ends and is started again: the agents of the last run are     *)
(* dead (MarkAllAgentsDead) and their incidents are closed.                 *)
OfficeRestarts ==
  /\ FireEvent
  /\ incident' = [i \in IncidentIDs |->
                    IF incident[i] = "open" THEN "resolved" ELSE incident[i]]
  /\ firefighter' = [f \in Firefighters |->
                       IF firefighter[f] = "none" THEN "none" ELSE "gone"]
  /\ picks' = {} /\ stranded' = FALSE
  /\ replacing' = [f \in Firefighters |-> "no"]
  /\ UNCHANGED fights

IncidentStep == \E i \in IncidentIDs : AlarmFiles(i) \/ FirefighterFiles(i) \/ Resolve(i)
PickStep == \E p \in picks : Count(p) \/ Reread(p) \/ SpawnFirefighter(p) \/ SpawnFails(p)
FirefighterStep ==
  \E f \in Firefighters :
    \/ \E why \in {"no", "restart", "retry"} : FirefighterEnds(f, why)
    \/ ProcessEnds(f) \/ Replace(f) \/ HandsOver(f)

Next == IncidentStep \/ PickStep \/ FirefighterStep \/ OfficeRestarts
Spec == Init /\ [][Next]_vars

-----------------------------------------------------------------------------
(* Somebody is on the way to every open incident: a firefighter that hands  *)
(* over when it ends, or a goroutine that is about to start one.  The only  *)
(* exceptions are the two that the code reports or accepts: the firefighter *)
(* could not be started, or its incident was resolved while one was picked. *)
IncidentAttended ==
  Open # {} => \/ \E f \in Firefighters : firefighter[f] \in {"living", "over", "exited"}
               \/ picks # {}
               \/ stranded

=============================================================================
