------------------------- MODULE ControlPlaneProofs -------------------------
(***************************************************************************)
(* Proofs about ControlPlane, for all values of the constants: its types,  *)
(* the count of the leases, that agents have leases and give back their    *)
(* own, and that no wake-up is lost.                                       *)
(***************************************************************************)
EXTENDS ControlPlane, FiniteSetTheorems, TLAPS

\* The stages at which the server holds a lease for the attempt.
Held  == {"granted", "leased", "live", "ended", "returning", "strayRelease"}
Stray == {"strayAcquire", "strayRelease"}

\* An attempt in use has a job and a running office, or at least a registered
\* one, if only its request is left; its lease is there exactly at the stages
\* of Held; and only idle attempts, whose answer was lost, have one besides.
AttemptInv ==
  \A a \in Attempts :
    /\ (pc[a] = "idle") <=> (job[a] = NoJob)
    /\ pc[a] \in Held => owner[a] = Home(a)
    /\ pc[a] \notin Held \cup {"idle"} => owner[a] = NoOffice
    /\ pc[a] \notin Stray \cup {"idle"} => Runs(Home(a))
    /\ pc[a] \in Stray => Registered(Home(a))
    /\ owner[a] # NoOffice => Registered(owner[a])

LeaseInv == TypeOK /\ AttemptInv /\ LeasesCounted

AttemptTypes ==
  /\ pc \in [Attempts -> Stages]
  /\ job \in [Attempts -> Jobs \cup {NoJob}]
  /\ kind \in [Attempts -> {"dispatch", "retry"}]
  /\ expected \in [Attempts -> BOOLEAN]
  /\ answer \in [Attempts -> Nat]

\* A goroutine that returns keeps the types.
LEMMA ReturnKeepsTypes ==
  ASSUME TypeOK, NEW a \in Attempts, Return(a)
  PROVE  AttemptTypes'
BY DEF TypeOK, AttemptTypes, Stages, Return, Forget, Goto

\* So does one that requeues its job.
LEMMA RequeueKeepsTypes ==
  ASSUME TypeOK, AttemptInv, NEW a \in Attempts, pc[a] # "idle", Requeue(a)
  PROVE  jstate' \in [Jobs -> {"queued", "active", "over"}]
BY DEF TypeOK, AttemptInv, Requeue

\* Every step keeps the types, if the counter stays a number.
LEMMA TypesKept ==
  ASSUME TypeOK, AttemptInv, [Next]_vars, used' \in Nat
  PROVE  TypeOK'
<1> USE ConstantsAssumption DEF TypeOK, Stages, companyVars, clientVars,
   watchVars, attemptVars, Goto, Fault, Home
<1>1. CASE UNCHANGED vars
  BY <1>1 DEF vars
<1>2. ASSUME NEW a \in Attempts, AttemptStep(a)
      PROVE  TypeOK'
  <2>1. CASE Grant(a)
    <3>1. CASE pc[a] = "asked"
      BY <2>1, <3>1, ReturnKeepsTypes DEF Grant, Acquiring, AttemptInv
    <3>2. CASE pc[a] # "asked"
      BY <2>1, <3>2, ReturnKeepsTypes DEF Grant, Acquiring, AttemptInv,
         AttemptTypes
    <3>. QED
      BY <2>1, <3>1, <3>2 DEF Grant, Acquiring, AttemptInv
  <2>2. CASE Refuse(a)
    <3>1. CASE pc[a] = "asked"
      BY <2>2, <3>1, ReturnKeepsTypes DEF Refuse, Acquiring
    <3>2. CASE pc[a] # "asked"
      BY <2>2, <3>2, ReturnKeepsTypes DEF Refuse, Acquiring, AttemptTypes
    <3>. QED
      BY <2>2, <3>1, <3>2 DEF Refuse, Acquiring
  <2>3. CASE Release(a)
    <3>1. CASE pc[a] = "returning"
      BY <2>3, <3>1, ReturnKeepsTypes DEF Release
    <3>2. CASE pc[a] # "returning"
      BY <2>3, <3>2, ReturnKeepsTypes DEF Release, AttemptTypes
    <3>. QED
      BY <2>3, <3>1, <3>2 DEF Release
  <2>4. CASE TakeLease(a)
    BY <2>4 DEF TakeLease
  <2>5. CASE NoteDenial(a)
    BY <2>5 DEF NoteDenial, Later
  <2>6. CASE RequeueDenied(a)
    BY <2>6 DEF RequeueDenied
  <2>7. CASE RecordDenial(a)
    <3>1. CASE Defers(a)
      BY <2>7, <3>1, ReturnKeepsTypes DEF RecordDenial, AttemptInv
    <3>2. CASE ~Defers(a)
      BY <2>7, <3>2, ReturnKeepsTypes DEF RecordDenial, AttemptTypes
    <3>. QED
      BY <2>7, <3>1, <3>2 DEF RecordDenial
  <2>8. CASE CheckCapacity(a)
    BY <2>8, ReturnKeepsTypes, RequeueKeepsTypes
    DEF CheckCapacity, CapacityAvailable, CapacityChangedSince, AttemptTypes
  <2>9. CASE SessionStart(a)
    BY <2>9 DEF SessionStart
  <2>10. CASE SessionStartFails(a)
    BY <2>10 DEF SessionStartFails
  <2>11. CASE SendRelease(a)
    BY <2>11 DEF SendRelease
  <2>12. CASE CannotRelease(a)
    BY <2>12, ReturnKeepsTypes, RequeueKeepsTypes
    DEF CannotRelease, ControlFailed, AttemptTypes
  <2>13. CASE NoteRelease(a)
    BY <2>13 DEF NoteRelease, Later
  <2>14. CASE FinishRelease(a)
    BY <2>14, ReturnKeepsTypes, RequeueKeepsTypes
    DEF FinishRelease, CapacityAvailable, AttemptTypes
  <2>15. CASE CallFails(a)
    <3>1. jstate' \in [Jobs -> {"queued", "active", "over"}]
      BY <2>15, RequeueKeepsTypes DEF CallFails
    <3>. QED
      BY <2>15, <3>1, ReturnKeepsTypes
      DEF CallFails, ControlFailed, AttemptTypes
  <2>16. CASE HandshakeTimeout(a)
    <3>1. PICK b \in Attempts :
            /\ Acquire(job[a], "retry", b)
            /\ pc' = [pc EXCEPT ![a] = "ended", ![b] = "asked"]
            /\ expected' = [expected EXCEPT ![a] = TRUE, ![b] = FALSE]
      BY <2>16 DEF HandshakeTimeout
    <3>2. job[a] \in Jobs
      BY <2>16 DEF HandshakeTimeout, AttemptInv
    <3>3. /\ pc' \in [Attempts -> Stages]
          /\ job' \in [Attempts -> Jobs \cup {NoJob}]
      BY <3>1, <3>2 DEF Acquire
    <3>4. expected' \in [Attempts -> BOOLEAN]
      BY <3>1
    <3>5. spawns' \in Nat /\ kind' \in [Attempts -> {"dispatch", "retry"}]
      BY <3>1 DEF Acquire
    <3>6. answer' \in [Attempts -> Nat]
      BY <3>1 DEF Acquire
    <3>. QED
      BY <2>16, <3>3, <3>4, <3>5, <3>6 DEF HandshakeTimeout
  <2>17. CASE AgentDone(a)
    BY <2>17 DEF AgentDone
  <2>18. CASE AgentExits(a)
    BY <2>18 DEF AgentExits
  <2>19. CASE TimesOut(a)
    <3>1. jstate' \in [Jobs -> {"queued", "active", "over"}]
      BY <2>19, RequeueKeepsTypes DEF TimesOut
    <3>2. AttemptTypes'
      BY <2>19, ReturnKeepsTypes DEF TimesOut, GiveUp, AttemptTypes
    <3>3. stopping' \in [Offices -> BOOLEAN]
      BY <2>19 DEF TimesOut, ControlFailed
    <3>4. PICK f \in {failure[Home(a)], TRUE} :
            failure' = [failure EXCEPT ![Home(a)] = f]
      BY <2>19 DEF TimesOut
    <3>5. Home(a) \in Offices
      BY <2>19 DEF TimesOut, AttemptInv
    <3>6. failure' \in [Offices -> BOOLEAN]
      BY <3>4, <3>5
    <3>. QED
      BY <2>19, <3>1, <3>2, <3>3, <3>6 DEF TimesOut, AttemptTypes
  <2>. QED
    BY <1>2, <2>1, <2>2, <2>3, <2>4, <2>5, <2>6, <2>7, <2>8, <2>9, <2>10,
       <2>11, <2>12, <2>13, <2>14, <2>15, <2>16, <2>17, <2>18, <2>19 DEF
       AttemptStep, ServerStep, SpawnStep, ReleaseStep
<1>3. ASSUME NEW c \in Offices, OfficeStep(c)
      PROVE  TypeOK'
  <2>1. CASE Register(c)
    BY <2>1 DEF Register
  <2>2. CASE Unregister(c)
    BY <2>2 DEF Unregister, Forget, Leases, Of
  <2>3. CASE Ping(c)
    BY <2>3 DEF Ping, Runs
  <2>4. CASE NotePing(c)
    BY <2>4 DEF NotePing, Later, Runs
  <2>5. CASE NotifyCapacityChange(c)
    BY <2>5 DEF NotifyCapacityChange, CapacityAvailable, Runs
  <2>6. CASE PingFails(c)
    BY <2>6 DEF PingFails, ControlFailed, Runs
  <2>7. CASE UserStops(c)
    BY <2>7 DEF UserStops, ControlFailed, Runs
  <2>8. CASE Exit(c)
    BY <2>8 DEF Exit, ProcessEnds, AfterEnd, CapacityAvailable, Forget, Of,
       Runs
  <2>9. CASE Crash(c)
    BY <2>9 DEF Crash, ProcessEnds, AfterEnd, CapacityAvailable, Forget, Of,
       Runs
  <2>. QED
    BY <1>3, <2>1, <2>2, <2>3, <2>4, <2>5, <2>6, <2>7, <2>8, <2>9 DEF
       OfficeStep, WatchStep
<1>4. ASSUME NEW j \in Jobs, Dispatch(j) \/ BackoffPasses(j)
      PROVE  TypeOK'
  <2>1. CASE Dispatch(j)
    BY <2>1 DEF Dispatch, Acquire, Assigning, Runs, Free, Of
  <2>2. CASE BackoffPasses(j)
    BY <2>2 DEF BackoffPasses
  <2>. QED
    BY <1>4, <2>1, <2>2
<1>5. CASE ControlLost
  <2>1. serverUp' \in BOOLEAN
    BY <1>5 DEF ControlLost
  <2>. QED
    BY <1>5, <2>1 DEF ControlLost
<1>. QED
  BY <1>1, <1>2, <1>3, <1>4, <1>5 DEF Next

\* Every step keeps what is said of the attempts.
LEMMA AttemptsKept ==
  ASSUME TypeOK, AttemptInv, [Next]_vars
  PROVE  AttemptInv'
<1> USE ConstantsAssumption DEF TypeOK, Stages, companyVars, clientVars,
   watchVars, attemptVars, Goto, Return, Forget, Fault, Home, AttemptInv, Held,
   Stray, Runs, Registered
<1>1. CASE UNCHANGED vars
  BY <1>1 DEF vars
<1>2. ASSUME NEW a \in Attempts, AttemptStep(a)
      PROVE  AttemptInv'
  <2>1. CASE Grant(a)
    BY <2>1 DEF Grant, Acquiring, Full
  <2>2. CASE Refuse(a)
    BY <2>2 DEF Refuse, Acquiring, Full
  <2>3. CASE Release(a)
    BY <2>3 DEF Release
  <2>4. CASE TakeLease(a)
    BY <2>4 DEF TakeLease
  <2>5. CASE NoteDenial(a)
    BY <2>5 DEF NoteDenial, Later
  <2>6. CASE RequeueDenied(a)
    BY <2>6 DEF RequeueDenied
  <2>7. CASE RecordDenial(a)
    BY <2>7 DEF RecordDenial, Defers
  <2>8. CASE CheckCapacity(a)
    BY <2>8 DEF CheckCapacity, CapacityAvailable, CapacityChangedSince
  <2>9. CASE SessionStart(a)
    BY <2>9 DEF SessionStart
  <2>10. CASE SessionStartFails(a)
    BY <2>10 DEF SessionStartFails
  <2>11. CASE SendRelease(a)
    BY <2>11 DEF SendRelease
  <2>12. CASE CannotRelease(a)
    BY <2>12 DEF CannotRelease, ControlFailed, Requeue
  <2>13. CASE NoteRelease(a)
    BY <2>13 DEF NoteRelease, Later
  <2>14. CASE FinishRelease(a)
    BY <2>14 DEF FinishRelease, CapacityAvailable, Requeue
  <2>15. CASE CallFails(a)
    BY <2>15 DEF CallFails, ControlFailed, Requeue
  <2>16. CASE HandshakeTimeout(a)
    <3>1. PICK b \in Attempts :
            /\ Acquire(job[a], "retry", b)
            /\ pc' = [pc EXCEPT ![a] = "ended", ![b] = "asked"]
      BY <2>16 DEF HandshakeTimeout
    <3>. QED
      BY <2>16, <3>1 DEF HandshakeTimeout, Acquire, Free
  <2>17. CASE AgentDone(a)
    BY <2>17 DEF AgentDone
  <2>18. CASE AgentExits(a)
    BY <2>18 DEF AgentExits
  <2>19. CASE TimesOut(a)
    BY <2>19 DEF TimesOut, ControlFailed, GiveUp, Requeue
  <2>. QED
    BY <1>2, <2>1, <2>2, <2>3, <2>4, <2>5, <2>6, <2>7, <2>8, <2>9, <2>10,
       <2>11, <2>12, <2>13, <2>14, <2>15, <2>16, <2>17, <2>18, <2>19 DEF
       AttemptStep, ServerStep, SpawnStep, ReleaseStep
<1>3. ASSUME NEW c \in Offices, OfficeStep(c)
      PROVE  AttemptInv'
  <2>1. CASE Register(c)
    BY <2>1 DEF Register
  <2>2. CASE Unregister(c)
    BY <2>2 DEF Unregister, Leases, Of
  <2>3. CASE Ping(c)
    BY <2>3 DEF Ping
  <2>4. CASE NotePing(c)
    BY <2>4 DEF NotePing, Later
  <2>5. CASE NotifyCapacityChange(c)
    BY <2>5 DEF NotifyCapacityChange, CapacityAvailable
  <2>6. CASE PingFails(c)
    BY <2>6 DEF PingFails, ControlFailed
  <2>7. CASE UserStops(c)
    BY <2>7 DEF UserStops, ControlFailed
  <2>8. CASE Exit(c)
    BY <2>8 DEF Exit, ProcessEnds, AfterEnd, CapacityAvailable, Of
  <2>9. CASE Crash(c)
    BY <2>9 DEF Crash, ProcessEnds, AfterEnd, CapacityAvailable, Of
  <2>. QED
    BY <1>3, <2>1, <2>2, <2>3, <2>4, <2>5, <2>6, <2>7, <2>8, <2>9 DEF
       OfficeStep, WatchStep
<1>4. ASSUME NEW j \in Jobs, Dispatch(j) \/ BackoffPasses(j)
      PROVE  AttemptInv'
  <2>1. CASE Dispatch(j)
    BY <2>1 DEF Dispatch, Acquire, Assigning, Free, Of
  <2>2. CASE BackoffPasses(j)
    BY <2>2 DEF BackoffPasses
  <2>. QED
    BY <1>4, <2>1, <2>2
<1>5. CASE ControlLost
  BY <1>5 DEF ControlLost
<1>. QED
  BY <1>1, <1>2, <1>3, <1>4, <1>5 DEF Next

Leased == {a \in Attempts : owner[a] # NoOffice}

\* There are finitely many leases, whoever has them.
LEMMA LeasedFinite ==
  ASSUME NEW f
  PROVE  IsFiniteSet({a \in Attempts : f[a] # NoOffice})
<1>1. IsFiniteSet(Attempts)
  BY ConstantsAssumption, FS_Interval DEF Attempts
<1>2. {a \in Attempts : f[a] # NoOffice} \in SUBSET Attempts
  OBVIOUS
<1>. QED
  BY <1>1, <1>2, FS_Subset

\* Only three steps change the leases, the counter and the generation.
LEMMA CompanySteps ==
  ASSUME [Next]_vars
  PROVE  \/ UNCHANGED companyVars
         \/ \E a \in Attempts : Grant(a) \/ Release(a)
         \/ \E c \in Offices : Unregister(c)
<1> USE DEF vars, companyVars
<1>1. CASE UNCHANGED vars
  BY <1>1
<1>2. ASSUME NEW a \in Attempts, AttemptStep(a)
      PROVE  UNCHANGED companyVars \/ Grant(a) \/ Release(a)
  BY <1>2 DEF AttemptStep, ServerStep, SpawnStep, ReleaseStep, Refuse,
     TakeLease, NoteDenial, RequeueDenied, RecordDenial, CheckCapacity,
     SessionStart, SessionStartFails, SendRelease, CannotRelease, NoteRelease,
     FinishRelease, CallFails, HandshakeTimeout, AgentDone, AgentExits,
     TimesOut
<1>3. ASSUME NEW c \in Offices, OfficeStep(c)
      PROVE  UNCHANGED companyVars \/ Unregister(c)
  BY <1>3 DEF OfficeStep, WatchStep, ProcessEnds, Register, Ping, NotePing,
     NotifyCapacityChange, PingFails, UserStops, Exit, Crash
<1>. QED
  BY <1>1, <1>2, <1>3 DEF Next, Dispatch, BackoffPasses, ControlLost

\* Every step keeps the count.
LEMMA CountKept ==
  ASSUME TypeOK, AttemptInv, LeasesCounted, [Next]_vars
  PROVE  used' \in Nat /\ LeasesCounted'
<1>0. IsFiniteSet(Leased) /\ IsFiniteSet(Leased')
  BY LeasedFinite DEF Leased
<1>a. used = Cardinality(Leased) /\ used <= Limit /\ Limit \in Nat
  BY ConstantsAssumption DEF LeasesCounted, Leased
<1>b. SUFFICES /\ used' \in Nat /\ used' <= Limit
               /\ used' = Cardinality(Leased')
  BY DEF LeasesCounted, Leased
<1>1. CASE UNCHANGED companyVars
  BY <1>1, <1>a DEF companyVars, Leased, TypeOK
<1>2. ASSUME NEW a \in Attempts, Grant(a)
      PROVE  used' \in Nat /\ used' <= Limit /\ used' = Cardinality(Leased')
  <2>1. /\ Home(a) \in Offices
        /\ owner[a] = NoOffice
    BY <1>2, ConstantsAssumption
       DEF Grant, Acquiring, AttemptInv, Held, Home, TypeOK
  <2>2. Leased' = Leased \cup {a} /\ a \notin Leased
    BY <1>2, <2>1, ConstantsAssumption DEF Grant, Leased, TypeOK
  <2>3. Cardinality(Leased') = Cardinality(Leased) + 1
    BY <1>0, <2>2, FS_AddElement
  <2>. QED
    BY <1>2, <1>a, <2>3 DEF Grant, Full, TypeOK
<1>3. ASSUME NEW a \in Attempts, Release(a)
      PROVE  used' \in Nat /\ used' <= Limit /\ used' = Cardinality(Leased')
  <2>1. owner[a] # NoOffice
    BY <1>3, ConstantsAssumption DEF Release, AttemptInv, Home, TypeOK
  <2>2. Leased' = Leased \ {a} /\ a \in Leased
    BY <1>3, <2>1 DEF Release, Leased, TypeOK
  <2>3. Cardinality(Leased') = Cardinality(Leased) - 1
    BY <1>0, <2>2, FS_RemoveElement
  <2>4. Cardinality(Leased') \in Nat
    BY <1>0, FS_CardinalityType
  <2>. QED
    BY <1>3, <1>a, <2>3, <2>4 DEF Release, TypeOK
<1>4. ASSUME NEW c \in Offices, Unregister(c)
      PROVE  used' \in Nat /\ used' <= Limit /\ used' = Cardinality(Leased')
  <2>1. Leased' = Leased \ Leases(c) /\ Leased \cap Leases(c) = Leases(c)
    BY <1>4, ConstantsAssumption DEF Unregister, Leases, Leased, TypeOK
  <2>2. Cardinality(Leased') = Cardinality(Leased) - Cardinality(Leases(c))
    <3>1. Cardinality(Leased \ Leases(c))
            = Cardinality(Leased) - Cardinality(Leased \cap Leases(c))
      BY <1>0, FS_Difference, Zenon
    <3>. QED
      BY <2>1, <3>1, Zenon
  <2>3. Leases(c) \in SUBSET Leased
    BY <2>1
  <2>4. IsFiniteSet(Leases(c))
    BY <1>0, <2>3, FS_Subset
  <2>5. Cardinality(Leases(c)) \in Nat
    BY <2>4, FS_CardinalityType
  <2>6. Cardinality(Leased') \in Nat
    BY <1>0, FS_CardinalityType
  <2>. QED
    BY <1>4, <1>a, <2>2, <2>5, <2>6 DEF Unregister, TypeOK
<1>. QED
  BY <1>1, <1>2, <1>3, <1>4, CompanySteps

\* The first invariant holds for ever.
LEMMA LeaseInvariant == Spec => []LeaseInv
<1>1. Init => LeaseInv
  <2> SUFFICES ASSUME Init PROVE LeaseInv
    OBVIOUS
  <2>1. TypeOK
    BY ConstantsAssumption DEF Init, TypeOK, Stages
  <2>2. AttemptInv
    BY DEF Init, AttemptInv, Held, Stray
  <2>3. Leased = {}
    BY DEF Init, Leased
  <2>4. used = Cardinality(Leased) /\ used <= Limit
    BY <2>3, FS_EmptySet, ConstantsAssumption DEF Init
  <2>. QED
    BY <2>1, <2>2, <2>4 DEF LeaseInv, LeasesCounted, Leased
<1>2. LeaseInv /\ [Next]_vars => LeaseInv'
  BY TypesKept, AttemptsKept, CountKept DEF LeaseInv
<1>. QED
  BY <1>1, <1>2, PTL DEF Spec

\* All variables keep their types.
THEOREM TypeCorrect == Spec => []TypeOK
<1>. QED
  BY LeaseInvariant, PTL DEF LeaseInv

\* server.go: the counter is the number of leases, and within the limit.
THEOREM LeasesCountedCorrect == Spec => []LeasesCounted
<1>. QED
  BY LeaseInvariant, PTL DEF LeaseInv

\* spawn.go: no agent that takes capacity runs without a lease.
THEOREM LeasesHeld == Spec => []AgentsHoldLeases
<1>1. LeaseInv => AgentsHoldLeases
  BY DEF LeaseInv, AttemptInv, AgentsHoldLeases, Held
<1>. QED
  BY <1>1, LeaseInvariant, PTL

\* server.go: no office is told that a lease is unknown.
THEOREM ReleasesKnown == Spec => []ReleasesAreKnown
<1>1. LeaseInv => ReleasesAreKnown
  BY DEF LeaseInv, AttemptInv, ReleasesAreKnown, Held
<1>. QED
  BY <1>1, LeaseInvariant, PTL
-----------------------------------------------------------------------------

\* Nobody has seen a generation that the server has not reached.
GenInv ==
  /\ \A c \in Offices : clientGen[c] <= serverGen /\ pinged[c] <= serverGen
  /\ \A a \in Attempts : answer[a] <= serverGen

\* A denial at the present generation is still true, as nothing was released
\* since; and a client knows the generation of a denial it acts on.
DenialInv ==
  \A a \in Attempts :
    /\ (pc[a] \in {"refused", "denied", "recorded"} /\ answer[a] = serverGen)
         => Full
    /\ pc[a] \in {"denied", "recorded"} => answer[a] <= clientGen[Home(a)]

\* Watch ends as the office stops, and deferrals are forgotten with it.
OfficeInv ==
  /\ \A c \in Offices :
       (phase[c] \in {"none", "running"} /\ watch[c] = "ended") => stopping[c]
  /\ \A j \in Jobs : deferral[j] # "none" => Runs(HomeOf[j])

WakeInv == GenInv /\ DenialInv /\ OfficeInv /\ NoLostWakeup

\* An attempt that is about to wake the deferred jobs of its office.
Wakes(b, d) ==
  pc[b] = "noted" \/ (pc[b] = "recorded" /\ clientGen[d] > answer[b])

\* It still is, after another one returned.
LEMMA OthersWake ==
  ASSUME TypeOK, NEW d \in Offices, clientGen'[d] = clientGen[d],
         NEW a \in Attempts, Return(a),
         NEW b \in Of(d), Wakes(b, d), b # a
  PROVE  b \in Of(d)' /\ Wakes(b, d)'
BY DEF TypeOK, Of, Home, Wakes, Return, Forget, Goto

\* Generations only grow, and are only copied.
LEMMA GenKept ==
  ASSUME LeaseInv, WakeInv, [Next]_vars, TypeOK'
  PROVE  GenInv'
<1> USE ConstantsAssumption DEF TypeOK, Stages, companyVars, clientVars,
   watchVars, attemptVars, Goto, Return, Forget, Fault, Home, WakeInv, GenInv,
   LeaseInv, Later
<1>1. CASE UNCHANGED vars
  BY <1>1 DEF vars
<1>2. ASSUME NEW a \in Attempts, AttemptStep(a)
      PROVE  GenInv'
  <2>1. CASE Grant(a)
    BY <2>1 DEF Grant, Acquiring, Full, Registered
  <2>2. CASE Refuse(a)
    BY <2>2 DEF Refuse, Acquiring, Full, Registered
  <2>3. CASE Release(a)
    BY <2>3 DEF Release, Registered
  <2>4. CASE TakeLease(a)
    BY <2>4 DEF TakeLease
  <2>5. CASE NoteDenial(a)
    BY <2>5 DEF NoteDenial
  <2>6. CASE RequeueDenied(a)
    BY <2>6 DEF RequeueDenied
  <2>7. CASE RecordDenial(a)
    BY <2>7 DEF RecordDenial, Defers
  <2>8. CASE CheckCapacity(a)
    BY <2>8 DEF CheckCapacity, CapacityAvailable, CapacityChangedSince
  <2>9. CASE SessionStart(a)
    BY <2>9 DEF SessionStart
  <2>10. CASE SessionStartFails(a)
    BY <2>10 DEF SessionStartFails
  <2>11. CASE SendRelease(a)
    BY <2>11 DEF SendRelease
  <2>12. CASE CannotRelease(a)
    BY <2>12 DEF CannotRelease, ControlFailed, Requeue
  <2>13. CASE NoteRelease(a)
    BY <2>13 DEF NoteRelease
  <2>14. CASE FinishRelease(a)
    BY <2>14 DEF FinishRelease, CapacityAvailable, Requeue
  <2>15. CASE CallFails(a)
    BY <2>15 DEF CallFails, ControlFailed, Requeue, Runs
  <2>16. CASE HandshakeTimeout(a)
    BY <2>16 DEF HandshakeTimeout, Acquire, Free
  <2>17. CASE AgentDone(a)
    BY <2>17 DEF AgentDone
  <2>18. CASE AgentExits(a)
    BY <2>18 DEF AgentExits
  <2>19. CASE TimesOut(a)
    BY <2>19 DEF TimesOut, ControlFailed, GiveUp, Requeue, Runs
  <2>. QED
    BY <1>2, <2>1, <2>2, <2>3, <2>4, <2>5, <2>6, <2>7, <2>8, <2>9, <2>10,
       <2>11, <2>12, <2>13, <2>14, <2>15, <2>16, <2>17, <2>18, <2>19 DEF
       AttemptStep, ServerStep, SpawnStep, ReleaseStep
<1>3. ASSUME NEW c \in Offices, OfficeStep(c)
      PROVE  GenInv'
  <2>1. CASE Register(c)
    BY <2>1 DEF Register
  <2>2. CASE Unregister(c)
    BY <2>2 DEF Unregister, Leases, Of
  <2>3. CASE Ping(c)
    BY <2>3 DEF Ping, Runs
  <2>4. CASE NotePing(c)
    BY <2>4 DEF NotePing, Runs
  <2>5. CASE NotifyCapacityChange(c)
    BY <2>5 DEF NotifyCapacityChange, CapacityAvailable, Runs
  <2>6. CASE PingFails(c)
    BY <2>6 DEF PingFails, ControlFailed, Runs
  <2>7. CASE UserStops(c)
    BY <2>7 DEF UserStops, ControlFailed, Runs
  <2>8. CASE Exit(c)
    BY <2>8 DEF Exit, ProcessEnds, AfterEnd, CapacityAvailable, Of, Runs
  <2>9. CASE Crash(c)
    BY <2>9 DEF Crash, ProcessEnds, AfterEnd, CapacityAvailable, Of, Runs
  <2>. QED
    BY <1>3, <2>1, <2>2, <2>3, <2>4, <2>5, <2>6, <2>7, <2>8, <2>9 DEF
       OfficeStep, WatchStep
<1>4. ASSUME NEW j \in Jobs, Dispatch(j) \/ BackoffPasses(j)
      PROVE  GenInv'
  <2>1. CASE Dispatch(j)
    BY <2>1 DEF Dispatch, Acquire, Assigning, Runs, Free, Of
  <2>2. CASE BackoffPasses(j)
    BY <2>2 DEF BackoffPasses
  <2>. QED
    BY <1>4, <2>1, <2>2
<1>5. CASE ControlLost
  BY <1>5 DEF ControlLost
<1>. QED
  BY <1>1, <1>2, <1>3, <1>4, <1>5 DEF Next

\* Every step keeps what is known of denials.
LEMMA DenialKept ==
  ASSUME LeaseInv, WakeInv, [Next]_vars, TypeOK'
  PROVE  DenialInv'
<1> USE ConstantsAssumption DEF TypeOK, Stages, companyVars, clientVars,
   watchVars, attemptVars, Goto, Return, Forget, Fault, Home, WakeInv, GenInv,
   DenialInv, LeaseInv, AttemptInv, Later, Full
<1>1. CASE UNCHANGED vars
  BY <1>1 DEF vars
<1>2. ASSUME NEW a \in Attempts, AttemptStep(a)
      PROVE  DenialInv'
  <2>1. CASE Grant(a)
    BY <2>1 DEF Grant, Acquiring, Registered
  <2>2. CASE Refuse(a)
    BY <2>2 DEF Refuse, Acquiring, Registered
  <2>3. CASE Release(a)
    BY <2>3 DEF Release, Registered
  <2>4. CASE TakeLease(a)
    BY <2>4 DEF TakeLease
  <2>5. CASE NoteDenial(a)
    BY <2>5 DEF NoteDenial
  <2>6. CASE RequeueDenied(a)
    BY <2>6 DEF RequeueDenied
  <2>7. CASE RecordDenial(a)
    <3>1. CASE Defers(a)
      BY <2>7, <3>1 DEF RecordDenial
    <3>2. CASE ~Defers(a)
      BY <2>7, <3>2 DEF RecordDenial
    <3>. QED
      BY <2>7, <3>1, <3>2 DEF RecordDenial
  <2>8. CASE CheckCapacity(a)
    BY <2>8 DEF CheckCapacity, CapacityAvailable, CapacityChangedSince
  <2>9. CASE SessionStart(a)
    BY <2>9 DEF SessionStart
  <2>10. CASE SessionStartFails(a)
    BY <2>10 DEF SessionStartFails
  <2>11. CASE SendRelease(a)
    BY <2>11 DEF SendRelease
  <2>12. CASE CannotRelease(a)
    BY <2>12 DEF CannotRelease, ControlFailed, Requeue
  <2>13. CASE NoteRelease(a)
    BY <2>13 DEF NoteRelease
  <2>14. CASE FinishRelease(a)
    BY <2>14 DEF FinishRelease, CapacityAvailable, Requeue
  <2>15. CASE CallFails(a)
    BY <2>15 DEF CallFails, ControlFailed, Requeue, Runs
  <2>16. CASE HandshakeTimeout(a)
    BY <2>16 DEF HandshakeTimeout, Acquire, Free
  <2>17. CASE AgentDone(a)
    BY <2>17 DEF AgentDone
  <2>18. CASE AgentExits(a)
    BY <2>18 DEF AgentExits
  <2>19. CASE TimesOut(a)
    BY <2>19 DEF TimesOut, ControlFailed, GiveUp, Requeue, Runs
  <2>. QED
    BY <1>2, <2>1, <2>2, <2>3, <2>4, <2>5, <2>6, <2>7, <2>8, <2>9, <2>10,
       <2>11, <2>12, <2>13, <2>14, <2>15, <2>16, <2>17, <2>18, <2>19 DEF
       AttemptStep, ServerStep, SpawnStep, ReleaseStep
<1>3. ASSUME NEW c \in Offices, OfficeStep(c)
      PROVE  DenialInv'
  <2>1. CASE Register(c)
    BY <2>1 DEF Register
  <2>2. CASE Unregister(c)
    <3>1. CASE Leases(c) = {}
      <4>1. used' = used /\ serverGen' = serverGen
        BY <2>2, <3>1, FS_EmptySet DEF Unregister
      <4>. QED
        BY <2>2, <4>1 DEF Unregister
    <3>2. CASE Leases(c) # {}
      BY <2>2, <3>2 DEF Unregister, GenInv, Of
    <3>. QED
      BY <3>1, <3>2
  <2>3. CASE Ping(c)
    BY <2>3 DEF Ping, Runs
  <2>4. CASE NotePing(c)
    BY <2>4 DEF NotePing, Runs
  <2>5. CASE NotifyCapacityChange(c)
    BY <2>5 DEF NotifyCapacityChange, CapacityAvailable, Runs
  <2>6. CASE PingFails(c)
    BY <2>6 DEF PingFails, ControlFailed, Runs
  <2>7. CASE UserStops(c)
    BY <2>7 DEF UserStops, ControlFailed, Runs
  <2>8. CASE Exit(c)
    BY <2>8 DEF Exit, ProcessEnds, AfterEnd, CapacityAvailable, Of, Runs
  <2>9. CASE Crash(c)
    BY <2>9 DEF Crash, ProcessEnds, AfterEnd, CapacityAvailable, Of, Runs
  <2>. QED
    BY <1>3, <2>1, <2>2, <2>3, <2>4, <2>5, <2>6, <2>7, <2>8, <2>9 DEF
       OfficeStep, WatchStep
<1>4. ASSUME NEW j \in Jobs, Dispatch(j) \/ BackoffPasses(j)
      PROVE  DenialInv'
  <2>1. CASE Dispatch(j)
    BY <2>1 DEF Dispatch, Acquire, Assigning, Runs, Free, Of
  <2>2. CASE BackoffPasses(j)
    BY <2>2 DEF BackoffPasses
  <2>. QED
    BY <1>4, <2>1, <2>2
<1>5. CASE ControlLost
  BY <1>5 DEF ControlLost
<1>. QED
  BY <1>1, <1>2, <1>3, <1>4, <1>5 DEF Next

\* Every step keeps what is said of the offices.
LEMMA OfficeKept ==
  ASSUME LeaseInv, WakeInv, [Next]_vars, TypeOK'
  PROVE  OfficeInv'
<1> USE ConstantsAssumption DEF TypeOK, Stages, companyVars, clientVars,
   watchVars, attemptVars, Goto, Return, Forget, Fault, Home, WakeInv,
   OfficeInv,
   LeaseInv, AttemptInv, Runs
<1>1. CASE UNCHANGED vars
  BY <1>1 DEF vars
<1>2. ASSUME NEW a \in Attempts, AttemptStep(a)
      PROVE  OfficeInv'
  <2>1. CASE Grant(a)
    BY <2>1 DEF Grant, Acquiring, Full, Registered
  <2>2. CASE Refuse(a)
    BY <2>2 DEF Refuse, Acquiring, Full, Registered
  <2>3. CASE Release(a)
    BY <2>3 DEF Release, Registered
  <2>4. CASE TakeLease(a)
    BY <2>4 DEF TakeLease
  <2>5. CASE NoteDenial(a)
    BY <2>5 DEF NoteDenial, Later
  <2>6. CASE RequeueDenied(a)
    BY <2>6 DEF RequeueDenied
  <2>7. CASE RecordDenial(a)
    <3>1. CASE Defers(a)
      <4>1. /\ UNCHANGED <<phase, watch, stopping>>
            /\ deferral' = [deferral EXCEPT ![job[a]] = "waiting"]
        BY <2>7, <3>1 DEF RecordDenial
      <4>2. phase[HomeOf[job[a]]] = "running"
        BY <2>7 DEF RecordDenial, Held, Stray
      <4>. QED
        BY <4>1, <4>2
    <3>2. CASE ~Defers(a)
      BY <2>7, <3>2 DEF RecordDenial
    <3>. QED
      BY <3>1, <3>2
  <2>8. CASE CheckCapacity(a)
    BY <2>8 DEF CheckCapacity, CapacityAvailable, CapacityChangedSince
  <2>9. CASE SessionStart(a)
    BY <2>9 DEF SessionStart
  <2>10. CASE SessionStartFails(a)
    BY <2>10 DEF SessionStartFails
  <2>11. CASE SendRelease(a)
    BY <2>11 DEF SendRelease
  <2>12. CASE CannotRelease(a)
    BY <2>12 DEF CannotRelease, ControlFailed, Requeue
  <2>13. CASE NoteRelease(a)
    BY <2>13 DEF NoteRelease, Later
  <2>14. CASE FinishRelease(a)
    BY <2>14 DEF FinishRelease, CapacityAvailable, Requeue
  <2>15. CASE CallFails(a)
    BY <2>15 DEF CallFails, ControlFailed, Requeue
  <2>16. CASE HandshakeTimeout(a)
    BY <2>16 DEF HandshakeTimeout, Acquire, Free
  <2>17. CASE AgentDone(a)
    BY <2>17 DEF AgentDone
  <2>18. CASE AgentExits(a)
    BY <2>18 DEF AgentExits
  <2>19. CASE TimesOut(a)
    BY <2>19 DEF TimesOut, ControlFailed, GiveUp, Requeue
  <2>. QED
    BY <1>2, <2>1, <2>2, <2>3, <2>4, <2>5, <2>6, <2>7, <2>8, <2>9, <2>10,
       <2>11, <2>12, <2>13, <2>14, <2>15, <2>16, <2>17, <2>18, <2>19 DEF
       AttemptStep, ServerStep, SpawnStep, ReleaseStep
<1>3. ASSUME NEW c \in Offices, OfficeStep(c)
      PROVE  OfficeInv'
  <2>1. CASE Register(c)
    BY <2>1 DEF Register
  <2>2. CASE Unregister(c)
    BY <2>2 DEF Unregister, Leases, Of
  <2>3. CASE Ping(c)
    BY <2>3 DEF Ping
  <2>4. CASE NotePing(c)
    BY <2>4 DEF NotePing, Later
  <2>5. CASE NotifyCapacityChange(c)
    BY <2>5 DEF NotifyCapacityChange, CapacityAvailable
  <2>6. CASE PingFails(c)
    BY <2>6 DEF PingFails, ControlFailed
  <2>7. CASE UserStops(c)
    BY <2>7 DEF UserStops, ControlFailed
  <2>8. CASE Exit(c)
    BY <2>8 DEF Exit, ProcessEnds, AfterEnd, CapacityAvailable, Of
  <2>9. CASE Crash(c)
    BY <2>9 DEF Crash, ProcessEnds, AfterEnd, CapacityAvailable, Of
  <2>. QED
    BY <1>3, <2>1, <2>2, <2>3, <2>4, <2>5, <2>6, <2>7, <2>8, <2>9 DEF
       OfficeStep, WatchStep
<1>4. ASSUME NEW j \in Jobs, Dispatch(j) \/ BackoffPasses(j)
      PROVE  OfficeInv'
  <2>1. CASE Dispatch(j)
    BY <2>1 DEF Dispatch, Acquire, Assigning, Free, Of
  <2>2. CASE BackoffPasses(j)
    BY <2>2 DEF BackoffPasses
  <2>. QED
    BY <1>4, <2>1, <2>2
<1>5. CASE ControlLost
  BY <1>5 DEF ControlLost
<1>. QED
  BY <1>1, <1>2, <1>3, <1>4, <1>5 DEF Next

\* No step loses a wake-up.
LEMMA WakeupKept ==
  ASSUME LeaseInv, WakeInv, [Next]_vars, TypeOK'
  PROVE  NoLostWakeup'
<1> SUFFICES ASSUME NEW i \in Jobs, NEW d \in Offices, d = HomeOf[i],
                    Runs(d)', ~stopping'[d], deferral'[i] = "waiting", ~Full'
             PROVE  WakeupComes(d)'
  BY ConstantsAssumption DEF NoLostWakeup
<1>w. (Runs(d) /\ ~stopping[d] /\ deferral[i] = "waiting" /\ ~Full)
        => WakeupComes(d)
  BY DEF WakeInv, NoLostWakeup
<1> USE ConstantsAssumption DEF TypeOK, Stages, companyVars, clientVars,
   watchVars, attemptVars, Goto, Return, Forget, Fault, Home, WakeInv, GenInv,
   DenialInv, OfficeInv, WakeupComes, Wakes, LeaseInv, AttemptInv, Runs, Full,
   Of, Later
<1>1. CASE UNCHANGED vars
  BY <1>w, <1>1 DEF vars
<1>2. ASSUME NEW a \in Attempts, AttemptStep(a)
      PROVE  WakeupComes(d)'
  <2>1. CASE Grant(a)
    BY <1>w, <2>1 DEF Grant, Acquiring, Registered
  <2>2. CASE Refuse(a)
    BY <1>w, <2>2 DEF Refuse, Acquiring, Registered
  <2>3. CASE Release(a)
    BY <1>w, <2>3 DEF Release, Registered
  <2>4. CASE TakeLease(a)
    BY <1>w, <2>4 DEF TakeLease
  <2>5. CASE NoteDenial(a)
    <3>1. CASE answer[a] > clientGen[Home(a)] /\ Home(a) = d
      <4>1. answer[a] # serverGen
        BY <2>5, <3>1 DEF NoteDenial
      <4>2. serverGen > answer[a]
        <5>1. answer[a] \in Nat /\ serverGen \in Nat /\ answer[a] <= serverGen
          OBVIOUS
        <5>. QED
          BY ONLY <4>1, <5>1
      <4>3. clientGen'[d] = answer[a] /\ UNCHANGED <<serverGen, watch>>
        BY <2>5, <3>1 DEF NoteDenial
      <4>4. watch[d] # "ended"
        BY <2>5, <3>1 DEF NoteDenial
      <4>. QED
        BY <4>2, <4>3, <4>4
    <3>2. CASE ~(answer[a] > clientGen[Home(a)] /\ Home(a) = d)
      <4>1. clientGen'[d] = clientGen[d]
        BY <2>5, <3>2 DEF NoteDenial
      <4>. QED
        BY <1>w, <2>5, <4>1 DEF NoteDenial
    <3>. QED
      BY <3>1, <3>2
  <2>6. CASE RequeueDenied(a)
    BY <1>w, <2>6 DEF RequeueDenied
  <2>7. CASE RecordDenial(a)
    BY <1>w, <2>7 DEF RecordDenial, Defers
  <2>8. CASE CheckCapacity(a)
    <3>1. CASE Home(a) = d
      <4>1. ~(clientGen[d] > answer[a]) /\ UNCHANGED deferral
        BY <2>8, <3>1
        DEF CheckCapacity, CapacityAvailable, CapacityChangedSince
      <4>2. /\ Runs(d) /\ ~stopping[d] /\ deferral[i] = "waiting" /\ ~Full
            /\ UNCHANGED <<clientGen, watch, serverGen>>
        BY <2>8, <4>1 DEF CheckCapacity
      <4>3. \A b \in Of(d) : Wakes(b, d) => b \in Of(d)' /\ Wakes(b, d)'
        <5>1. ~Wakes(a, d)
          BY <2>8, <4>1 DEF CheckCapacity
        <5>. QED
          BY <2>8, <4>2, <5>1, OthersWake DEF CheckCapacity
      <4>. QED
        BY <1>w, <4>2, <4>3
    <3>2. CASE Home(a) # d
      <4>1. /\ Runs(d) /\ ~stopping[d] /\ deferral[i] = "waiting" /\ ~Full
            /\ clientGen'[d] = clientGen[d] /\ watch'[d] = watch[d]
            /\ serverGen' = serverGen
        BY <2>8, <3>2 DEF CheckCapacity, CapacityAvailable
      <4>2. \A b \in Of(d) : Wakes(b, d) => b \in Of(d)' /\ Wakes(b, d)'
        BY <2>8, <3>2, <4>1, OthersWake DEF CheckCapacity
      <4>. QED
        BY <1>w, <4>1, <4>2
    <3>. QED
      BY <3>1, <3>2
  <2>9. CASE SessionStart(a)
    BY <1>w, <2>9 DEF SessionStart
  <2>10. CASE SessionStartFails(a)
    BY <1>w, <2>10 DEF SessionStartFails
  <2>11. CASE SendRelease(a)
    BY <1>w, <2>11 DEF SendRelease
  <2>12. CASE CannotRelease(a)
    <3>1. CASE Home(a) = d
      BY <2>12, <3>1 DEF CannotRelease, ControlFailed
    <3>2. CASE Home(a) # d
      <4>1. /\ Runs(d) /\ ~stopping[d] /\ deferral[i] = "waiting" /\ ~Full
            /\ clientGen'[d] = clientGen[d] /\ watch'[d] = watch[d]
            /\ serverGen' = serverGen
        BY <2>12, <3>2 DEF CannotRelease, ControlFailed
      <4>2. \A b \in Of(d) : Wakes(b, d) => b \in Of(d)' /\ Wakes(b, d)'
        BY <2>12, <3>2, <4>1, OthersWake DEF CannotRelease
      <4>. QED
        BY <1>w, <4>1, <4>2
    <3>. QED
      BY <3>1, <3>2
  <2>13. CASE NoteRelease(a)
    BY <1>w, <2>13 DEF NoteRelease
  <2>14. CASE FinishRelease(a)
    <3>1. CASE Home(a) = d
      BY <2>14, <3>1 DEF FinishRelease, CapacityAvailable
    <3>2. CASE Home(a) # d
      <4>1. /\ Runs(d) /\ ~stopping[d] /\ deferral[i] = "waiting" /\ ~Full
            /\ clientGen'[d] = clientGen[d] /\ watch'[d] = watch[d]
            /\ serverGen' = serverGen
        BY <2>14, <3>2 DEF FinishRelease, CapacityAvailable
      <4>2. \A b \in Of(d) : Wakes(b, d) => b \in Of(d)' /\ Wakes(b, d)'
        BY <2>14, <3>2, <4>1, OthersWake DEF FinishRelease
      <4>. QED
        BY <1>w, <4>1, <4>2
    <3>. QED
      BY <3>1, <3>2
  <2>15. CASE CallFails(a)
    <3>1. CASE Home(a) = d
      BY <2>15, <3>1 DEF CallFails, ControlFailed
    <3>2. CASE Home(a) # d
      <4>1. /\ Runs(d) /\ ~stopping[d] /\ deferral[i] = "waiting" /\ ~Full
            /\ clientGen'[d] = clientGen[d] /\ watch'[d] = watch[d]
            /\ serverGen' = serverGen
        BY <2>15, <3>2 DEF CallFails, ControlFailed
      <4>2. \A b \in Of(d) : Wakes(b, d) => b \in Of(d)' /\ Wakes(b, d)'
        BY <2>15, <3>2, <4>1, OthersWake DEF CallFails
      <4>. QED
        BY <1>w, <4>1, <4>2
    <3>. QED
      BY <3>1, <3>2
  <2>16. CASE HandshakeTimeout(a)
    BY <1>w, <2>16 DEF HandshakeTimeout, Acquire, Free
  <2>17. CASE AgentDone(a)
    BY <1>w, <2>17 DEF AgentDone
  <2>18. CASE AgentExits(a)
    BY <1>w, <2>18 DEF AgentExits
  <2>19. CASE TimesOut(a)
    BY <1>w, <2>19 DEF TimesOut, ControlFailed, GiveUp, Requeue
  <2>. QED
    BY <1>2, <2>1, <2>2, <2>3, <2>4, <2>5, <2>6, <2>7, <2>8, <2>9, <2>10,
       <2>11, <2>12, <2>13, <2>14, <2>15, <2>16, <2>17, <2>18, <2>19 DEF
       AttemptStep, ServerStep, SpawnStep, ReleaseStep
<1>3. ASSUME NEW c \in Offices, OfficeStep(c)
      PROVE  WakeupComes(d)'
  <2>1. CASE Register(c)
    <3>1. Runs(d) /\ ~stopping[d] /\ deferral[i] = "waiting" /\ ~Full
      BY <1>w, <2>1 DEF Register
    <3>. QED
      BY <1>w, <2>1, <3>1 DEF Register
  <2>2. CASE Unregister(c)
    <3>1. c # d
      BY <1>w, <2>2 DEF Unregister
    <3>2. Runs(d) /\ ~stopping[d] /\ deferral[i] = "waiting"
      BY <1>w, <2>2 DEF Unregister
    <3>3. CASE Leases(c) = {}
      <4>1. used' = used /\ serverGen' = serverGen
        BY <2>2, <3>3, FS_EmptySet DEF Unregister
      <4>2. \A b \in Of(d) :
              pc'[b] = pc[b] /\ job'[b] = job[b] /\ answer'[b] = answer[b]
        BY <2>2, <3>1 DEF Unregister
      <4>. QED
        BY <1>w, <2>2, <3>2, <4>1, <4>2 DEF Unregister
    <3>4. CASE Leases(c) # {}
      <4>1. serverGen' = serverGen + 1 /\ UNCHANGED <<clientGen, watch>>
        BY <2>2, <3>4 DEF Unregister
      <4>. QED
        BY <3>2, <4>1
    <3>. QED
      BY <3>3, <3>4
  <2>3. CASE Ping(c)
    BY <1>w, <2>3 DEF Ping
  <2>4. CASE NotePing(c)
    BY <1>w, <2>4 DEF NotePing
  <2>5. CASE NotifyCapacityChange(c)
    BY <1>w, <2>5 DEF NotifyCapacityChange, CapacityAvailable
  <2>6. CASE PingFails(c)
    BY <1>w, <2>6 DEF PingFails, ControlFailed
  <2>7. CASE UserStops(c)
    BY <1>w, <2>7 DEF UserStops, ControlFailed
  <2>8. CASE Exit(c)
    BY <1>w, <2>8 DEF Exit, ProcessEnds, AfterEnd, CapacityAvailable
  <2>9. CASE Crash(c)
    BY <1>w, <2>9 DEF Crash, ProcessEnds, AfterEnd, CapacityAvailable
  <2>. QED
    BY <1>3, <2>1, <2>2, <2>3, <2>4, <2>5, <2>6, <2>7, <2>8, <2>9 DEF
       OfficeStep, WatchStep
<1>4. ASSUME NEW j \in Jobs, Dispatch(j) \/ BackoffPasses(j)
      PROVE  WakeupComes(d)'
  <2>1. CASE Dispatch(j)
    BY <1>w, <2>1 DEF Dispatch, Acquire, Assigning, Free
  <2>2. CASE BackoffPasses(j)
    BY <1>w, <2>2 DEF BackoffPasses
  <2>. QED
    BY <1>4, <2>1, <2>2
<1>5. CASE ControlLost
  BY <1>w, <1>5 DEF ControlLost
<1>. QED
  BY <1>1, <1>2, <1>3, <1>4, <1>5 DEF Next

\* The second invariant holds for ever, with the first.
LEMMA WakeInvariant == Spec => []WakeInv
<1>1. Init => WakeInv
  BY ConstantsAssumption
     DEF Init, WakeInv, GenInv, DenialInv, OfficeInv, NoLostWakeup, Runs
<1>2. LeaseInv /\ LeaseInv' /\ WakeInv /\ [Next]_vars => WakeInv'
  BY GenKept, DenialKept, OfficeKept, WakeupKept DEF LeaseInv, WakeInv
<1>. QED
  BY <1>1, <1>2, LeaseInvariant, PTL DEF Spec

\* client.go, capacity.go: no job waits for its backoff while there is free
\* capacity that its office will hear nothing of.
THEOREM WakeupsKept == Spec => []NoLostWakeup
<1>1. WakeInv => NoLostWakeup
  BY DEF WakeInv
<1>. QED
  BY <1>1, WakeInvariant, PTL
=============================================================================
