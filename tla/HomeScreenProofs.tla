------------------------- MODULE HomeScreenProofs ---------------------------
(***************************************************************************)
(* Proofs about what the user sees and steers, for all values of Home's    *)
(* constants: the offices of the company's dashboard, the terminal UI, the *)
(* stops for model usage and the answers to an agent's queries.  For each  *)
(* part: its inductive invariant, that every step keeps it, and what the   *)
(* part is promised.                                                       *)
(***************************************************************************)
EXTENDS Home, FiniteSetTheorems, SequenceTheorems, WellFoundedInduction, TLAPS

-----------------------------------------------------------------------------
(* The dashboard's offices.                                                 *)

LEMMA ProjectMoves ==
  ASSUME [Next]_vars
  PROVE  Projects!Next \/ UNCHANGED projectVars
  BY DEF Next, vars, Others

LEMMA SameCount ==
  ASSUME NEW S
  PROVE  Projects!Cardinality(S) = Cardinality(S)
  BY DEF Projects!Cardinality, Cardinality

LEMMA Names ==
  ASSUME NEW S, NEW s \in Seq(S)
  PROVE  /\ Len(s) \in Nat /\ DOMAIN s = 1..Len(s)
         /\ Projects!ToSet(s) = {s[i] : i \in 1..Len(s)}
         /\ Projects!ToSet(s) \subseteq S /\ IsFiniteSet(Projects!ToSet(s))
         /\ Projects!IsInjective(s) <=> \A i, j \in 1..Len(s) : s[i] = s[j] => i = j
<1>1. Len(s) \in Nat /\ DOMAIN s = 1..Len(s) /\ \A i \in 1..Len(s) : s[i] \in S
  BY LenProperties, ElementOfSeq
<1>2. Projects!ToSet(s) = {s[i] : i \in 1..Len(s)}
  BY <1>1 DEF Projects!ToSet
<1>3. IsFiniteSet(1..Len(s))
  BY <1>1, FS_Interval
<1>4. IsFiniteSet({s[i] : i \in 1..Len(s)})
  <2> DEFINE T == {s[i] : i \in 1..Len(s)}
             f == [i \in 1..Len(s) |-> s[i]]
  <2>1. f \in Surjection(1..Len(s), T)
    BY DEF Surjection
  <2> HIDE DEF f, T
  <2>2. IsFiniteSet(T)
    BY <1>3, <2>1, FS_Surjection
  <2> QED
    BY <2>2 DEF T
<1> QED
  BY <1>1, <1>2, <1>4 DEF Projects!IsInjective

\* A list that does not name p twice, without p.
LEMMA Removed ==
  ASSUME NEW S, NEW s \in Seq(S), Projects!IsInjective(s), NEW p
  PROVE  /\ Projects!RemoveFirst(s, p) \in Seq(S)
         /\ Projects!IsInjective(Projects!RemoveFirst(s, p))
         /\ Projects!ToSet(Projects!RemoveFirst(s, p)) = Projects!ToSet(s) \ {p}
<1> DEFINE t == Projects!RemoveFirst(s, p)
           n == Len(s)
<1>0. /\ n \in Nat /\ Projects!ToSet(s) = {s[i] : i \in 1..n}
      /\ \A i, j \in 1..n : s[i] = s[j] => i = j
      /\ \A i \in 1..n : s[i] \in S
  BY Names, ElementOfSeq
<1>1. CASE ~\E i \in 1..n : s[i] = p
  <2>1. t = s
    BY <1>1 DEF Projects!RemoveFirst
  <2>2. p \notin Projects!ToSet(s)
    BY <1>0, <1>1
  <2> HIDE DEF t
  <2> QED
    BY <2>1, <2>2 DEF t
<1>2. CASE \E i \in 1..n : s[i] = p
  <2>1. PICK k \in 1..n : s[k] = p
    BY <1>2
  <2> DEFINE I == {i \in 1..n : s[i] = p}
  <2>2. I = {k}
    BY <1>0, <2>1
  <2>3. Projects!Min(I) = k
    BY <2>1, <2>2 DEF Projects!Min
  <2>4. Projects!SelectInSeq(s, LAMBDA v : v = p) = k
    BY <2>2, <2>3 DEF Projects!SelectInSeq
  <2>5. t = Projects!RemoveAt(s, k)
    BY <1>2, <2>4 DEF Projects!RemoveFirst
  <2>6. t = SubSeq(s, 1, k - 1) \o SubSeq(s, k + 1, n)
    BY <2>5 DEF Projects!RemoveAt
  <2> DEFINE a == SubSeq(s, 1, k - 1)
             b == SubSeq(s, k + 1, n)
  <2>7. k \in Nat /\ k >= 1 /\ k <= n
    BY <1>0, <2>1
  <2>8. a \in Seq(S) /\ Len(a) = k - 1 /\ \A i \in 1..k - 1 : a[i] = s[i]
    <3>1. 1 \in Int /\ k - 1 \in Int /\ \A i \in 1..k - 1 : s[i] \in S
      BY <1>0, <2>7
    <3> DEFINE m == k - 1
    <3>2. /\ SubSeq(s, 1, m) \in Seq(S)
          /\ Len(SubSeq(s, 1, m)) = IF 1 <= m THEN m - 1 + 1 ELSE 0
          /\ \A i \in 1..m - 1 + 1 : SubSeq(s, 1, m)[i] = s[1 + i - 1]
      <4> HIDE DEF m, n
      <4> QED
        BY <3>1, SubSeqProperties DEF m
    <3> QED
      BY <2>7, <3>2
  <2>9. b \in Seq(S) /\ Len(b) = n - k /\ \A i \in 1..n - k : b[i] = s[k + i]
    <3> DEFINE m == k + 1
    <3>1. m \in Int /\ n \in Int /\ \A i \in m..n : s[i] \in S
      BY <1>0, <2>7
    <3>2. /\ SubSeq(s, m, n) \in Seq(S)
          /\ Len(SubSeq(s, m, n)) = IF m <= n THEN n - m + 1 ELSE 0
          /\ \A i \in 1..n - m + 1 : SubSeq(s, m, n)[i] = s[m + i - 1]
      <4> HIDE DEF m, n
      <4> QED
        BY <3>1, SubSeqProperties
    <3> QED
      BY <1>0, <2>7, <3>2
  <2> HIDE DEF a, b
  <2>10. /\ a \o b \in Seq(S) /\ Len(a \o b) = Len(a) + Len(b)
         /\ \A i \in 1..Len(a) + Len(b) : (a \o b)[i] = IF i <= Len(a) THEN a[i] ELSE b[i - Len(a)]
    <3>1. a \in Seq(S) /\ b \in Seq(S)
      BY <2>8, <2>9
    <3> QED
      BY <3>1, ConcatProperties
  <2>11. t = a \o b
    BY <2>6 DEF a, b
  <2> HIDE DEF t, n
  <2>12. Len(t) = n - 1 /\ t \in Seq(S)
    <3>1. Len(t) = (k - 1) + (n - k)
      BY <2>8, <2>9, <2>10, <2>11
    <3>2. n \in Nat /\ k \in Nat
      BY <1>0, <2>7
    <3>3. (k - 1) + (n - k) = n - 1
      BY <3>2
    <3> QED
      BY <2>10, <2>11, <3>1, <3>3
  <2>13. ASSUME NEW i \in 1..n - 1 PROVE t[i] = IF i < k THEN s[i] ELSE s[i + 1]
    <3>1. t[i] = IF i <= k - 1 THEN a[i] ELSE b[i - (k - 1)]
      BY <1>0, <2>7, <2>8, <2>9, <2>10, <2>11
    <3>2. CASE i < k
      BY <1>0, <2>7, <2>8, <3>1, <3>2
    <3>3. CASE ~(i < k)
      <4>1. i - (k - 1) \in 1..n - k /\ k + (i - (k - 1)) = i + 1 /\ ~(i <= k - 1)
        BY <1>0, <2>7, <3>3
      <4> QED
        BY <2>9, <3>1, <3>3, <4>1
    <3> QED
      BY <3>2, <3>3
  <2>14. Projects!IsInjective(t)
    <3>1. ASSUME NEW i \in 1..n - 1, NEW j \in 1..n - 1, t[i] = t[j] PROVE i = j
      <4> DEFINE x == IF i < k THEN i ELSE i + 1
                 y == IF j < k THEN j ELSE j + 1
      <4>1. x \in 1..n /\ y \in 1..n /\ t[i] = s[x] /\ t[j] = s[y]
        BY <1>0, <2>7, <2>13
      <4>2. x = y
        BY <1>0, <3>1, <4>1
      <4> QED
        BY <2>7, <4>2
    <3> QED
      BY <2>12, <3>1, Names
  <2>15. Projects!ToSet(t) = Projects!ToSet(s) \ {p}
    <3>1. Projects!ToSet(t) = {t[i] : i \in 1..n - 1}
      BY <2>12, Names
    <3>2. ASSUME NEW i \in 1..n - 1 PROVE t[i] \in Projects!ToSet(s) \ {p}
      <4> DEFINE x == IF i < k THEN i ELSE i + 1
      <4>1. x \in 1..n /\ x # k /\ t[i] = s[x]
        BY <1>0, <2>7, <2>13
      <4> QED
        BY <1>0, <2>1, <4>1
    <3>3. ASSUME NEW x \in 1..n, s[x] # p PROVE \E i \in 1..n - 1 : t[i] = s[x]
      <4>1. x # k
        BY <2>1, <3>3
      <4> DEFINE i == IF x < k THEN x ELSE x - 1
      <4>2. i \in 1..n - 1 /\ (IF i < k THEN i ELSE i + 1) = x
        BY <1>0, <2>7, <4>1
      <4>3. t[i] = s[x]
        BY <2>13, <4>2
      <4> QED
        BY <4>2, <4>3
    <3> QED
      BY <1>0, <3>1, <3>2, <3>3
  <2> QED
    BY <2>12, <2>14, <2>15 DEF t
<1> QED
  BY <1>1, <1>2

\* A list that does not name p yet, with p at its end.
LEMMA Added ==
  ASSUME NEW S, NEW s \in Seq(S), Projects!IsInjective(s), NEW p \in S, p \notin Projects!ToSet(s)
  PROVE  /\ Append(s, p) \in Seq(S) /\ Projects!IsInjective(Append(s, p))
         /\ Projects!ToSet(Append(s, p)) = Projects!ToSet(s) \cup {p}
<1> DEFINE t == Append(s, p)
           n == Len(s)
<1>0. /\ n \in Nat /\ Projects!ToSet(s) = {s[i] : i \in 1..n}
      /\ \A i, j \in 1..n : s[i] = s[j] => i = j
  BY Names
<1>1. t \in Seq(S) /\ Len(t) = n + 1 /\ \A i \in 1..n : t[i] = s[i]
  BY AppendProperties
<1>2. t[n + 1] = p
  BY AppendProperties
<1> HIDE DEF t, n
<1>3. Projects!IsInjective(t) <=> \A i, j \in 1..Len(t) : t[i] = t[j] => i = j
  BY <1>1, Names
<1>4. Projects!ToSet(t) = {t[i] : i \in 1..Len(t)}
  BY <1>1, Names
<1>5. \A i \in 1..n + 1 : i \in 1..n \/ i = n + 1
  BY <1>0
<1>6. \A i \in 1..n : t[i] # p
  BY <1>0, <1>1
<1>7. \A i, j \in 1..n + 1 : t[i] = t[j] => i = j
  BY <1>0, <1>1, <1>2, <1>5, <1>6
<1>8. {t[i] : i \in 1..n + 1} = {s[i] : i \in 1..n} \cup {p}
  <2>1. n + 1 \in 1..n + 1 /\ \A i \in 1..n : i \in 1..n + 1
    BY <1>0
  <2> QED
    BY <1>1, <1>2, <1>5, <2>1
<1> QED
  BY <1>0, <1>1, <1>3, <1>4, <1>7, <1>8 DEF t

\* The orders of a list name each of its members once.
LEMMA Orders ==
  ASSUME NEW S, NEW T, T \subseteq S, IsFiniteSet(T), NEW perm \in Projects!SetToSeqs(T)
  PROVE  perm \in Seq(S) /\ Projects!IsInjective(perm)
<1> DEFINE n == Cardinality(T)
<1>1. n \in Nat /\ Projects!Cardinality(T) = n
  BY FS_CardinalityType, SameCount
<1>2. perm \in [1..n -> T] /\ \A i, j \in 1..n : i # j => perm[i] # perm[j]
  BY <1>1 DEF Projects!SetToSeqs
<1> HIDE DEF n
<1>3. perm \in [1..n -> S]
  BY <1>2
<1>4. perm \in Seq(S)
  BY <1>1, <1>3, SeqDef
<1>5. DOMAIN perm = 1..n
  BY <1>2
<1> QED
  BY <1>2, <1>4, <1>5 DEF Projects!IsInjective

-----------------------------------------------------------------------------
\* Where a child is in its life.
ChildInStep(i) ==
  /\ child[i].state = "unused" => child[i] = Projects!NoChild
  /\ child[i].state # "unused" => child[i].mode # "none" /\ child[i].path \in ProjectPaths
  /\ child[i].process \in {"booting", "up"} => child[i].state = "running"
  /\ child[i].process = "booting" => child[i].mode = "omo"
  /\ child[i].process \in {"none", "booting"} => child[i].agents = {}
  /\ child[i].process = "dead" => child[i].agents = {} \/ child[i].left # "no"
  /\ child[i].state = "exited" => child[i].process = "dead"
  /\ child[i].state = "running" => child[i].process # "none"
  /\ child[i].state = "running" => child[i].listed /\ (child[i].mode # "setup" => child[i].token)
  /\ child[i].done => child[i].state = "exited"
  /\ child[i].ok => child[i].path \in configured

\* A killed child and its agents are stopped before they are listed, so that a
\* list that could be had is complete when they are killed.
KillInStep(i) ==
  /\ child[i].kill \in {"frozen", "snapshot"} => child[i].process \in {"booting", "up"}
  /\ child[i].kill = "snapshot" => child[i].victims = child[i].agents \/ child[i].left # "no"
  /\ child[i].kill = "done" => child[i].process = "dead"

\* What was looked at before the mutex was taken still holds, or was overtaken.
Wanted(p) == p \in Projects!ToSet(trusted) \cup overtaken
RequestInStep(r) ==
  /\ request[r].kind \in {"launch", "setup", "untrust"} => request[r].path \in ProjectPaths
  /\ request[r].kind = "launch" => Wanted(request[r].path)
  /\ request[r].kind = "reorder" => Projects!IsInjective(request[r].view)
  /\ request[r].kind = "forget" => request[r].id \in Ids /\ child[request[r].id].state = "exited"
OfficeWanted(i) ==
  child[i].mode = "omo" =>
    /\ child[i].process \in {"booting", "up"} => Wanted(child[i].path)
    /\ child[i].state = "running" /\ Projects!Pending("untrust", child[i].path) =>
         child[i].path \in overtaken

ProjectsInv ==
  /\ Projects!TypeOK /\ Projects!TrustedOnce /\ Projects!OneOfficePerPath
  /\ \A i \in Ids : ChildInStep(i) /\ KillInStep(i) /\ OfficeWanted(i)
  /\ \A r \in ProjectRequests : RequestInStep(r)
  /\ Projects!ClosedLeavesOnlyStrays

ChildRecords ==
  [path : ProjectPaths \cup {0}, mode : {"none", "omo", "shell", "setup"},
   state : {"unused", "running", "exited"}, process : {"none", "booting", "up", "dead"},
   ok : BOOLEAN, agents : SUBSET OfficeAgents, token : BOOLEAN, listed : BOOLEAN,
   kill : {"no", "frozen", "snapshot", "done", "refused"}, victims : SUBSET OfficeAgents,
   left : {"no", "crash", "unlisted"}, done : BOOLEAN, stopping : BOOLEAN]
RequestRecords ==
  [kind : {"none", "launch", "setup", "untrust", "reorder", "forget"},
   path : ProjectPaths \cup {0}, view : Seq(ProjectPaths), id : Ids \cup {0}]

LEMMA ProjectTypes ==
  ASSUME Projects!TypeOK
  PROVE  /\ trusted \in Seq(ProjectPaths) /\ configured \subseteq ProjectPaths
         /\ child \in [Ids -> ChildRecords] /\ request \in [ProjectRequests -> RequestRecords]
         /\ server \in {"serving", "closing", "forcing", "returned"}
         /\ outside \in [ProjectPaths -> {"no", "starting", "up"}]
         /\ overtaken \subseteq ProjectPaths /\ budget \in 0..MaxProjectRequests
  BY DEF Projects!TypeOK, ChildRecords, RequestRecords

\* A child moves on, keeping its path and its mode; the list of trusted offices
\* loses nothing, and requests are answered at most.
LEMMA ChildMoves ==
  ASSUME ProjectsInv, NEW i \in Ids, child' \in [Ids -> ChildRecords],
         \A j \in Ids \ {i} : child'[j] = child[j],
         child'[i].path = child[i].path, child'[i].mode = child[i].mode,
         child'[i].process \in {"booting", "up"} => child[i].process \in {"booting", "up"},
         child'[i].state = "running" => child[i].state = "running",
         child[i].state = "exited" => child'[i].state = "exited",
         child[i].kill = "refused" => child'[i].kill = "refused",
         trusted' \in Seq(ProjectPaths), Projects!IsInjective(trusted'),
         Projects!ToSet(trusted) \subseteq Projects!ToSet(trusted'),
         overtaken' = overtaken, configured \subseteq configured', configured' \subseteq ProjectPaths,
         server' = server, outside' \in [ProjectPaths -> {"no", "starting", "up"}],
         budget' \in 0..MaxProjectRequests,
         \A r \in ProjectRequests : request'[r] = request[r] \/ request'[r] = Projects!Idle,
         request' \in [ProjectRequests -> RequestRecords],
         ChildInStep(i)', KillInStep(i)'
  PROVE  ProjectsInv'
<1>0. /\ Projects!TypeOK /\ Projects!TrustedOnce /\ Projects!OneOfficePerPath
      /\ \A j \in Ids : ChildInStep(j) /\ KillInStep(j) /\ OfficeWanted(j)
      /\ \A r \in ProjectRequests : RequestInStep(r)
      /\ Projects!ClosedLeavesOnlyStrays
  BY DEF ProjectsInv
<1>1. Projects!TypeOK' /\ Projects!TrustedOnce'
  BY <1>0 DEF Projects!TypeOK, ChildRecords, RequestRecords, Projects!TrustedOnce,
     Projects!IsInjective
<1>2. \A j \in Ids : Projects!Living(j)' => Projects!Living(j)
  BY DEF Projects!Living
<1>3. \A j \in Ids : child'[j].path = child[j].path /\ child'[j].mode = child[j].mode
  OBVIOUS
<1>4. Projects!OneOfficePerPath'
  BY <1>0, <1>2, <1>3 DEF Projects!OneOfficePerPath
<1>5. \A j \in Ids : ChildInStep(j)' /\ KillInStep(j)'
  BY <1>0 DEF ChildInStep, KillInStep
<1>6. \A p \in ProjectPaths : Wanted(p) => Wanted(p)'
  BY DEF Wanted, Projects!ToSet
<1>7. \A j \in Ids : child[j].state = "exited" => child'[j].state = "exited"
  OBVIOUS
<1>8. ASSUME NEW r \in ProjectRequests PROVE RequestInStep(r)'
  <2>1. CASE request'[r] = Projects!Idle
    BY <2>1 DEF RequestInStep, Projects!Idle
  <2>2. CASE request'[r] = request[r]
    BY <1>0, <1>6, <1>7, <2>2 DEF RequestInStep, Projects!IsInjective
  <2> QED
    BY <2>1, <2>2
<1>9. \A p \in ProjectPaths : Projects!Pending("untrust", p)' => Projects!Pending("untrust", p)
  <2> SUFFICES ASSUME NEW p \in ProjectPaths, NEW r \in ProjectRequests,
                      request'[r].kind = "untrust", request'[r].path = p
               PROVE  request[r].kind = "untrust" /\ request[r].path = p
    BY DEF Projects!Pending
  <2>1. request'[r] # Projects!Idle
    BY DEF Projects!Idle
  <2> QED
    BY <2>1
<1>10. ASSUME NEW j \in Ids PROVE OfficeWanted(j)'
  <2> SUFFICES ASSUME child'[j].mode = "omo"
               PROVE  /\ child'[j].process \in {"booting", "up"} => Wanted(child[j].path)'
                      /\ child'[j].state = "running" /\ Projects!Pending("untrust", child[j].path)' =>
                           child'[j].path \in overtaken'
    BY DEF OfficeWanted
  <2>1. child[j].mode = "omo" /\ child'[j].path = child[j].path
    BY <1>3
  <2>2. ASSUME child'[j].process \in {"booting", "up"} PROVE Wanted(child[j].path)'
    <3>1. child[j].process \in {"booting", "up"} /\ child[j].state = "running"
      BY <1>0, <2>2 DEF ChildInStep
    <3>2. Wanted(child[j].path) /\ child[j].path \in ProjectPaths
      BY <1>0, <2>1, <3>1 DEF OfficeWanted, ChildInStep
    <3>3. \A p \in ProjectPaths : p = child[j].path => Wanted(p)'
      BY <1>6, <3>2
    <3> QED
      BY <2>1, <3>2, <3>3 DEF Wanted
  <2>3. ASSUME child'[j].state = "running", Projects!Pending("untrust", child[j].path)'
        PROVE  child'[j].path \in overtaken'
    <3>1. child[j].state = "running" /\ child[j].path \in ProjectPaths
      BY <1>0, <2>3 DEF ChildInStep
    <3>2. Projects!Pending("untrust", child[j].path)
      BY <1>9, <2>1, <2>3, <3>1 DEF Projects!Pending
    <3> QED
      BY <1>0, <2>1, <3>1, <3>2 DEF OfficeWanted
  <2> QED
    BY <2>2, <2>3
<1>11. Projects!ClosedLeavesOnlyStrays'
  <2> SUFFICES ASSUME server' = "returned", NEW j \in Ids
               PROVE  /\ Projects!Living(j)' => child'[j].kill = "refused"
                      /\ child'[j].agents # {} => Projects!Living(j)' \/ child'[j].left # "no"
    BY DEF Projects!ClosedLeavesOnlyStrays
  <2>1. Projects!Living(j) => child[j].kill = "refused"
    BY <1>0 DEF Projects!ClosedLeavesOnlyStrays
  <2>2. child'[j].process \in {"none", "booting", "up", "dead"}
    BY DEF ChildRecords
  <2>3. child'[j].agents # {} => Projects!Living(j)' \/ child'[j].left # "no"
    BY <1>5, <2>2 DEF ChildInStep, Projects!Living
  <2> QED
    BY <1>2, <2>1, <2>3
<1> QED
  BY <1>1, <1>4, <1>5, <1>8, <1>10, <1>11 DEF ProjectsInv

\* A request moves on and the children stay as they are: what the children and the
\* other requests rely on is still wanted.
LEMMA RequestMoves ==
  ASSUME ProjectsInv, child' = child, NEW moved \in SUBSET ProjectRequests,
         request' \in [ProjectRequests -> RequestRecords],
         \A r \in ProjectRequests \ moved : request'[r] = request[r],
         \A r \in moved : RequestInStep(r)',
         trusted' \in Seq(ProjectPaths), Projects!IsInjective(trusted'),
         overtaken \subseteq overtaken', overtaken' \subseteq ProjectPaths,
         configured' = configured, server' \in {"serving", "closing", "forcing", "returned"},
         server' = "returned" => server = "returned" \/ Projects!MayReturn,
         outside' \in [ProjectPaths -> {"no", "starting", "up"}], budget' \in 0..MaxProjectRequests,
         \A p \in ProjectPaths :
           \/ p \in Projects!ToSet(trusted) => p \in Projects!ToSet(trusted')
           \/ Projects!Pending("untrust", p) /\ (Projects!Pending("launch", p) => p \in overtaken'),
         \A r \in moved : request'[r].kind = "untrust" => Projects!MayUntrust(request'[r].path)
  PROVE  ProjectsInv'
<1>0. /\ Projects!TypeOK /\ Projects!TrustedOnce /\ Projects!OneOfficePerPath
      /\ \A j \in Ids : ChildInStep(j) /\ KillInStep(j) /\ OfficeWanted(j)
      /\ \A r \in ProjectRequests : RequestInStep(r)
      /\ Projects!ClosedLeavesOnlyStrays
  BY DEF ProjectsInv
<1>1. Projects!TypeOK' /\ Projects!TrustedOnce'
  BY <1>0 DEF Projects!TypeOK, RequestRecords, Projects!TrustedOnce, Projects!IsInjective
<1>2. Projects!OneOfficePerPath' /\ \A j \in Ids : ChildInStep(j)' /\ KillInStep(j)'
  BY <1>0 DEF Projects!OneOfficePerPath, Projects!Living, ChildInStep, KillInStep
<1>3. ASSUME NEW r \in ProjectRequests PROVE RequestInStep(r)'
  <2>1. CASE r \in moved
    BY <2>1
  <2>2. CASE r \notin moved
    <3>1. request'[r] = request[r]
      BY <2>2
    <3>2. ASSUME request[r].kind = "launch" PROVE Wanted(request[r].path)'
      <4>1. request[r].path \in ProjectPaths /\ Wanted(request[r].path)
            /\ Projects!Pending("launch", request[r].path)
        BY <1>0, <3>2 DEF RequestInStep, Projects!Pending
      <4> QED
        BY <3>1, <4>1 DEF Wanted, Projects!ToSet
    <3> QED
      BY <1>0, <3>1, <3>2 DEF RequestInStep, Wanted, Projects!IsInjective
  <2> QED
    BY <2>1, <2>2
<1>4. ASSUME NEW j \in Ids, child[j].mode = "omo", child[j].process \in {"booting", "up"}
      PROVE  Wanted(child[j].path)'
  <2>1. child[j].path \in ProjectPaths /\ child[j].state = "running" /\ Wanted(child[j].path)
    BY <1>0, <1>4 DEF ChildInStep, OfficeWanted
  <2>2. CASE Projects!Pending("untrust", child[j].path)
    BY <1>0, <1>4, <2>1, <2>2 DEF OfficeWanted, Wanted
  <2>3. CASE ~Projects!Pending("untrust", child[j].path)
    BY <2>1, <2>3 DEF Wanted, Projects!ToSet
  <2> QED
    BY <2>2, <2>3
<1>5. ASSUME NEW j \in Ids, child[j].mode = "omo", child[j].state = "running",
             NEW r \in ProjectRequests, request'[r].kind = "untrust", request'[r].path = child[j].path
      PROVE  child[j].path \in overtaken'
  <2>1. CASE r \in moved
    <3>1. Projects!MayUntrust(request'[r].path)
      BY <1>5, <2>1
    <3>2. Projects!MayUntrust(child[j].path)
      BY <1>5, <3>1 DEF Projects!MayUntrust, Projects!RunningAt, Projects!Listed
    <3>3. child[j].listed
      BY <1>0, <1>5 DEF ChildInStep
    <3> QED
      BY <1>5, <3>2, <3>3 DEF Projects!MayUntrust, Projects!RunningAt, Projects!Listed
  <2>2. CASE r \notin moved
    <3>1. Projects!Pending("untrust", child[j].path)
      BY <1>5, <2>2 DEF Projects!Pending
    <3> QED
      BY <1>0, <1>5, <3>1 DEF OfficeWanted
  <2> QED
    BY <2>1, <2>2
<1>6. ASSUME NEW j \in Ids PROVE OfficeWanted(j)'
  BY <1>4, <1>5 DEF OfficeWanted, Projects!Pending, Wanted
<1>7. Projects!ClosedLeavesOnlyStrays'
  <2>1. CASE server' = "returned" /\ Projects!MayReturn
    <3> SUFFICES ASSUME NEW j \in Ids
                 PROVE  /\ child[j].process \in {"booting", "up"} => child[j].kill = "refused"
                        /\ child[j].agents # {} =>
                             child[j].process \in {"booting", "up"} \/ child[j].left # "no"
      BY DEF Projects!ClosedLeavesOnlyStrays, Projects!Living
    <3>1. ASSUME child[j].process \in {"booting", "up"} PROVE child[j].kill = "refused"
      <4>1. child[j].listed /\ ~child[j].done /\ child[j].kill # "done"
        BY <1>0, <3>1 DEF ChildInStep, KillInStep
      <4> QED
        BY <2>1, <4>1 DEF Projects!MayReturn, Projects!Listed
    <3>2. child[j].process \in {"none", "booting", "up", "dead"}
      BY <1>0, ProjectTypes DEF ChildRecords
    <3> QED
      BY <1>0, <3>1, <3>2 DEF ChildInStep
  <2>2. CASE server' # "returned" \/ server = "returned"
    BY <1>0, <2>2 DEF Projects!ClosedLeavesOnlyStrays, Projects!Living
  <2> QED
    BY <2>1, <2>2
<1> QED
  BY <1>1, <1>2, <1>3, <1>6, <1>7 DEF ProjectsInv

-----------------------------------------------------------------------------
\* A step of child i that leaves the list, the requests and the configured offices
\* alone.
LEMMA ChildAlone ==
  ASSUME ProjectsInv, NEW i \in Ids, NEW c \in ChildRecords, child' = [child EXCEPT ![i] = c],
         c.path = child[i].path, c.mode = child[i].mode,
         c.process \in {"booting", "up"} => child[i].process \in {"booting", "up"},
         c.state = "running" => child[i].state = "running",
         child[i].state = "exited" => c.state = "exited",
         child[i].kill = "refused" => c.kill = "refused",
         UNCHANGED <<trusted, configured, server, overtaken, request>>,
         outside' \in [ProjectPaths -> {"no", "starting", "up"}], budget' \in 0..MaxProjectRequests,
         ChildInStep(i)', KillInStep(i)'
  PROVE  ProjectsInv'
<1>1. /\ trusted \in Seq(ProjectPaths) /\ configured \subseteq ProjectPaths
      /\ child \in [Ids -> ChildRecords] /\ request \in [ProjectRequests -> RequestRecords]
      /\ Projects!IsInjective(trusted)
  BY ProjectTypes DEF ProjectsInv, Projects!TrustedOnce
<1>2. child' \in [Ids -> ChildRecords] /\ child'[i] = c /\ \A j \in Ids \ {i} : child'[j] = child[j]
  BY <1>1
<1>3. Projects!IsInjective(trusted') /\ Projects!ToSet(trusted) \subseteq Projects!ToSet(trusted')
  BY <1>1 DEF Projects!IsInjective, Projects!ToSet
<1>4. \A r \in ProjectRequests : request'[r] = request[r]
  OBVIOUS
<1>5. child'[i].path = child[i].path /\ child'[i].mode = child[i].mode
      /\ (child'[i].process \in {"booting", "up"} => child[i].process \in {"booting", "up"})
      /\ (child'[i].state = "running" => child[i].state = "running")
      /\ (child[i].state = "exited" => child'[i].state = "exited")
      /\ (child[i].kill = "refused" => child'[i].kill = "refused")
  BY <1>2
<1> QED
  BY <1>1, <1>2, <1>3, <1>4, <1>5, ChildMoves

\* What a child does by itself.
LEMMA ChildLives ==
  ASSUME ProjectsInv, NEW i \in Ids,
         \/ Projects!OfficeOpens(i) \/ Projects!Exited(i) \/ Projects!WatchdogStops(i)
         \/ \E a \in OfficeAgents : Projects!AgentStarts(i, a)
         \/ Projects!Estop(i)
         \/ /\ Projects!EstopInstance(i)
            /\ UNCHANGED <<trusted, configured, request, overtaken, server, budget>>
  PROVE  ProjectsInv'
<1>0. ChildInStep(i) /\ KillInStep(i) /\ child[i] \in ChildRecords /\ child \in [Ids -> ChildRecords]
      /\ outside \in [ProjectPaths -> {"no", "starting", "up"}] /\ budget \in 0..MaxProjectRequests
  BY ProjectTypes DEF ProjectsInv
<1>1. CASE Projects!OfficeOpens(i)
  <2>1. PICK step \in {"dead", "up"} : child' = [child EXCEPT ![i].process = step]
    BY <1>1 DEF Projects!OfficeOpens
  <2> DEFINE c == [child[i] EXCEPT !.process = step]
  <2>2. /\ c \in ChildRecords /\ c.path = child[i].path /\ c.mode = child[i].mode
        /\ c.state = child[i].state /\ c.process = step /\ c.agents = child[i].agents
        /\ c.kill = child[i].kill /\ c.victims = child[i].victims /\ c.left = child[i].left
        /\ c.listed = child[i].listed
        /\ c.token = child[i].token /\ c.done = child[i].done /\ c.ok = child[i].ok
    BY <1>0, <2>1 DEF ChildRecords
  <2>3. child' = [child EXCEPT ![i] = c] /\ child'[i] = c
    BY <1>0, <2>1
  <2>4. /\ child[i].process = "booting" /\ ~Projects!Frozen(i)
        /\ UNCHANGED <<trusted, configured, request, server, outside, overtaken, budget>>
    BY <1>1 DEF Projects!OfficeOpens
  <2> HIDE DEF c
  <2>5. child[i].state = "running" /\ child[i].agents = {} /\ child[i].kill \notin {"frozen", "snapshot", "done"}
    BY <1>0, <2>4 DEF ChildInStep, KillInStep, Projects!Frozen
  <2>6. ChildInStep(i)'
    BY <1>0, <2>2, <2>3, <2>4, <2>5 DEF ChildInStep
  <2>7. KillInStep(i)'
    BY <1>0, <2>2, <2>3, <2>5 DEF KillInStep
  <2> QED
    BY <1>0, <2>2, <2>3, <2>4, <2>6, <2>7, ChildAlone
<1>2. CASE Projects!Exited(i)
  <2> DEFINE c == [child[i] EXCEPT !.state = "exited"]
  <2>1. /\ child' = [child EXCEPT ![i].state = "exited"]
        /\ child[i].process = "dead" /\ child[i].state = "running"
        /\ UNCHANGED <<trusted, configured, request, server, outside, overtaken, budget>>
    BY <1>2 DEF Projects!Exited
  <2>2. /\ c \in ChildRecords /\ c.path = child[i].path /\ c.mode = child[i].mode
        /\ c.state = "exited" /\ c.process = child[i].process /\ c.agents = child[i].agents
        /\ c.kill = child[i].kill /\ c.victims = child[i].victims /\ c.left = child[i].left
        /\ c.listed = child[i].listed
        /\ c.token = child[i].token /\ c.done = child[i].done /\ c.ok = child[i].ok
    BY <1>0 DEF ChildRecords
  <2>3. child' = [child EXCEPT ![i] = c] /\ child'[i] = c
    BY <1>0, <2>1
  <2> HIDE DEF c
  <2>6. ChildInStep(i)'
    BY <1>0, <2>1, <2>2, <2>3 DEF ChildInStep
  <2>7. KillInStep(i)'
    BY <1>0, <2>2, <2>3 DEF KillInStep
  <2>8. outside' \in [ProjectPaths -> {"no", "starting", "up"}] /\ budget' \in 0..MaxProjectRequests
        /\ UNCHANGED <<trusted, configured, server, overtaken, request>>
    BY <1>0, <2>1
  <2> QED
    BY <2>2, <2>3, <2>6, <2>7, <2>8, ChildAlone
<1>3. CASE child' = [child EXCEPT ![i].stopping = TRUE] /\ child[i].process = "up"
           /\ UNCHANGED <<trusted, configured, request, server, outside, overtaken, budget>>
  <2> DEFINE c == [child[i] EXCEPT !.stopping = TRUE]
  <2>2. /\ c \in ChildRecords /\ c.path = child[i].path /\ c.mode = child[i].mode
        /\ c.state = child[i].state /\ c.process = child[i].process /\ c.agents = child[i].agents
        /\ c.kill = child[i].kill /\ c.victims = child[i].victims /\ c.left = child[i].left
        /\ c.listed = child[i].listed
        /\ c.token = child[i].token /\ c.done = child[i].done /\ c.ok = child[i].ok
    BY <1>0 DEF ChildRecords
  <2>3. child' = [child EXCEPT ![i] = c] /\ child'[i] = c
    BY <1>0, <1>3
  <2> HIDE DEF c
  <2>4. child[i].state = "running"
    BY <1>0, <1>3 DEF ChildInStep
  <2>6. ChildInStep(i)'
    BY <1>0, <1>3, <2>2, <2>3, <2>4 DEF ChildInStep
  <2>7. KillInStep(i)'
    BY <1>0, <2>2, <2>3 DEF KillInStep
  <2> QED
    BY <1>0, <1>3, <2>2, <2>3, <2>6, <2>7, ChildAlone
<1>4. CASE \E a \in OfficeAgents : Projects!AgentStarts(i, a)
  <2>1. PICK a \in OfficeAgents : Projects!AgentStarts(i, a)
    BY <1>4
  <2> DEFINE c == [child[i] EXCEPT !.agents = @ \union {a}]
  <2>2. /\ c \in ChildRecords /\ c.path = child[i].path /\ c.mode = child[i].mode
        /\ c.state = child[i].state /\ c.process = child[i].process
        /\ c.kill = child[i].kill /\ c.victims = child[i].victims /\ c.left = child[i].left
        /\ c.listed = child[i].listed
        /\ c.token = child[i].token /\ c.done = child[i].done /\ c.ok = child[i].ok
    BY <1>0 DEF ChildRecords
  <2>3. child' = [child EXCEPT ![i] = c] /\ child'[i] = c
    BY <1>0, <2>1 DEF Projects!AgentStarts
  <2>4. /\ child[i].process = "up" /\ ~Projects!Frozen(i)
        /\ UNCHANGED <<trusted, configured, request, server, outside, overtaken, budget>>
    BY <2>1 DEF Projects!AgentStarts
  <2> HIDE DEF c
  <2>5. child[i].state = "running" /\ child[i].kill \notin {"frozen", "snapshot", "done"}
    BY <1>0, <2>4 DEF ChildInStep, KillInStep, Projects!Frozen
  <2>6. ChildInStep(i)'
    BY <1>0, <2>2, <2>3, <2>4, <2>5 DEF ChildInStep
  <2>7. KillInStep(i)'
    BY <1>0, <2>2, <2>3, <2>5 DEF KillInStep
  <2> QED
    BY <1>0, <2>2, <2>3, <2>4, <2>6, <2>7, ChildAlone
<1>5. CASE child' = child /\ outside' = [outside EXCEPT ![child[i].path] = "no"]
           /\ UNCHANGED <<trusted, configured, request, server, overtaken, budget>>
  <2>1. child' = [child EXCEPT ![i] = child[i]] /\ child'[i] = child[i]
    BY <1>0, <1>5
  <2>2. outside' \in [ProjectPaths -> {"no", "starting", "up"}]
    BY <1>0, <1>5
  <2>3. ChildInStep(i)' /\ KillInStep(i)'
    BY <1>0, <1>5 DEF ChildInStep, KillInStep
  <2> QED
    BY <1>0, <1>5, <2>1, <2>2, <2>3, ChildAlone
<1>6. Projects!WatchdogStops(i) =>
        /\ child' = [child EXCEPT ![i].stopping = TRUE] /\ child[i].process = "up"
        /\ UNCHANGED <<trusted, configured, request, server, outside, overtaken, budget>>
  BY DEF Projects!WatchdogStops
<1>7. Projects!Estop(i) =>
        Projects!EstopInstance(i) /\ UNCHANGED <<trusted, configured, request, overtaken, server, budget>>
  BY DEF Projects!Estop
<1>8. Projects!EstopInstance(i) =>
        \/ child' = [child EXCEPT ![i].stopping = TRUE] /\ child[i].process = "up" /\ outside' = outside
        \/ child' = child /\ outside' = [outside EXCEPT ![child[i].path] = "no"]
  BY DEF Projects!EstopInstance
<1> QED
  BY <1>1, <1>2, <1>3, <1>4, <1>5, <1>6, <1>7, <1>8

\* A child is killed, in steps.
LEMMA ChildKilled ==
  ASSUME ProjectsInv, NEW i \in Ids,
         \/ /\ Projects!KillBegins(i) /\ server' = server
            /\ budget' \in 0..MaxProjectRequests
         \/ Projects!KillLists(i) \/ Projects!KillEnds(i)
  PROVE  ProjectsInv'
<1>0. ChildInStep(i) /\ KillInStep(i) /\ child[i] \in ChildRecords /\ child \in [Ids -> ChildRecords]
      /\ outside \in [ProjectPaths -> {"no", "starting", "up"}] /\ budget \in 0..MaxProjectRequests
  BY ProjectTypes DEF ProjectsInv
<1>1. CASE Projects!KillBegins(i) /\ server' = server /\ budget' \in 0..MaxProjectRequests
  <2>0. PICK step \in IF Projects!Living(i) THEN {"frozen", "refused"} ELSE {"done"} :
               child' = [child EXCEPT ![i].kill = step]
    BY <1>1 DEF Projects!KillBegins
  <2> DEFINE c == [child[i] EXCEPT !.kill = step]
  <2>1. /\ child' = [child EXCEPT ![i].kill = step] /\ child[i].listed /\ child[i].kill = "no"
        /\ UNCHANGED <<trusted, configured, request, outside, overtaken>>
    BY <1>1, <2>0 DEF Projects!KillBegins
  <2>2. /\ c \in ChildRecords /\ c.path = child[i].path /\ c.mode = child[i].mode
        /\ c.state = child[i].state /\ c.process = child[i].process /\ c.agents = child[i].agents
        /\ c.kill = step /\ c.victims = child[i].victims /\ c.left = child[i].left /\ c.listed = child[i].listed
        /\ c.token = child[i].token /\ c.done = child[i].done /\ c.ok = child[i].ok
    BY <1>0, <2>0 DEF ChildRecords
  <2>3. child' = [child EXCEPT ![i] = c] /\ child'[i] = c
    BY <1>0, <2>1
  <2>4. /\ step \in {"frozen", "refused"} => child[i].process \in {"booting", "up"}
        /\ step = "done" => child[i].process \notin {"booting", "up"}
        /\ step # "snapshot"
    BY <2>0 DEF Projects!Living
  <2> HIDE DEF c
  <2>5. child[i].state # "unused"
    BY <1>0, <2>1 DEF ChildInStep, Projects!NoChild
  <2>6. ChildInStep(i)'
    BY <1>0, <1>1, <2>1, <2>2, <2>3, <2>5 DEF ChildInStep
  <2>7. child[i].process \in {"booting", "up"} \/ child[i].process = "dead"
    <3>1. child[i].state = "running" => child[i].process # "none"
      BY <1>0, <2>1 DEF ChildInStep, ChildRecords
    <3> QED
      BY <1>0, <2>5, <3>1 DEF ChildInStep, ChildRecords
  <2>8. KillInStep(i)'
    BY <1>0, <2>2, <2>3, <2>4, <2>7 DEF KillInStep
  <2>9. outside' \in [ProjectPaths -> {"no", "starting", "up"}] /\ budget' \in 0..MaxProjectRequests
        /\ UNCHANGED <<trusted, configured, server, overtaken, request>>
    BY <1>0, <1>1, <2>1
  <2>10. child[i].kill = "no"
    BY <2>1
  <2> QED
    BY <2>2, <2>3, <2>6, <2>8, <2>9, <2>10, ChildAlone
<1>2. CASE Projects!KillLists(i)
  <2>0. child[i].kill = "frozen" /\ UNCHANGED <<trusted, configured, request, server, outside, overtaken, budget>>
    BY <1>2 DEF Projects!KillLists
  <2>1. ASSUME NEW seen \in SUBSET OfficeAgents, NEW left \in {"no", "crash", "unlisted"},
               seen = child[i].agents \/ left # "no",
               left = child[i].left \/ left # "no",
               child' = [child EXCEPT ![i].kill = "snapshot", ![i].victims = seen, ![i].left = left]
        PROVE  ProjectsInv'
    <3> DEFINE c == [child[i] EXCEPT !.kill = "snapshot", !.victims = seen, !.left = left]
    <3>2. /\ c \in ChildRecords /\ c.path = child[i].path /\ c.mode = child[i].mode
          /\ c.state = child[i].state /\ c.process = child[i].process /\ c.agents = child[i].agents
          /\ c.kill = "snapshot" /\ c.victims = seen /\ c.left = left /\ c.listed = child[i].listed
          /\ c.token = child[i].token /\ c.done = child[i].done /\ c.ok = child[i].ok
      BY <1>0 DEF ChildRecords
    <3>3. child' = [child EXCEPT ![i] = c] /\ child'[i] = c
      BY <1>0, <2>1
    <3> HIDE DEF c
    <3>5. child[i].state # "unused" /\ child[i].process \in {"booting", "up"}
      BY <1>0, <2>0 DEF ChildInStep, KillInStep, Projects!NoChild
    <3>6. ChildInStep(i)'
      BY <1>0, <2>0, <3>2, <3>3, <3>5 DEF ChildInStep
    <3>7. KillInStep(i)'
      BY <1>0, <2>1, <3>2, <3>3, <3>5 DEF KillInStep
    <3> QED
      BY <1>0, <2>0, <3>2, <3>3, <3>6, <3>7, ChildAlone
  <2>2. CASE child' = [child EXCEPT ![i].kill = "snapshot", ![i].victims = child[i].agents]
    <3>1. child[i].agents \in SUBSET OfficeAgents /\ child[i].left \in {"no", "crash", "unlisted"}
          /\ child' = [child EXCEPT ![i].kill = "snapshot", ![i].victims = child[i].agents,
                                    ![i].left = child[i].left]
      BY <1>0, <2>2 DEF ChildRecords
    <3> QED
      BY <2>1, <3>1
  <2>3. CASE child' = [child EXCEPT ![i].kill = "snapshot", ![i].left = "unlisted"]
    <3>1. child[i].victims \in SUBSET OfficeAgents
          /\ child' = [child EXCEPT ![i].kill = "snapshot", ![i].victims = child[i].victims,
                                    ![i].left = "unlisted"]
      BY <1>0, <2>3 DEF ChildRecords
    <3> QED
      BY <2>1, <3>1
  <2> QED
    BY <1>2, <2>2, <2>3 DEF Projects!KillLists
<1>3. CASE Projects!KillEnds(i)
  <2> DEFINE rest == child[i].agents \ child[i].victims
             c == [child[i] EXCEPT !.kill = "done", !.process = "dead", !.agents = rest]
  <2>1. /\ child' = [child EXCEPT ![i].kill = "done", ![i].process = "dead", ![i].agents = rest]
        /\ child[i].kill = "snapshot"
        /\ UNCHANGED <<trusted, configured, request, server, outside, overtaken, budget>>
    BY <1>0, <1>3 DEF Projects!KillEnds
  <2>2. /\ c \in ChildRecords /\ c.path = child[i].path /\ c.mode = child[i].mode
        /\ c.state = child[i].state /\ c.process = "dead" /\ c.agents = rest
        /\ c.kill = "done" /\ c.victims = child[i].victims /\ c.left = child[i].left /\ c.listed = child[i].listed
        /\ c.token = child[i].token /\ c.done = child[i].done /\ c.ok = child[i].ok
    BY <1>0 DEF ChildRecords
  <2>3. child' = [child EXCEPT ![i] = c] /\ child'[i] = c
    BY <1>0, <2>1
  <2>4. rest = {} \/ child[i].left # "no"
    BY <1>0, <2>1 DEF KillInStep
  <2> HIDE DEF c, rest
  <2>5. child[i].state = "running"
    BY <1>0, <2>1 DEF ChildInStep, KillInStep
  <2>6. ChildInStep(i)'
    BY <1>0, <2>1, <2>2, <2>3, <2>4, <2>5 DEF ChildInStep
  <2>7. KillInStep(i)'
    BY <1>0, <2>1, <2>2, <2>3 DEF KillInStep
  <2>9. outside' \in [ProjectPaths -> {"no", "starting", "up"}] /\ budget' \in 0..MaxProjectRequests
        /\ UNCHANGED <<trusted, configured, server, overtaken, request>>
    BY <1>0, <2>1
  <2> QED
    BY <2>1, <2>2, <2>3, <2>6, <2>7, <2>9, ChildAlone
<1> QED
  BY <1>1, <1>2, <1>3

\* A child ends, perhaps with a project set up.
LEMMA ChildIsOver ==
  ASSUME ProjectsInv, NEW i \in Ids, NEW ok \in BOOLEAN, Projects!ChildEnds(i, ok)
  PROVE  ProjectsInv'
<1>0. ChildInStep(i) /\ KillInStep(i) /\ child[i] \in ChildRecords /\ child \in [Ids -> ChildRecords]
      /\ configured \subseteq ProjectPaths /\ Projects!IsInjective(trusted)
      /\ trusted \in Seq(ProjectPaths) /\ request \in [ProjectRequests -> RequestRecords]
      /\ outside \in [ProjectPaths -> {"no", "starting", "up"}] /\ budget \in 0..MaxProjectRequests
  BY ProjectTypes DEF ProjectsInv, Projects!TrustedOnce
<1> DEFINE c == [child[i] EXCEPT !.process = "dead", !.agents = {}, !.ok = ok]
<1>1. /\ child[i].process = "up" /\ ~Projects!Frozen(i)
      /\ child' = [child EXCEPT ![i].process = "dead", ![i].agents = {}, ![i].ok = ok]
      /\ configured' = IF ok THEN configured \union {child[i].path} ELSE configured
      /\ UNCHANGED <<trusted, request, server, outside, overtaken, budget>>
  BY DEF Projects!ChildEnds
<1>2. /\ c \in ChildRecords /\ c.path = child[i].path /\ c.mode = child[i].mode
      /\ c.state = child[i].state /\ c.process = "dead" /\ c.agents = {}
      /\ c.kill = child[i].kill /\ c.victims = child[i].victims /\ c.left = child[i].left
      /\ c.listed = child[i].listed
      /\ c.token = child[i].token /\ c.done = child[i].done /\ c.ok = ok
  BY <1>0 DEF ChildRecords
<1>3. child' \in [Ids -> ChildRecords] /\ child'[i] = c /\ \A j \in Ids \ {i} : child'[j] = child[j]
  BY <1>0, <1>1, <1>2
<1> HIDE DEF c
<1>4. child[i].state = "running" /\ child[i].path \in ProjectPaths
      /\ child[i].kill \notin {"frozen", "snapshot", "done"}
  BY <1>0, <1>1 DEF ChildInStep, KillInStep, Projects!Frozen
<1>5. configured \subseteq configured' /\ configured' \subseteq ProjectPaths
      /\ (ok => child[i].path \in configured')
  BY <1>0, <1>1, <1>4
<1>6. ChildInStep(i)' /\ KillInStep(i)'
  BY <1>0, <1>1, <1>2, <1>3, <1>4, <1>5 DEF ChildInStep, KillInStep
<1>7. Projects!IsInjective(trusted') /\ Projects!ToSet(trusted) \subseteq Projects!ToSet(trusted')
  BY <1>0, <1>1 DEF Projects!IsInjective, Projects!ToSet
<1>8. \A r \in ProjectRequests : request'[r] = request[r]
  BY <1>1
<1>9. child'[i].path = child[i].path /\ child'[i].mode = child[i].mode
      /\ child'[i].state = child[i].state /\ child'[i].process = "dead"
      /\ child'[i].kill = child[i].kill
  BY <1>2, <1>3
<1> QED
  BY <1>0, <1>1, <1>3, <1>5, <1>6, <1>7, <1>8, <1>9, ChildMoves

\* An office crashes, and its agents may go on.
LEMMA OfficeIsLost ==
  ASSUME ProjectsInv, NEW i \in Ids, NEW orphans \in SUBSET OfficeAgents,
         Projects!OfficeCrashes(i, orphans)
  PROVE  ProjectsInv'
<1>0. ChildInStep(i) /\ KillInStep(i) /\ child[i] \in ChildRecords /\ child \in [Ids -> ChildRecords]
      /\ outside \in [ProjectPaths -> {"no", "starting", "up"}] /\ budget \in 0..MaxProjectRequests
  BY ProjectTypes DEF ProjectsInv
<1> DEFINE c == [child[i] EXCEPT !.process = "dead", !.agents = orphans, !.left = "crash"]
<1>1. /\ child[i].process = "up" /\ ~Projects!Frozen(i)
      /\ child' = [child EXCEPT ![i].process = "dead", ![i].agents = orphans, ![i].left = "crash"]
      /\ UNCHANGED <<trusted, configured, request, server, outside, overtaken, budget>>
  BY DEF Projects!OfficeCrashes
<1>2. /\ c \in ChildRecords /\ c.path = child[i].path /\ c.mode = child[i].mode
      /\ c.state = child[i].state /\ c.process = "dead" /\ c.agents = orphans /\ c.left = "crash"
      /\ c.kill = child[i].kill /\ c.victims = child[i].victims /\ c.listed = child[i].listed
      /\ c.token = child[i].token /\ c.done = child[i].done /\ c.ok = child[i].ok
  BY <1>0 DEF ChildRecords
<1>3. child' = [child EXCEPT ![i] = c] /\ child'[i] = c
  BY <1>0, <1>1
<1> HIDE DEF c
<1>4. child[i].state = "running" /\ child[i].kill \notin {"frozen", "snapshot", "done"}
  BY <1>0, <1>1 DEF ChildInStep, KillInStep, Projects!Frozen
<1>5. ChildInStep(i)'
  BY <1>0, <1>1, <1>2, <1>3, <1>4 DEF ChildInStep
<1>6. KillInStep(i)'
  BY <1>0, <1>2, <1>3, <1>4 DEF KillInStep
<1>7. outside' \in [ProjectPaths -> {"no", "starting", "up"}] /\ budget' \in 0..MaxProjectRequests
      /\ UNCHANGED <<trusted, configured, server, overtaken, request>>
  BY <1>0, <1>1
<1>8. child[i].process = "up"
  BY <1>1
<1> QED
  BY <1>2, <1>3, <1>5, <1>6, <1>7, <1>8, ChildAlone

LEMMA WithTrustKeeps ==
  ASSUME Projects!TypeOK, Projects!TrustedOnce, NEW p \in ProjectPaths
  PROVE  /\ Projects!WithTrust(p) \in Seq(ProjectPaths) /\ Projects!IsInjective(Projects!WithTrust(p))
         /\ Projects!ToSet(Projects!WithTrust(p)) = Projects!ToSet(trusted) \cup {p}
<1>1. trusted \in Seq(ProjectPaths) /\ Projects!IsInjective(trusted)
  BY ProjectTypes DEF Projects!TrustedOnce
<1>2. CASE p \in Projects!ToSet(trusted)
  <2>1. Projects!WithTrust(p) = trusted
    BY <1>2 DEF Projects!WithTrust
  <2> QED
    BY <1>1, <1>2, <2>1
<1>3. CASE p \notin Projects!ToSet(trusted)
  <2>1. Projects!WithTrust(p) = Append(trusted, p)
    BY <1>3 DEF Projects!WithTrust
  <2> QED
    BY <1>1, <1>3, <2>1, Added
<1> QED
  BY <1>2, <1>3

\* The end of a child is noticed: a project it set up is trusted.
LEMMA ChildIsDone ==
  ASSUME ProjectsInv, NEW i \in Ids, Projects!OnExit(i)
  PROVE  ProjectsInv'
<1>0. ChildInStep(i) /\ KillInStep(i) /\ child[i] \in ChildRecords /\ child \in [Ids -> ChildRecords]
      /\ configured \subseteq ProjectPaths /\ Projects!IsInjective(trusted)
      /\ trusted \in Seq(ProjectPaths) /\ request \in [ProjectRequests -> RequestRecords]
      /\ outside \in [ProjectPaths -> {"no", "starting", "up"}] /\ budget \in 0..MaxProjectRequests
  BY ProjectTypes DEF ProjectsInv, Projects!TrustedOnce
<1> DEFINE c == [child[i] EXCEPT !.done = TRUE, !.token = FALSE]
<1>1. /\ child[i].state = "exited"
      /\ child' = [child EXCEPT ![i].done = TRUE, ![i].token = FALSE]
      /\ trusted' = IF child[i].ok THEN Projects!WithTrust(child[i].path) ELSE trusted
      /\ UNCHANGED <<configured, request, server, outside, overtaken, budget>>
  BY DEF Projects!OnExit
<1>2. /\ c \in ChildRecords /\ c.path = child[i].path /\ c.mode = child[i].mode
      /\ c.state = child[i].state /\ c.process = child[i].process /\ c.agents = child[i].agents
      /\ c.kill = child[i].kill /\ c.victims = child[i].victims /\ c.left = child[i].left
      /\ c.listed = child[i].listed
      /\ c.token = FALSE /\ c.done = TRUE /\ c.ok = child[i].ok
  BY <1>0 DEF ChildRecords
<1>3. child' \in [Ids -> ChildRecords] /\ child'[i] = c /\ \A j \in Ids \ {i} : child'[j] = child[j]
  BY <1>0, <1>1, <1>2
<1> HIDE DEF c
<1>4. ChildInStep(i)'
  BY <1>0, <1>1, <1>2, <1>3 DEF ChildInStep
<1>5. KillInStep(i)'
  BY <1>0, <1>2, <1>3 DEF KillInStep
<1>6. /\ trusted' \in Seq(ProjectPaths) /\ Projects!IsInjective(trusted')
      /\ Projects!ToSet(trusted) \subseteq Projects!ToSet(trusted')
  <2>1. CASE child[i].ok
    <3>1. child[i].path \in ProjectPaths
      BY <1>0, <1>1 DEF ChildInStep
    <3> DEFINE t == Projects!WithTrust(child[i].path)
    <3>2. t \in Seq(ProjectPaths) /\ Projects!IsInjective(t)
          /\ Projects!ToSet(t) = Projects!ToSet(trusted) \cup {child[i].path}
      BY <3>1, WithTrustKeeps DEF ProjectsInv
    <3>3. trusted' = t
      BY <1>1, <2>1
    <3> HIDE DEF t
    <3> QED
      BY <3>2, <3>3 DEF Projects!IsInjective, Projects!ToSet
  <2>2. CASE ~child[i].ok
    BY <1>0, <1>1, <2>2 DEF Projects!IsInjective, Projects!ToSet
  <2> QED
    BY <2>1, <2>2
<1>7. \A r \in ProjectRequests : request'[r] = request[r]
  BY <1>1
<1>8. child'[i].path = child[i].path /\ child'[i].mode = child[i].mode
      /\ child'[i].state = child[i].state /\ child'[i].process = child[i].process
      /\ child'[i].kill = child[i].kill
  BY <1>2, <1>3
<1> QED
  BY <1>0, <1>1, <1>3, <1>4, <1>5, <1>6, <1>7, <1>8, ChildMoves

\* A child that exited is forgotten.
LEMMA ChildForgotten ==
  ASSUME ProjectsInv, NEW r \in ProjectRequests, Projects!Forget(r)
  PROVE  ProjectsInv'
<1>0. PICK i \in Ids : i = request[r].id /\ child[i].state = "exited"
  BY DEF ProjectsInv, RequestInStep, Projects!Forget
<1> DEFINE c == [child[i] EXCEPT !.listed = FALSE]
<1>1. ChildInStep(i) /\ KillInStep(i) /\ child[i] \in ChildRecords /\ child \in [Ids -> ChildRecords]
      /\ configured \subseteq ProjectPaths /\ Projects!IsInjective(trusted)
      /\ trusted \in Seq(ProjectPaths) /\ request \in [ProjectRequests -> RequestRecords]
      /\ outside \in [ProjectPaths -> {"no", "starting", "up"}] /\ budget \in 0..MaxProjectRequests
  BY <1>0, ProjectTypes DEF ProjectsInv, Projects!TrustedOnce
<1>2. /\ child' = [child EXCEPT ![i].listed = FALSE]
      /\ request' = [request EXCEPT ![r] = Projects!Idle]
      /\ UNCHANGED <<trusted, configured, server, outside, overtaken, budget>>
  BY <1>0 DEF Projects!Forget, Projects!Answers
<1>3. /\ c \in ChildRecords /\ c.path = child[i].path /\ c.mode = child[i].mode
      /\ c.state = child[i].state /\ c.process = child[i].process /\ c.agents = child[i].agents
      /\ c.kill = child[i].kill /\ c.victims = child[i].victims /\ c.left = child[i].left /\ c.listed = FALSE
      /\ c.token = child[i].token /\ c.done = child[i].done /\ c.ok = child[i].ok
  BY <1>1 DEF ChildRecords
<1>4. child' \in [Ids -> ChildRecords] /\ child'[i] = c /\ \A j \in Ids \ {i} : child'[j] = child[j]
  BY <1>0, <1>1, <1>2, <1>3
<1> HIDE DEF c
<1>5. ChildInStep(i)'
  BY <1>0, <1>1, <1>2, <1>3, <1>4 DEF ChildInStep
<1>6. KillInStep(i)'
  BY <1>1, <1>3, <1>4 DEF KillInStep
<1>7. Projects!Idle \in RequestRecords
  BY DEF Projects!Idle, RequestRecords
<1>8. request' \in [ProjectRequests -> RequestRecords]
      /\ \A q \in ProjectRequests : request'[q] = request[q] \/ request'[q] = Projects!Idle
  BY <1>1, <1>2, <1>7
<1>9. Projects!IsInjective(trusted') /\ Projects!ToSet(trusted) \subseteq Projects!ToSet(trusted')
  BY <1>1, <1>2 DEF Projects!IsInjective, Projects!ToSet
<1>10. child'[i].path = child[i].path /\ child'[i].mode = child[i].mode
      /\ child'[i].state = child[i].state /\ child'[i].process = child[i].process
      /\ child'[i].kill = child[i].kill
  BY <1>3, <1>4
<1>11. /\ trusted' \in Seq(ProjectPaths) /\ overtaken' = overtaken /\ configured \subseteq configured'
       /\ configured' \subseteq ProjectPaths /\ server' = server
       /\ outside' \in [ProjectPaths -> {"no", "starting", "up"}] /\ budget' \in 0..MaxProjectRequests
  BY <1>1, <1>2
<1> QED
  BY <1>4, <1>5, <1>6, <1>8, <1>9, <1>10, <1>11, ChildMoves

-----------------------------------------------------------------------------
LEMMA OneLess ==
  ASSUME budget \in 0..MaxProjectRequests, budget' = budget \/ (budget > 0 /\ budget' = budget - 1)
  PROVE  budget' \in 0..MaxProjectRequests
<1>1. MaxProjectRequests \in Nat
  BY HomeConstants
<1> QED
  BY <1>1

\* Only request r moves, and no child does.
LEMMA OneRequestMoves ==
  ASSUME ProjectsInv, child' = child, NEW r \in ProjectRequests,
         request' \in [ProjectRequests -> RequestRecords],
         \A q \in ProjectRequests : q # r => request'[q] = request[q],
         RequestInStep(r)',
         request'[r].kind = "untrust" => Projects!MayUntrust(request'[r].path),
         trusted' \in Seq(ProjectPaths), Projects!IsInjective(trusted'),
         overtaken \subseteq overtaken', overtaken' \subseteq ProjectPaths,
         configured' = configured, server' = server, outside' = outside,
         budget' \in 0..MaxProjectRequests,
         \A p \in ProjectPaths :
           \/ p \in Projects!ToSet(trusted) => p \in Projects!ToSet(trusted')
           \/ Projects!Pending("untrust", p) /\ (Projects!Pending("launch", p) => p \in overtaken')
  PROVE  ProjectsInv'
<1> DEFINE moved == {r}
<1>1. moved \in SUBSET ProjectRequests
      /\ (\A q \in ProjectRequests \ moved : request'[q] = request[q])
      /\ (\A q \in moved : request'[q].kind = "untrust" => Projects!MayUntrust(request'[q].path))
  OBVIOUS
<1>2. \A q \in moved : RequestInStep(q)'
  BY DEF RequestInStep
<1>3. server' \in {"serving", "closing", "forcing", "returned"}
      /\ outside' \in [ProjectPaths -> {"no", "starting", "up"}]
      /\ (server' = "returned" => server = "returned" \/ Projects!MayReturn)
  BY ProjectTypes DEF ProjectsInv
<1> HIDE DEF moved
<1> QED
  BY <1>1, <1>2, <1>3, RequestMoves

LEMMA IdleRecord ==
  /\ Projects!Idle \in RequestRecords /\ Projects!Idle.kind = "none" /\ Projects!Idle.path = 0
  /\ Projects!Idle.view = <<>> /\ Projects!Idle.id = 0
<1>1. <<>> \in Seq(ProjectPaths)
  OBVIOUS
<1> QED
  BY <1>1 DEF Projects!Idle, RequestRecords

LEMMA NoChildRecord ==
  /\ Projects!NoChild \in ChildRecords /\ Projects!NoChild.kill = "no" /\ Projects!NoChild.agents = {}
  /\ Projects!NoChild.ok = FALSE /\ Projects!NoChild.done = FALSE
  BY DEF Projects!NoChild, ChildRecords

\* A child is started at p: an office only where none of the children's is.
LEMMA Spawns ==
  ASSUME ProjectsInv, NEW p \in ProjectPaths, NEW how \in {"omo", "shell", "setup"},
         Projects!Starts(p, how), Projects!Spawned(p, how),
         UNCHANGED <<trusted, configured, server, outside>>, budget' \in 0..MaxProjectRequests,
         request' \in [ProjectRequests -> RequestRecords],
         \A r \in ProjectRequests : request'[r] = request[r] \/ request'[r] = Projects!Idle,
         overtaken \subseteq overtaken', overtaken' \subseteq ProjectPaths,
         how = "omo" => Wanted(p),
         how = "omo" /\ Projects!Pending("untrust", p) => p \in overtaken'
  PROVE  ProjectsInv'
<1>0. /\ Projects!TypeOK /\ Projects!TrustedOnce /\ Projects!OneOfficePerPath
      /\ \A j \in Ids : ChildInStep(j) /\ KillInStep(j) /\ OfficeWanted(j)
      /\ \A r \in ProjectRequests : RequestInStep(r)
      /\ child \in [Ids -> ChildRecords] /\ server = "serving"
  BY ProjectTypes DEF ProjectsInv, Projects!Starts, Projects!Accepts
<1> DEFINE c == [Projects!NoChild EXCEPT !.path = p, !.mode = how, !.state = "running",
                   !.process = IF how = "omo" THEN "booting" ELSE "up",
                   !.token = how # "setup", !.listed = TRUE]
<1>1. PICK i \in Ids : child[i].state = "unused" /\ child' = [child EXCEPT ![i] = c]
  BY DEF Projects!Spawned
<1>2. PICK n \in ChildRecords : /\ n = Projects!NoChild /\ n.kill = "no" /\ n.agents = {}
                                 /\ n.ok = FALSE /\ n.done = FALSE
  BY NoChildRecord
<1>3. /\ c \in ChildRecords /\ c.path = p /\ c.mode = how /\ c.state = "running"
      /\ c.process = (IF how = "omo" THEN "booting" ELSE "up") /\ c.ok = FALSE
      /\ c.agents = {} /\ (c.token <=> how # "setup") /\ c.listed = TRUE /\ c.kill = "no"
      /\ c.done = FALSE
  <2> DEFINE e == IF how = "omo" THEN "booting" ELSE "up"
             k == how # "setup"
             d == [n EXCEPT !.path = p, !.mode = how, !.state = "running", !.process = e,
                     !.token = k, !.listed = TRUE]
  <2>1. e \in {"booting", "up"} /\ k \in BOOLEAN
    OBVIOUS
  <2>2. c = d
    BY <1>2
  <2> HIDE DEF e, k, c
  <2>3. n \in ChildRecords => d \in ChildRecords
    BY <2>1 DEF ChildRecords
  <2>4. n \in ChildRecords => /\ d.path = p /\ d.mode = how /\ d.state = "running" /\ d.process = e
        /\ d.token = k /\ d.listed = TRUE /\ d.kill = n.kill /\ d.agents = n.agents
        /\ d.ok = n.ok /\ d.done = n.done
    BY <2>1 DEF ChildRecords
  <2> HIDE DEF d
  <2> QED
    BY <1>2, <2>2, <2>3, <2>4 DEF e, k
<1> HIDE DEF c
<1>4. child' \in [Ids -> ChildRecords] /\ child'[i] = c /\ \A j \in Ids \ {i} : child'[j] = child[j]
  BY <1>0, <1>1, <1>3
<1>5. Projects!TypeOK'
  BY <1>0, <1>4 DEF Projects!TypeOK, ChildRecords, RequestRecords
<1>6. Projects!TrustedOnce'
  BY <1>0 DEF Projects!TrustedOnce, Projects!IsInjective
<1>7. \A j \in Ids : ChildInStep(j)' /\ KillInStep(j)'
  <2>1. ChildInStep(i)' /\ KillInStep(i)'
    BY <1>3, <1>4 DEF ChildInStep, KillInStep
  <2>2. ASSUME NEW j \in Ids, j # i PROVE ChildInStep(j)' /\ KillInStep(j)'
    BY <1>0, <1>4, <2>2 DEF ChildInStep, KillInStep
  <2> QED
    BY <2>1, <2>2
<1>8. \A j \in Ids : child[j].mode = "omo" /\ Projects!Living(j) /\ how = "omo" => child[j].path # p
  <2> SUFFICES ASSUME NEW j \in Ids, child[j].mode = "omo", Projects!Living(j), how = "omo",
                      child[j].path = p
               PROVE  FALSE
    OBVIOUS
  <2>1. child[j].state = "running" /\ child[j].listed
    BY <1>0 DEF Projects!Living, ChildInStep
  <2>2. j \in Projects!RunningAt(p, {"omo"})
    BY <2>1 DEF Projects!RunningAt, Projects!Listed
  <2> QED
    BY <2>2 DEF Projects!Starts
<1>9. Projects!OneOfficePerPath'
  <2> SUFFICES ASSUME NEW j \in Ids, NEW k \in Ids, j # k, Projects!Living(j)', Projects!Living(k)',
                      child'[j].mode = "omo", child'[k].mode = "omo"
               PROVE  child'[j].path # child'[k].path
    BY DEF Projects!OneOfficePerPath
  <2>1. CASE j = i
    BY <1>3, <1>4, <1>8, <2>1 DEF Projects!Living
  <2>2. CASE k = i
    BY <1>3, <1>4, <1>8, <2>2 DEF Projects!Living
  <2>3. CASE j # i /\ k # i
    BY <1>0, <1>4, <2>3 DEF Projects!Living, Projects!OneOfficePerPath
  <2> QED
    BY <2>1, <2>2, <2>3
<1>10. \A q \in ProjectPaths : Wanted(q) => Wanted(q)'
  BY DEF Wanted, Projects!ToSet
<1>11. ASSUME NEW r \in ProjectRequests PROVE RequestInStep(r)'
  <2>1. CASE request'[r] = Projects!Idle
    BY <2>1 DEF RequestInStep, Projects!Idle
  <2>2. CASE request'[r] = request[r]
    <3>1. \A j \in Ids : child[j].state = "exited" => child'[j].state = "exited"
      BY <1>1, <1>4
    <3> QED
      BY <1>0, <1>10, <2>2, <3>1 DEF RequestInStep, Projects!IsInjective
  <2> QED
    BY <2>1, <2>2
<1>12. \A q \in ProjectPaths : Projects!Pending("untrust", q)' => Projects!Pending("untrust", q)
  <2> SUFFICES ASSUME NEW q \in ProjectPaths, NEW r \in ProjectRequests,
                      request'[r].kind = "untrust", request'[r].path = q
               PROVE  request[r].kind = "untrust" /\ request[r].path = q
    BY DEF Projects!Pending
  <2>1. request'[r] # Projects!Idle
    BY DEF Projects!Idle
  <2> QED
    BY <2>1
<1>13. ASSUME NEW j \in Ids PROVE OfficeWanted(j)'
  <2>1. CASE j = i
    <3>1. child'[j].path = p /\ child'[j].mode = how
      BY <1>3, <1>4, <2>1
    <3>2. how = "omo" => Wanted(child[j].path)'
      BY <1>10, <3>1 DEF Wanted
    <3>3. how = "omo" /\ Projects!Pending("untrust", child[j].path)' => p \in overtaken'
      BY <1>12, <3>1 DEF Projects!Pending
    <3> QED
      BY <3>1, <3>2, <3>3 DEF OfficeWanted
  <2>2. CASE j # i
    <3>1. child'[j] = child[j]
      BY <1>4, <2>2
    <3>2. child[j].process \in {"booting", "up"} => child[j].state = "running"
      BY <1>0 DEF ChildInStep
    <3>3. child[j].state = "running" => child[j].path \in ProjectPaths
      BY <1>0 DEF ChildInStep
    <3>4. child[j].state = "running" /\ Projects!Pending("untrust", child[j].path)' =>
            Projects!Pending("untrust", child[j].path)
      BY <1>12, <3>1, <3>3 DEF Projects!Pending
    <3>5. child[j].state = "running" /\ Wanted(child[j].path) => Wanted(child[j].path)'
      BY <1>10, <3>1, <3>3 DEF Wanted
    <3> QED
      BY <1>0, <3>1, <3>2, <3>4, <3>5 DEF OfficeWanted
  <2> QED
    BY <2>1, <2>2
<1>14. Projects!ClosedLeavesOnlyStrays'
  BY <1>0 DEF Projects!ClosedLeavesOnlyStrays
<1> QED
  BY <1>5, <1>6, <1>7, <1>9, <1>11, <1>13, <1>14 DEF ProjectsInv

\* A request starts a child, or fails to; a shell is started.
LEMMA StartStep ==
  ASSUME ProjectsInv, NEW r \in ProjectRequests, Projects!Start(r)
  PROVE  ProjectsInv'
<1>0. /\ request \in [ProjectRequests -> RequestRecords] /\ overtaken \subseteq ProjectPaths
      /\ trusted \in Seq(ProjectPaths) /\ Projects!IsInjective(trusted) /\ RequestInStep(r)
      /\ server \in {"serving", "closing", "forcing", "returned"}
      /\ outside \in [ProjectPaths -> {"no", "starting", "up"}] /\ budget \in 0..MaxProjectRequests
  BY ProjectTypes DEF ProjectsInv, Projects!TrustedOnce
<1>1. /\ request' = [request EXCEPT ![r] = Projects!Idle]
      /\ UNCHANGED <<trusted, configured, server, outside, budget>>
      /\ request[r].kind \in {"launch", "setup"}
  BY DEF Projects!Start, Projects!Answers
<1>2. Projects!Idle \in RequestRecords
  BY DEF Projects!Idle, RequestRecords
<1>3. request' \in [ProjectRequests -> RequestRecords] /\ request'[r] = Projects!Idle
      /\ \A q \in ProjectRequests : q # r => request'[q] = request[q]
  BY <1>0, <1>1, <1>2
<1>4. CASE UNCHANGED <<child, overtaken>>
  <2>1. RequestInStep(r)' /\ request'[r].kind # "untrust"
    BY <1>3, IdleRecord DEF RequestInStep
  <2>2. trusted' \in Seq(ProjectPaths) /\ Projects!IsInjective(trusted')
        /\ \A p \in ProjectPaths : p \in Projects!ToSet(trusted) => p \in Projects!ToSet(trusted')
    BY <1>0, <1>1 DEF Projects!IsInjective, Projects!ToSet
  <2>3. overtaken \subseteq overtaken' /\ overtaken' \subseteq ProjectPaths /\ child' = child
        /\ configured' = configured /\ server' = server /\ outside' = outside
        /\ budget' \in 0..MaxProjectRequests
    BY <1>0, <1>1, <1>4
  <2> QED
    BY <1>3, <2>1, <2>2, <2>3, OneRequestMoves
<1>5. CASE ~UNCHANGED <<child, overtaken>>
  <2>1. PICK p \in ProjectPaths : p = request[r].path
    BY <1>0, <1>1 DEF RequestInStep
  <2>2. PICK how \in {"omo", "setup"} : how = IF request[r].kind = "launch" THEN "omo" ELSE "setup"
    OBVIOUS
  <2>3. /\ Projects!Starts(p, how) /\ Projects!Spawned(p, how)
        /\ overtaken' = overtaken \union {q \in {p} : Projects!Pending("untrust", q)}
    BY <1>5, <2>1, <2>2 DEF Projects!Start
  <2>4. how = "omo" => Wanted(p)
    BY <1>0, <1>1, <2>1, <2>2 DEF RequestInStep
  <2>5. overtaken \subseteq overtaken' /\ overtaken' \subseteq ProjectPaths
        /\ (Projects!Pending("untrust", p) => p \in overtaken')
    BY <1>0, <2>3
  <2>6. budget' \in 0..MaxProjectRequests
    BY <1>0, <1>1
  <2> QED
    BY <1>1, <1>3, <2>2, <2>3, <2>4, <2>5, <2>6, Spawns
<1> QED
  BY <1>4, <1>5

LEMMA StartShellStep ==
  ASSUME ProjectsInv, NEW p \in ProjectPaths, Projects!StartShell(p)
  PROVE  ProjectsInv'
<1>0. /\ request \in [ProjectRequests -> RequestRecords] /\ overtaken \subseteq ProjectPaths
      /\ budget \in 0..MaxProjectRequests
  BY ProjectTypes DEF ProjectsInv
<1>1. /\ Projects!Starts(p, "shell") /\ Projects!Spawned(p, "shell") /\ budget > 0 /\ budget' = budget - 1
      /\ UNCHANGED <<trusted, configured, request, server, outside, overtaken>>
  BY DEF Projects!StartShell
<1>2. budget' \in 0..MaxProjectRequests
  BY <1>0, <1>1, OneLess
<1>3. \A r \in ProjectRequests : request'[r] = request[r]
  BY <1>1
<1> QED
  BY <1>0, <1>1, <1>2, <1>3, Spawns

-----------------------------------------------------------------------------
\* A request arrives with what it has looked at.
LEMMA AsksStep ==
  ASSUME ProjectsInv, NEW r \in ProjectRequests, NEW what \in RequestRecords, Projects!Asks(r, what),
         UNCHANGED <<trusted, configured, child, server, outside, overtaken>>,
         what.kind \in {"launch", "setup", "untrust"} => what.path \in ProjectPaths,
         what.kind = "launch" => Wanted(what.path),
         what.kind = "reorder" => Projects!IsInjective(what.view),
         what.kind = "forget" => what.id \in Ids /\ child[what.id].state = "exited",
         what.kind = "untrust" => Projects!MayUntrust(what.path)
  PROVE  ProjectsInv'
<1>0. /\ request \in [ProjectRequests -> RequestRecords] /\ overtaken \subseteq ProjectPaths
      /\ trusted \in Seq(ProjectPaths) /\ Projects!IsInjective(trusted)
      /\ server \in {"serving", "closing", "forcing", "returned"}
      /\ outside \in [ProjectPaths -> {"no", "starting", "up"}] /\ budget \in 0..MaxProjectRequests
  BY ProjectTypes DEF ProjectsInv, Projects!TrustedOnce
<1>1. request' = [request EXCEPT ![r] = what] /\ budget > 0 /\ budget' = budget - 1
  BY DEF Projects!Asks
<1>2. request' \in [ProjectRequests -> RequestRecords] /\ request'[r] = what
      /\ \A q \in ProjectRequests : q # r => request'[q] = request[q]
  BY <1>0, <1>1
<1>3. budget' \in 0..MaxProjectRequests
  BY <1>0, <1>1, OneLess
<1>4. RequestInStep(r)'
  <2>1. what.kind = "reorder" => Projects!IsInjective(request[r].view)'
    BY <1>2 DEF Projects!IsInjective
  <2>2. what.kind = "launch" => Wanted(request[r].path)'
    BY <1>2 DEF Wanted, Projects!ToSet
  <2>3. what.kind = "forget" => child'[what.id].state = "exited"
    OBVIOUS
  <2> QED
    BY <1>2, <2>1, <2>2, <2>3 DEF RequestInStep
<1>5. trusted' \in Seq(ProjectPaths) /\ Projects!IsInjective(trusted')
      /\ \A p \in ProjectPaths : p \in Projects!ToSet(trusted) => p \in Projects!ToSet(trusted')
  BY <1>0 DEF Projects!IsInjective, Projects!ToSet
<1>6. overtaken \subseteq overtaken' /\ overtaken' \subseteq ProjectPaths /\ child' = child
      /\ configured' = configured /\ server' = server /\ outside' = outside
  BY <1>0
<1>7. request'[r].kind = "untrust" => Projects!MayUntrust(request'[r].path)
  BY <1>2
<1> QED
  BY <1>2, <1>3, <1>4, <1>5, <1>6, <1>7, OneRequestMoves

LEMMA LooksStep ==
  ASSUME ProjectsInv, NEW r \in ProjectRequests,
         \/ \E p \in ProjectPaths : \/ Projects!UntrustLooks(r, p) \/ Projects!LaunchLooks(r, p)
                                    \/ Projects!SetupLooks(r, p)
         \/ \E perm \in Projects!SetToSeqs(Projects!ToSet(trusted)) : Projects!ReorderLooks(r, perm)
         \/ \E i \in Ids : Projects!ForgetLooks(r, i)
  PROVE  ProjectsInv'
<1>0. trusted \in Seq(ProjectPaths) /\ <<>> \in Seq(ProjectPaths)
  BY ProjectTypes DEF ProjectsInv
<1>1. ASSUME NEW p \in ProjectPaths, Projects!UntrustLooks(r, p) PROVE ProjectsInv'
  <2> DEFINE what == [Projects!Idle EXCEPT !.kind = "untrust", !.path = p]
  <2>1. PICK idle \in RequestRecords : idle = Projects!Idle
    BY IdleRecord
  <2>2. what \in RequestRecords /\ what.kind = "untrust" /\ what.path = p
    <3> DEFINE d == [idle EXCEPT !.kind = "untrust", !.path = p]
    <3>1. what = d
      BY <2>1
    <3>2. d \in RequestRecords /\ d.kind = "untrust" /\ d.path = p
      BY DEF RequestRecords
    <3> HIDE DEF what, d
    <3> QED
      BY <3>1, <3>2
  <2>3. /\ Projects!Asks(r, what) /\ Projects!MayUntrust(p)
        /\ UNCHANGED <<trusted, configured, child, server, outside, overtaken>>
    BY <1>1 DEF Projects!UntrustLooks
  <2> HIDE DEF what
  <2> QED
    BY <2>2, <2>3, AsksStep
<1>2. ASSUME NEW p \in ProjectPaths, Projects!LaunchLooks(r, p) PROVE ProjectsInv'
  <2> DEFINE what == [Projects!Idle EXCEPT !.kind = "launch", !.path = p]
  <2>1. PICK idle \in RequestRecords : idle = Projects!Idle
    BY IdleRecord
  <2>2. what \in RequestRecords /\ what.kind = "launch" /\ what.path = p
    <3> DEFINE d == [idle EXCEPT !.kind = "launch", !.path = p]
    <3>1. what = d
      BY <2>1
    <3>2. d \in RequestRecords /\ d.kind = "launch" /\ d.path = p
      BY DEF RequestRecords
    <3> HIDE DEF what, d
    <3> QED
      BY <3>1, <3>2
  <2>3. /\ Projects!Asks(r, what) /\ p \in Projects!ToSet(trusted)
        /\ UNCHANGED <<trusted, configured, child, server, outside, overtaken>>
    BY <1>2 DEF Projects!LaunchLooks
  <2>4. Wanted(p)
    BY <2>3 DEF Wanted
  <2> HIDE DEF what
  <2> QED
    BY <2>2, <2>3, <2>4, AsksStep
<1>3. ASSUME NEW p \in ProjectPaths, Projects!SetupLooks(r, p) PROVE ProjectsInv'
  <2> DEFINE what == [Projects!Idle EXCEPT !.kind = "setup", !.path = p]
  <2>1. PICK idle \in RequestRecords : idle = Projects!Idle
    BY IdleRecord
  <2>2. what \in RequestRecords /\ what.kind = "setup" /\ what.path = p
    <3> DEFINE d == [idle EXCEPT !.kind = "setup", !.path = p]
    <3>1. what = d
      BY <2>1
    <3>2. d \in RequestRecords /\ d.kind = "setup" /\ d.path = p
      BY DEF RequestRecords
    <3> HIDE DEF what, d
    <3> QED
      BY <3>1, <3>2
  <2>3. /\ Projects!Asks(r, what)
        /\ UNCHANGED <<trusted, configured, child, server, outside, overtaken>>
    BY <1>3 DEF Projects!SetupLooks
  <2> HIDE DEF what
  <2> QED
    BY <2>2, <2>3, AsksStep
<1>4. ASSUME NEW perm \in Projects!SetToSeqs(Projects!ToSet(trusted)), Projects!ReorderLooks(r, perm)
      PROVE  ProjectsInv'
  <2> DEFINE what == [Projects!Idle EXCEPT !.kind = "reorder", !.view = perm]
  <2>0. perm \in Seq(ProjectPaths) /\ Projects!IsInjective(perm)
    <3>1. Projects!ToSet(trusted) \subseteq ProjectPaths /\ IsFiniteSet(Projects!ToSet(trusted))
      BY <1>0, Names
    <3> QED
      BY <3>1, <1>4, Orders
  <2>1. PICK idle \in RequestRecords : idle = Projects!Idle
    BY IdleRecord
  <2>2. what \in RequestRecords /\ what.kind = "reorder" /\ what.view = perm
    <3> DEFINE d == [idle EXCEPT !.kind = "reorder", !.view = perm]
    <3>1. what = d
      BY <2>1
    <3>2. d \in RequestRecords /\ d.kind = "reorder" /\ d.view = perm
      BY <2>0 DEF RequestRecords
    <3> HIDE DEF what, d
    <3> QED
      BY <3>1, <3>2
  <2>3. /\ Projects!Asks(r, what)
        /\ UNCHANGED <<trusted, configured, child, server, outside, overtaken>>
    BY <1>4 DEF Projects!ReorderLooks
  <2> HIDE DEF what
  <2> QED
    BY <2>0, <2>2, <2>3, AsksStep
<1>5. ASSUME NEW i \in Ids, Projects!ForgetLooks(r, i) PROVE ProjectsInv'
  <2> DEFINE what == [Projects!Idle EXCEPT !.kind = "forget", !.id = i]
  <2>1. PICK idle \in RequestRecords : idle = Projects!Idle
    BY IdleRecord
  <2>2. what \in RequestRecords /\ what.kind = "forget" /\ what.id = i
    <3> DEFINE d == [idle EXCEPT !.kind = "forget", !.id = i]
    <3>1. what = d
      BY <2>1
    <3>2. d \in RequestRecords /\ d.kind = "forget" /\ d.id = i
      BY DEF RequestRecords
    <3> HIDE DEF what, d
    <3> QED
      BY <3>1, <3>2
  <2>3. /\ Projects!Asks(r, what) /\ child[i].state = "exited"
        /\ UNCHANGED <<trusted, configured, child, server, outside, overtaken>>
    BY <1>5 DEF Projects!ForgetLooks
  <2> HIDE DEF what
  <2> QED
    BY <2>2, <2>3, AsksStep
<1> QED
  BY <1>1, <1>2, <1>3, <1>4, <1>5

\* A trusted office is taken from the list, or the list is put into another order.
LEMMA ListStep ==
  ASSUME ProjectsInv, NEW r \in ProjectRequests, Projects!Untrust(r) \/ Projects!Reorder(r)
  PROVE  ProjectsInv'
<1>0. /\ request \in [ProjectRequests -> RequestRecords] /\ overtaken \subseteq ProjectPaths
      /\ trusted \in Seq(ProjectPaths) /\ Projects!IsInjective(trusted) /\ RequestInStep(r)
      /\ server \in {"serving", "closing", "forcing", "returned"}
      /\ outside \in [ProjectPaths -> {"no", "starting", "up"}] /\ budget \in 0..MaxProjectRequests
  BY ProjectTypes DEF ProjectsInv, Projects!TrustedOnce
<1>1. /\ request' = [request EXCEPT ![r] = Projects!Idle]
      /\ UNCHANGED <<configured, child, server, outside, budget>>
  BY DEF Projects!Untrust, Projects!Reorder, Projects!Answers
<1>2. Projects!Idle \in RequestRecords
  BY DEF Projects!Idle, RequestRecords
<1>3. request' \in [ProjectRequests -> RequestRecords] /\ request'[r] = Projects!Idle
      /\ \A q \in ProjectRequests : q # r => request'[q] = request[q]
  BY <1>0, <1>1, <1>2
<1>4. RequestInStep(r)' /\ request'[r].kind # "untrust"
  BY <1>3, IdleRecord DEF RequestInStep
<1>5. /\ child' = child /\ configured' = configured /\ server' = server /\ outside' = outside
      /\ budget' \in 0..MaxProjectRequests
  BY <1>0, <1>1
<1>6. CASE Projects!Untrust(r)
  <2>1. PICK p : p = request[r].path
    OBVIOUS
  <2> DEFINE t == Projects!RemoveFirst(trusted, p)
  <2>2. /\ request[r].kind = "untrust" /\ trusted' = t
        /\ overtaken' = overtaken \union {q \in {p} : Projects!Pending("launch", q)}
    BY <1>6, <2>1 DEF Projects!Untrust
  <2>3. p \in ProjectPaths /\ Projects!Pending("untrust", p)
    BY <1>0, <2>1, <2>2 DEF RequestInStep, Projects!Pending
  <2>4. t \in Seq(ProjectPaths) /\ Projects!IsInjective(t)
        /\ Projects!ToSet(t) = Projects!ToSet(trusted) \ {p}
    BY <1>0, Removed
  <2> HIDE DEF t
  <2>5. trusted' \in Seq(ProjectPaths) /\ Projects!IsInjective(trusted')
        /\ Projects!ToSet(trusted') = Projects!ToSet(trusted) \ {p}
    BY <2>2, <2>4 DEF Projects!IsInjective, Projects!ToSet
  <2>6. overtaken \subseteq overtaken' /\ overtaken' \subseteq ProjectPaths
        /\ (Projects!Pending("launch", p) => p \in overtaken')
    BY <1>0, <2>2, <2>3
  <2>7. \A q \in ProjectPaths :
           \/ q \in Projects!ToSet(trusted) => q \in Projects!ToSet(trusted')
           \/ Projects!Pending("untrust", q) /\ (Projects!Pending("launch", q) => q \in overtaken')
    BY <2>3, <2>5, <2>6
  <2> QED
    BY <1>3, <1>4, <1>5, <2>5, <2>6, <2>7, OneRequestMoves
<1>7. CASE Projects!Reorder(r)
  <2>1. /\ request[r].kind = "reorder" /\ overtaken' = overtaken
        /\ trusted' = IF Projects!SamePermutation(request[r].view) THEN request[r].view ELSE trusted
    BY <1>7 DEF Projects!Reorder
  <2>2. request[r].view \in Seq(ProjectPaths) /\ Projects!IsInjective(request[r].view)
    BY <1>0, <2>1 DEF RequestInStep, RequestRecords
  <2>3. trusted' \in Seq(ProjectPaths) /\ Projects!IsInjective(trusted')
        /\ Projects!ToSet(trusted') = Projects!ToSet(trusted)
    BY <1>0, <2>1, <2>2 DEF Projects!IsInjective, Projects!SamePermutation, Projects!ToSet
  <2>4. overtaken \subseteq overtaken' /\ overtaken' \subseteq ProjectPaths
        /\ \A p \in ProjectPaths : p \in Projects!ToSet(trusted) => p \in Projects!ToSet(trusted')
    BY <1>0, <2>1, <2>3
  <2> QED
    BY <1>3, <1>4, <1>5, <2>3, <2>4, OneRequestMoves
<1> QED
  BY <1>6, <1>7

\* An office is trusted, one is run outside, and the server closes.
LEMMA ServerStep ==
  ASSUME ProjectsInv,
         \/ \E p \in ProjectPaths : Projects!TrustProject(p) \/ Projects!OutsideMoves(p)
         \/ Projects!CloseBegins \/ Projects!Deadline \/ Projects!CloseReturns
  PROVE  ProjectsInv'
<1>0. /\ request \in [ProjectRequests -> RequestRecords] /\ overtaken \subseteq ProjectPaths
      /\ trusted \in Seq(ProjectPaths) /\ Projects!IsInjective(trusted)
      /\ server \in {"serving", "closing", "forcing", "returned"}
      /\ outside \in [ProjectPaths -> {"no", "starting", "up"}] /\ budget \in 0..MaxProjectRequests
  BY ProjectTypes DEF ProjectsInv, Projects!TrustedOnce
<1>1. UNCHANGED <<configured, child, request, overtaken>>
  BY DEF Projects!TrustProject, Projects!OutsideMoves, Projects!CloseBegins, Projects!Deadline,
     Projects!CloseReturns
<1>2. /\ server' \in {"serving", "closing", "forcing", "returned"}
      /\ server' = "returned" => server = "returned" \/ Projects!MayReturn
  BY <1>0 DEF Projects!TrustProject, Projects!OutsideMoves, Projects!CloseBegins, Projects!Deadline,
     Projects!CloseReturns
<1>3. budget' \in 0..MaxProjectRequests
  <2>1. budget' = budget \/ (budget > 0 /\ budget' = budget - 1)
    BY DEF Projects!TrustProject, Projects!OutsideMoves, Projects!CloseBegins, Projects!Deadline,
       Projects!CloseReturns
  <2> QED
    BY <1>0, <2>1, OneLess
<1>4. outside' \in [ProjectPaths -> {"no", "starting", "up"}]
  <2>1. CASE outside' = outside
    BY <1>0, <2>1
  <2>2. ASSUME NEW p \in ProjectPaths, Projects!OutsideMoves(p)
        PROVE  outside' \in [ProjectPaths -> {"no", "starting", "up"}]
    BY <1>0, <2>2 DEF Projects!OutsideMoves
  <2>3. outside' = outside \/ \E p \in ProjectPaths : Projects!OutsideMoves(p)
    BY DEF Projects!TrustProject, Projects!CloseBegins, Projects!Deadline, Projects!CloseReturns
  <2> QED
    BY <2>1, <2>2, <2>3
<1>5. /\ trusted' \in Seq(ProjectPaths) /\ Projects!IsInjective(trusted')
      /\ \A p \in ProjectPaths : p \in Projects!ToSet(trusted) => p \in Projects!ToSet(trusted')
  <2>1. CASE trusted' = trusted
    BY <1>0, <2>1 DEF Projects!IsInjective, Projects!ToSet
  <2>2. ASSUME NEW p \in ProjectPaths, Projects!TrustProject(p)
        PROVE  /\ trusted' \in Seq(ProjectPaths) /\ Projects!IsInjective(trusted')
               /\ \A q \in ProjectPaths : q \in Projects!ToSet(trusted) => q \in Projects!ToSet(trusted')
    <3> DEFINE t == Projects!WithTrust(p)
    <3>1. t \in Seq(ProjectPaths) /\ Projects!IsInjective(t)
          /\ Projects!ToSet(t) = Projects!ToSet(trusted) \cup {p}
      BY WithTrustKeeps DEF ProjectsInv
    <3>2. trusted' = t
      BY <2>2 DEF Projects!TrustProject
    <3> HIDE DEF t
    <3> QED
      BY <3>1, <3>2 DEF Projects!IsInjective, Projects!ToSet
  <2>3. trusted' = trusted \/ \E p \in ProjectPaths : Projects!TrustProject(p)
    BY DEF Projects!OutsideMoves, Projects!CloseBegins, Projects!Deadline, Projects!CloseReturns
  <2> QED
    BY <2>1, <2>2, <2>3
<1> DEFINE moved == {}
<1>6. /\ moved \in SUBSET ProjectRequests
      /\ \A q \in ProjectRequests \ moved : request'[q] = request[q]
      /\ \A q \in moved : FALSE
  BY <1>1
<1> HIDE DEF moved
<1> QED
  BY <1>0, <1>1, <1>2, <1>3, <1>4, <1>5, <1>6, RequestMoves

-----------------------------------------------------------------------------
LEMMA ProjectsStep ==
  ASSUME ProjectsInv, Projects!Next
  PROVE  ProjectsInv'
<1>0. budget \in 0..MaxProjectRequests
  BY ProjectTypes DEF ProjectsInv
<1>1. ASSUME NEW i \in Ids, Projects!Kill(i) \/ Projects!ForceKill(i) \/ Projects!CloseAsks(i)
      PROVE  ProjectsInv'
  <2>1. \/ Projects!KillBegins(i) /\ server' = server /\ (budget' = budget \/ (budget > 0 /\ budget' = budget - 1))
        \/ /\ Projects!EstopInstance(i)
           /\ UNCHANGED <<trusted, configured, request, overtaken, server, budget>>
    BY <1>1 DEF Projects!Kill, Projects!ForceKill, Projects!CloseAsks
  <2>2. (budget' = budget \/ (budget > 0 /\ budget' = budget - 1)) => budget' \in 0..MaxProjectRequests
    BY <1>0, OneLess
  <2> QED
    BY <2>1, <2>2, ChildKilled, ChildLives
<1>2. ASSUME NEW i \in Ids,
             \/ Projects!OfficeOpens(i) \/ Projects!Exited(i) \/ Projects!OnExit(i)
             \/ Projects!WatchdogStops(i) \/ \E a \in OfficeAgents : Projects!AgentStarts(i, a)
             \/ \E ok \in BOOLEAN : Projects!ChildEnds(i, ok)
             \/ \E orphans \in SUBSET OfficeAgents : Projects!OfficeCrashes(i, orphans)
             \/ Projects!Estop(i) \/ Projects!KillLists(i) \/ Projects!KillEnds(i)
      PROVE  ProjectsInv'
  BY <1>2, ChildLives, ChildIsOver, OfficeIsLost, ChildIsDone, ChildKilled
<1>3. ASSUME NEW r \in ProjectRequests,
             \/ \E p \in ProjectPaths : \/ Projects!UntrustLooks(r, p) \/ Projects!LaunchLooks(r, p)
                                        \/ Projects!SetupLooks(r, p)
             \/ \E perm \in Projects!SetToSeqs(Projects!ToSet(trusted)) : Projects!ReorderLooks(r, perm)
             \/ \E i \in Ids : Projects!ForgetLooks(r, i)
      PROVE  ProjectsInv'
  BY <1>3, LooksStep
<1>4. ASSUME NEW r \in ProjectRequests,
             Projects!Untrust(r) \/ Projects!Reorder(r) \/ Projects!Start(r) \/ Projects!Forget(r)
      PROVE  ProjectsInv'
  BY <1>4, ListStep, StartStep, ChildForgotten
<1> QED
  BY <1>1, <1>2, <1>3, <1>4, StartShellStep, ServerStep DEF Projects!Next

\* ProjectsInv holds in every state.
LEMMA ProjectsCorrect == Spec => []ProjectsInv
<1>1. Init => ProjectsInv
  <2> SUFFICES ASSUME Init PROVE ProjectsInv
    OBVIOUS
  <2>1. Projects!Init
    BY DEF Init
  <2>2. PICK q \in ProjectPaths : trusted = <<q>>
    BY <2>1 DEF Projects!Init
  <2>3. trusted \in Seq(ProjectPaths) /\ Projects!IsInjective(trusted) /\ trusted[1] = q
    <3>1. <<q>> \in Seq(ProjectPaths) /\ Len(<<q>>) = 1 /\ <<q>>[1] = q
      OBVIOUS
    <3>2. trusted \in Seq(ProjectPaths) /\ Len(trusted) = 1 /\ trusted[1] = q
      BY <2>2, <3>1
    <3>3. Projects!IsInjective(trusted) <=> \A i, j \in 1..Len(trusted) : trusted[i] = trusted[j] => i = j
      BY <3>2, Names
    <3> QED
      BY <3>2, <3>3
  <2>4. configured \subseteq ProjectPaths
    BY <2>1, <2>3 DEF Projects!Init
  <2>5. Projects!NoChild \in ChildRecords
    BY DEF Projects!NoChild, ChildRecords
  <2>6. Projects!Idle \in RequestRecords
    <3>1. <<>> \in Seq(ProjectPaths)
      OBVIOUS
    <3> QED
      BY <3>1 DEF Projects!Idle, RequestRecords
  <2>7. /\ child = [i \in Ids |-> Projects!NoChild] /\ request = [r \in ProjectRequests |-> Projects!Idle]
        /\ server = "serving" /\ outside = [p \in ProjectPaths |-> "no"]
        /\ overtaken = {} /\ budget = MaxProjectRequests
    BY <2>1 DEF Projects!Init
  <2>8. child \in [Ids -> ChildRecords] /\ request \in [ProjectRequests -> RequestRecords]
    BY <2>5, <2>6, <2>7
  <2>9. Projects!TypeOK
    <3>1. MaxProjectRequests \in 0..MaxProjectRequests
      BY HomeConstants
    <3> QED
      BY <2>3, <2>4, <2>7, <2>8, <3>1 DEF Projects!TypeOK, ChildRecords, RequestRecords
  <2>10. ASSUME NEW i \in Ids
         PROVE  ChildInStep(i) /\ KillInStep(i) /\ OfficeWanted(i) /\ ~Projects!Living(i)
    BY <2>7 DEF ChildInStep, KillInStep, OfficeWanted, Projects!NoChild, Projects!Living
  <2>11. \A r \in ProjectRequests : RequestInStep(r)
    BY <2>7 DEF RequestInStep, Projects!Idle
  <2>12. Projects!OneOfficePerPath /\ Projects!ClosedLeavesOnlyStrays /\ Projects!TrustedOnce
    BY <2>3, <2>7, <2>10 DEF Projects!OneOfficePerPath, Projects!ClosedLeavesOnlyStrays, Projects!TrustedOnce
  <2> QED
    BY <2>9, <2>10, <2>11, <2>12 DEF ProjectsInv
<1>2. ASSUME ProjectsInv, UNCHANGED projectVars PROVE ProjectsInv'
  <2>1. UNCHANGED <<trusted, configured, child, request, server, outside, overtaken, budget>>
    BY <1>2 DEF projectVars
  <2>2. Projects!TypeOK' /\ Projects!TrustedOnce' /\ Projects!OneOfficePerPath' /\ Projects!ClosedLeavesOnlyStrays'
    BY <1>2, <2>1 DEF ProjectsInv, Projects!TypeOK, Projects!TrustedOnce, Projects!IsInjective,
       Projects!OneOfficePerPath, Projects!Living, Projects!ClosedLeavesOnlyStrays
  <2>3. \A i \in Ids : ChildInStep(i)' /\ KillInStep(i)' /\ OfficeWanted(i)'
    BY <1>2, <2>1 DEF ProjectsInv, ChildInStep, KillInStep, OfficeWanted, Wanted, Projects!ToSet,
       Projects!Pending
  <2>4. \A r \in ProjectRequests : RequestInStep(r)'
    BY <1>2, <2>1 DEF ProjectsInv, RequestInStep, Wanted, Projects!ToSet, Projects!IsInjective
  <2> QED
    BY <2>2, <2>3, <2>4 DEF ProjectsInv
<1>3. ProjectsInv /\ [Next]_vars => ProjectsInv'
  BY <1>2, ProjectMoves, ProjectsStep
<1> QED
  BY <1>1, <1>3, PTL DEF Spec

LEMMA ProjectsTypesHold == Spec => []Projects!TypeOK
<1>1. ProjectsInv => Projects!TypeOK
  BY DEF ProjectsInv
<1> QED
  BY <1>1, ProjectsCorrect, PTL

\* However launches, removals, exits and kills overlap: there is one office for a
\* directory, it is listed, and it is trusted but for a launch that an untrust of
\* its own directory overlapped.  A kill whose signal and listing worked leaves no
\* agent, and a closed company leaves only the children whose stop was refused and
\* the agents that a crash or a failed listing hides (server.go, manager.go,
\* process_unix.go).
THEOREM OfficesAreOne == Spec => [](part = "projects" => Projects!ProjectsAreTrue)
<1>1. ProjectsInv => Projects!ProjectsAreTrue
  <2> SUFFICES ASSUME ProjectsInv PROVE Projects!ProjectsAreTrue
    OBVIOUS
  <2>1. ASSUME NEW i \in Ids
        PROVE  /\ Projects!Living(i) =>
                    child[i].listed /\ (child[i].mode # "setup" => child[i].token)
               /\ child[i].mode = "omo" /\ child[i].state = "running" /\ Projects!Living(i) =>
                    child[i].path \in Projects!ToSet(trusted) \union overtaken
               /\ child[i].kill = "done" /\ child[i].left = "no" => child[i].agents = {}
    BY DEF ProjectsInv, ChildInStep, KillInStep, OfficeWanted, Wanted, Projects!Living
  <2> QED
    BY <2>1 DEF ProjectsInv, Projects!ProjectsAreTrue, Projects!LivingIsListed,
       Projects!OfficesAreTrusted, Projects!KilledIsGone
<1> QED
  BY <1>1, ProjectsCorrect, PTL

\* The list of trusted offices loses one only when it is untrusted, and gains only
\* offices that exist (globalhome.Home).
THEOREM TrustStays == Spec => Projects!TrustIsKept
<1> DEFINE Kept ==
      \A p \in ProjectPaths :
        /\ (p \in Projects!ToSet(trusted) /\ p \notin Projects!ToSet(trusted'))
           => \E r \in ProjectRequests : request[r].kind = "untrust" /\ request[r].path = p
        /\ (p \notin Projects!ToSet(trusted) /\ p \in Projects!ToSet(trusted')) => p \in configured
<1>1. ASSUME ProjectsInv, Projects!Next PROVE Kept
  <2>0. trusted \in Seq(ProjectPaths) /\ Projects!IsInjective(trusted)
    BY <1>1, ProjectTypes DEF ProjectsInv, Projects!TrustedOnce
  <2>1. CASE trusted' = trusted
    BY <2>1 DEF Projects!ToSet
  <2>2. ASSUME NEW q \in ProjectPaths, q \in configured, trusted' = Projects!WithTrust(q)
        PROVE  Kept
    <3> DEFINE t == Projects!WithTrust(q)
    <3>1. Projects!ToSet(t) = Projects!ToSet(trusted) \cup {q}
      BY <1>1, WithTrustKeeps DEF ProjectsInv
    <3>2. trusted' = t
      BY <2>2
    <3> HIDE DEF t
    <3>3. Projects!ToSet(trusted') = Projects!ToSet(trusted) \cup {q}
      BY <3>1, <3>2 DEF Projects!ToSet
    <3> QED
      BY <2>2, <3>3
  <2>3. ASSUME NEW r \in ProjectRequests, Projects!Untrust(r) PROVE Kept
    <3>1. PICK q : q = request[r].path
      OBVIOUS
    <3> DEFINE t == Projects!RemoveFirst(trusted, q)
    <3>2. request[r].kind = "untrust" /\ trusted' = t
      BY <2>3, <3>1 DEF Projects!Untrust
    <3>3. Projects!ToSet(t) = Projects!ToSet(trusted) \ {q}
      BY <2>0, Removed
    <3> HIDE DEF t
    <3>4. Projects!ToSet(trusted') = Projects!ToSet(trusted) \ {q}
      BY <3>2, <3>3 DEF Projects!ToSet
    <3> QED
      BY <3>1, <3>2, <3>4
  <2>4. ASSUME NEW r \in ProjectRequests, Projects!Reorder(r) PROVE Kept
    <3>1. trusted' = trusted \/ (trusted' = request[r].view /\ Projects!SamePermutation(request[r].view))
      BY <2>4 DEF Projects!Reorder
    <3>2. Projects!ToSet(trusted') = Projects!ToSet(trusted)
      BY <3>1 DEF Projects!SamePermutation, Projects!ToSet
    <3> QED
      BY <3>2
  <2>5. ASSUME NEW i \in Ids, Projects!OnExit(i) PROVE Kept
    <3>1. trusted' = trusted \/ (child[i].ok /\ trusted' = Projects!WithTrust(child[i].path))
      BY <2>5 DEF Projects!OnExit
    <3>2. child[i].path \in ProjectPaths /\ (child[i].ok => child[i].path \in configured)
      BY <1>1, <2>5 DEF ProjectsInv, ChildInStep, Projects!OnExit
    <3> HIDE DEF Kept
    <3> QED
      BY <2>1, <2>2, <3>1, <3>2
  <2>6. ASSUME NEW q \in ProjectPaths, Projects!TrustProject(q) PROVE Kept
    <3> HIDE DEF Kept
    <3> QED
      BY <2>2, <2>6 DEF Projects!TrustProject
  <2>7. \/ trusted' = trusted
        \/ \E r \in ProjectRequests : Projects!Untrust(r) \/ Projects!Reorder(r)
        \/ \E i \in Ids : Projects!OnExit(i)
        \/ \E q \in ProjectPaths : Projects!TrustProject(q)
    <3>1. ASSUME NEW r \in ProjectRequests,
                 \/ \E p \in ProjectPaths : \/ Projects!UntrustLooks(r, p) \/ Projects!LaunchLooks(r, p)
                                            \/ Projects!SetupLooks(r, p)
                 \/ \E perm \in Projects!SetToSeqs(Projects!ToSet(trusted)) : Projects!ReorderLooks(r, perm)
                 \/ \E i \in Ids : Projects!ForgetLooks(r, i)
                 \/ Projects!Start(r) \/ Projects!Forget(r)
          PROVE  trusted' = trusted
      BY <3>1 DEF Projects!UntrustLooks, Projects!LaunchLooks, Projects!SetupLooks,
         Projects!ReorderLooks, Projects!ForgetLooks, Projects!Start, Projects!Forget
    <3>2. ASSUME NEW i \in Ids,
                 \/ Projects!OfficeOpens(i) \/ Projects!Exited(i) \/ Projects!WatchdogStops(i)
                 \/ \E a \in OfficeAgents : Projects!AgentStarts(i, a)
                 \/ \E ok \in BOOLEAN : Projects!ChildEnds(i, ok)
                 \/ \E orphans \in SUBSET OfficeAgents : Projects!OfficeCrashes(i, orphans)
                 \/ Projects!Estop(i) \/ Projects!Kill(i) \/ Projects!KillLists(i)
                 \/ Projects!KillEnds(i) \/ Projects!CloseAsks(i) \/ Projects!ForceKill(i)
          PROVE  trusted' = trusted
      BY <3>2 DEF Projects!OfficeOpens, Projects!Exited, Projects!WatchdogStops, Projects!AgentStarts,
         Projects!ChildEnds, Projects!OfficeCrashes, Projects!Estop, Projects!Kill, Projects!KillLists, Projects!KillEnds,
         Projects!CloseAsks, Projects!ForceKill, Projects!KillBegins, Projects!EstopInstance
    <3>3. ASSUME \/ \E p \in ProjectPaths : Projects!StartShell(p) \/ Projects!OutsideMoves(p)
                 \/ Projects!CloseBegins \/ Projects!Deadline \/ Projects!CloseReturns
          PROVE  trusted' = trusted
      BY <3>3 DEF Projects!StartShell, Projects!OutsideMoves, Projects!CloseBegins,
         Projects!Deadline, Projects!CloseReturns
    <3> QED
      BY <1>1, <3>1, <3>2, <3>3 DEF Projects!Next
  <2> HIDE DEF Kept
  <2> QED
    BY <2>1, <2>3, <2>4, <2>5, <2>6, <2>7
<1>2. ProjectsInv /\ [Next]_vars => [Kept]_Projects!projectVars
  <2> SUFFICES ASSUME ProjectsInv, [Next]_vars PROVE Kept \/ UNCHANGED Projects!projectVars
    OBVIOUS
  <2>1. CASE Projects!Next
    BY <1>1, <2>1
  <2>2. CASE UNCHANGED projectVars
    BY <2>2 DEF projectVars, Projects!projectVars
  <2> QED
    BY <2>1, <2>2, ProjectMoves
<1> HIDE DEF Kept
<1>3. []ProjectsInv /\ [][Next]_vars => [][Kept]_Projects!projectVars
  BY <1>2, PTL
<1> QED
  BY <1>3, ProjectsCorrect, PTL DEF Spec, Projects!TrustIsKept, Kept

-----------------------------------------------------------------------------
(* The terminal UI.                                                         *)

LEMMA TuiMoves ==
  ASSUME [Next]_vars
  PROVE  Tui!Next \/ UNCHANGED tuiVars
  BY DEF Next, vars, Others

TuiModes == {"overview", "peek", "quit_confirm", "compose_message", "detail",
             "safe_shutdown_confirm", "action_menu", "command_console", "prompt_input", "quit"}
TuiTypes ==
  /\ observer \in BOOLEAN /\ readOnly \in BOOLEAN /\ mode \in TuiModes
  /\ returnMode \in {"overview", "peek"} /\ tab \in Tui!Tabs /\ agents \subseteq TuiAgents
  /\ manual \in [TuiPlugins -> {"idle", "choosing", "running"}] /\ commands \in Nat
  /\ console \in [screen : {"browse", "form", "confirm", "raw"}, running : BOOLEAN]
  /\ detail.back \in {"overview", "peek"}

\* The overview lists what was drawn; a detail or a question returns to where the user
\* may not type; an observer has no screens to act from.
ScreensFit ==
  /\ mode = "overview" => cache.loaded
  /\ mode = "quit_confirm" => returnMode = "overview"
  /\ mode = "detail" /\ detail.back = "peek" => readOnly
  /\ observer => /\ mode \in {"overview", "quit_confirm", "detail", "quit"} /\ tab \in Tui!Listed
                 /\ mode = "detail" => detail.back = "overview"
TuiInv == TuiTypes /\ ScreensFit /\ Tui!InteractionIsShown /\ Tui!OneAtATime

LEMMA ViewLoads ==
  ASSUME Tui!View
  PROVE  mode' = "overview" => cache'.loaded
  BY DEF Tui!View, Tui!Loaded

\* The overview.
LEMMA OverviewStep ==
  ASSUME TuiInv, Tui!Overview
  PROVE  TuiInv'
<1>1. ASSUME NEW t \in Tui!Tabs, Tui!SelectTab(t) PROVE TuiInv'
  BY <1>1, ViewLoads DEF Tui!SelectTab, Tui!TabOpen, TuiInv, TuiTypes, ScreensFit, TuiModes,
     Tui!InteractionIsShown, Tui!OneAtATime, Tui!In, Tui!KeepInteraction,
     Tui!SetInteraction, Tui!position, Tui!dialogs, Tui!background, Tui!office
<1>2. ASSUME NEW i \in 1..2, Tui!SelectRow(i) PROVE TuiInv'
  BY <1>2, ViewLoads DEF Tui!SelectRow, TuiInv, TuiTypes, ScreensFit, TuiModes, Tui!InteractionIsShown,
     Tui!OneAtATime, Tui!In, Tui!KeepInteraction, Tui!SetInteraction, Tui!position,
     Tui!dialogs, Tui!background, Tui!office
<1>3. CASE Tui!AsksToQuit
  BY <1>3, ViewLoads DEF Tui!AsksToQuit, TuiInv, TuiTypes, ScreensFit, TuiModes, Tui!InteractionIsShown,
     Tui!OneAtATime, Tui!In, Tui!KeepInteraction, Tui!SetInteraction, Tui!position,
     Tui!dialogs, Tui!background, Tui!office
<1>4. CASE Tui!OpenPeek
  BY <1>4, ViewLoads DEF Tui!OpenPeek, Tui!DefaultReadOnly, TuiInv, TuiTypes, ScreensFit, TuiModes,
     Tui!InteractionIsShown, Tui!OneAtATime, Tui!In, Tui!KeepInteraction,
     Tui!SetInteraction, Tui!position, Tui!dialogs, Tui!background, Tui!office
<1>5. CASE Tui!OpenDetail
  BY <1>5, ViewLoads DEF Tui!OpenDetail, Tui!NoDetail, TuiInv, TuiTypes, ScreensFit, TuiModes,
     Tui!InteractionIsShown, Tui!OneAtATime, Tui!In, Tui!KeepInteraction,
     Tui!SetInteraction, Tui!position, Tui!dialogs, Tui!background, Tui!office
<1>6. CASE Tui!OpenMenu
  BY <1>6, ViewLoads DEF Tui!OpenMenu, TuiInv, TuiTypes, ScreensFit, TuiModes, Tui!InteractionIsShown,
     Tui!OneAtATime, Tui!In, Tui!KeepInteraction, Tui!SetInteraction, Tui!position,
     Tui!dialogs, Tui!background, Tui!office
<1>7. CASE Tui!ComposeFromOverview
  BY <1>7, ViewLoads DEF Tui!ComposeFromOverview, Tui!OpensComposer, TuiInv, TuiTypes, ScreensFit, TuiModes,
     Tui!InteractionIsShown, Tui!OneAtATime, Tui!In, Tui!KeepInteraction,
     Tui!SetInteraction, Tui!position, Tui!dialogs, Tui!background, Tui!office
<1>8. CASE Tui!OpenConsole
  BY <1>8, ViewLoads DEF Tui!OpenConsole, Tui!Listed, TuiInv, TuiTypes, ScreensFit, TuiModes,
     Tui!InteractionIsShown, Tui!OneAtATime, Tui!In, Tui!KeepInteraction,
     Tui!SetInteraction, Tui!position, Tui!dialogs, Tui!background, Tui!office
<1>9. CASE Tui!OpenPromptInput
  BY <1>9, ViewLoads DEF Tui!OpenPromptInput, Tui!Listed, TuiInv, TuiTypes, ScreensFit, TuiModes,
     Tui!InteractionIsShown, Tui!OneAtATime, Tui!In, Tui!KeepInteraction,
     Tui!SetInteraction, Tui!position, Tui!dialogs, Tui!background, Tui!office
<1> QED
  BY <1>1, <1>2, <1>3, <1>4, <1>5, <1>6, <1>7, <1>8, <1>9 DEF Tui!Overview

\* The peek.
LEMMA PeekStep ==
  ASSUME TuiInv, Tui!Peek
  PROVE  TuiInv'
<1>1. CASE Tui!LeavePeek
  BY <1>1, ViewLoads DEF Tui!LeavePeek, TuiInv, TuiTypes, ScreensFit, TuiModes, Tui!InteractionIsShown,
     Tui!OneAtATime, Tui!In, Tui!KeepInteraction, Tui!SetInteraction, Tui!position,
     Tui!dialogs, Tui!background, Tui!office
<1>2. CASE Tui!ToggleWritable
  BY <1>2, ViewLoads DEF Tui!ToggleWritable, TuiInv, TuiTypes, ScreensFit, TuiModes, Tui!InteractionIsShown,
     Tui!OneAtATime, Tui!In, Tui!KeepInteraction, Tui!SetInteraction, Tui!position,
     Tui!dialogs, Tui!background, Tui!office
<1>3. CASE Tui!TypeIntoPeek
  BY <1>3, ViewLoads DEF Tui!TypeIntoPeek, TuiInv, TuiTypes, ScreensFit, TuiModes, Tui!InteractionIsShown,
     Tui!OneAtATime, Tui!In, Tui!KeepInteraction, Tui!SetInteraction, Tui!position,
     Tui!dialogs, Tui!background, Tui!office
<1>4. CASE Tui!ComposeFromPeek
  BY <1>4, ViewLoads DEF Tui!ComposeFromPeek, Tui!OpensComposer, TuiInv, TuiTypes, ScreensFit, TuiModes,
     Tui!InteractionIsShown, Tui!OneAtATime, Tui!In, Tui!KeepInteraction,
     Tui!SetInteraction, Tui!position, Tui!dialogs, Tui!background, Tui!office
<1>5. CASE Tui!OpenReadyPrompt
  BY <1>5, ViewLoads DEF Tui!OpenReadyPrompt, TuiInv, TuiTypes, ScreensFit, TuiModes, Tui!InteractionIsShown,
     Tui!OneAtATime, Tui!In, Tui!KeepInteraction, Tui!SetInteraction, Tui!position,
     Tui!dialogs, Tui!background, Tui!office
<1> QED
  BY <1>1, <1>2, <1>3, <1>4, <1>5 DEF Tui!Peek

\* The dialogs.
LEMMA DialogStep ==
  ASSUME TuiInv, Tui!QuitConfirm \/ Tui!SafeShutdownConfirm \/ Tui!Composer \/ Tui!ActionMenu \/ Tui!PromptInput
  PROVE  TuiInv'
<1>1. CASE Tui!QuitConfirm
  BY <1>1, ViewLoads DEF Tui!QuitConfirm, Tui!Goes, TuiInv, TuiTypes, ScreensFit, TuiModes,
     Tui!InteractionIsShown, Tui!OneAtATime, Tui!In, Tui!KeepInteraction,
     Tui!SetInteraction, Tui!position, Tui!dialogs, Tui!background, Tui!office
<1>2. CASE Tui!SafeShutdownConfirm
  BY <1>2, ViewLoads DEF Tui!SafeShutdownConfirm, Tui!Goes, TuiInv, TuiTypes, ScreensFit, TuiModes,
     Tui!InteractionIsShown, Tui!OneAtATime, Tui!In, Tui!KeepInteraction,
     Tui!SetInteraction, Tui!position, Tui!dialogs, Tui!background, Tui!office
<1>3. CASE Tui!Composer
  BY <1>3, ViewLoads DEF Tui!Composer, Tui!Goes, TuiInv, TuiTypes, ScreensFit, TuiModes, Tui!InteractionIsShown,
     Tui!OneAtATime, Tui!In, Tui!KeepInteraction, Tui!SetInteraction, Tui!position,
     Tui!dialogs, Tui!background, Tui!office
<1>4. CASE Tui!ActionMenu
  BY <1>4, ViewLoads DEF Tui!ActionMenu, TuiInv, TuiTypes, ScreensFit, TuiModes, Tui!InteractionIsShown,
     Tui!OneAtATime, Tui!In, Tui!KeepInteraction, Tui!SetInteraction, Tui!position,
     Tui!dialogs, Tui!background, Tui!office
<1>5. CASE Tui!PromptInput
  BY <1>5, ViewLoads DEF Tui!PromptInput, Tui!Goes, Tui!NoDetail, TuiInv, TuiTypes, ScreensFit, TuiModes,
     Tui!InteractionIsShown, Tui!OneAtATime, Tui!In, Tui!KeepInteraction,
     Tui!SetInteraction, Tui!position, Tui!dialogs, Tui!background, Tui!office
<1> QED
  BY <1>1, <1>2, <1>3, <1>4, <1>5

\* A detail and the manual actions of a plugin.
LEMMA DetailStep ==
  ASSUME TuiInv, Tui!Detail \/ \E p \in TuiPlugins : Tui!FinishManualPlugin(p)
  PROVE  TuiInv'
<1>1. CASE Tui!LeaveDetail
  BY <1>1, ViewLoads DEF Tui!LeaveDetail, Tui!Goes, Tui!NoDetail, TuiInv, TuiTypes, ScreensFit, TuiModes,
     Tui!InteractionIsShown, Tui!OneAtATime, Tui!In, Tui!KeepInteraction,
     Tui!SetInteraction, Tui!position, Tui!dialogs, Tui!background, Tui!office
<1>2. CASE Tui!ChooseAction
  BY <1>2, ViewLoads DEF Tui!ChooseAction, Tui!Stays, TuiInv, TuiTypes, ScreensFit, TuiModes,
     Tui!InteractionIsShown, Tui!OneAtATime, Tui!In, Tui!KeepInteraction,
     Tui!SetInteraction, Tui!position, Tui!dialogs, Tui!background, Tui!office
<1>3. CASE Tui!LeaveChoice
  BY <1>3, ViewLoads DEF Tui!LeaveChoice, Tui!Stays, TuiInv, TuiTypes, ScreensFit, TuiModes,
     Tui!InteractionIsShown, Tui!OneAtATime, Tui!In, Tui!KeepInteraction,
     Tui!SetInteraction, Tui!position, Tui!dialogs, Tui!background, Tui!office
<1>4. CASE Tui!StartManualPlugin
  <2>1. PICK q : q = Tui!Shown
    OBVIOUS
  <2>2. /\ manual' = [manual EXCEPT ![q] = "running"] /\ triggers' = triggers \cup {q}
        /\ UNCHANGED <<observer, tab, mode, peek, readOnly, returnMode, detail, agents, interaction,
                       console, commands>> /\ Tui!View
    BY <1>4, <2>1 DEF Tui!StartManualPlugin, Tui!Stays, Tui!position, Tui!dialogs, Tui!office,
       Tui!KeepInteraction
  <2>3. manual' \in [TuiPlugins -> {"idle", "choosing", "running"}]
    BY <2>2 DEF TuiInv, TuiTypes
  <2>4. ASSUME NEW p \in TuiPlugins PROVE (manual'[p] = "running") <=> (p \in triggers')
    BY <2>2 DEF TuiInv, TuiTypes, Tui!OneAtATime
  <2>5. Tui!OneAtATime'
    BY <2>2, <2>4 DEF TuiInv, Tui!OneAtATime
  <2> QED
    BY <2>2, <2>3, <2>5, ViewLoads DEF TuiInv, TuiTypes, ScreensFit, Tui!InteractionIsShown, Tui!In
<1>5. ASSUME NEW p \in TuiPlugins, Tui!FinishManualPlugin(p) PROVE TuiInv'
  BY <1>5, ViewLoads DEF Tui!FinishManualPlugin, Tui!Stays, TuiInv, TuiTypes, ScreensFit, TuiModes,
     Tui!InteractionIsShown, Tui!OneAtATime, Tui!In, Tui!KeepInteraction,
     Tui!SetInteraction, Tui!position, Tui!dialogs, Tui!background, Tui!office
<1> QED
  BY <1>1, <1>2, <1>3, <1>4, <1>5 DEF Tui!Detail

\* One command more, or none, on the console.
LEMMA ConsoleKeeps ==
  ASSUME TuiInv, NEW new \in [screen : {"browse", "form", "confirm", "raw"}, running : BOOLEAN],
         Tui!Console(new), commands' = IF new.running THEN 1 ELSE 0
  PROVE  TuiInv'
  BY ViewLoads DEF Tui!Console, Tui!Stays, TuiInv, TuiTypes, ScreensFit, TuiModes, Tui!InteractionIsShown,
     Tui!OneAtATime, Tui!In, Tui!KeepInteraction, Tui!SetInteraction, Tui!position,
     Tui!dialogs, Tui!background, Tui!office

LEMMA StartsCommand ==
  ASSUME TuiInv, NEW new \in [screen : {"browse", "form", "confirm", "raw"}, running : BOOLEAN],
         new.running = console.running, Tui!StartCommand(new)
  PROVE  TuiInv'
<1>1. CASE console.running
  <2>1. Tui!Console(new) /\ commands' = commands
    BY <1>1 DEF Tui!StartCommand
  <2> QED
    BY <1>1, <2>1, ConsoleKeeps DEF TuiInv, Tui!OneAtATime
<1>2. CASE ~console.running
  <2> DEFINE c == [new EXCEPT !.running = TRUE]
  <2>1. c \in [screen : {"browse", "form", "confirm", "raw"}, running : BOOLEAN] /\ c.running
    OBVIOUS
  <2>2. Tui!Console(c) /\ commands' = commands + 1
    BY <1>2 DEF Tui!StartCommand
  <2> HIDE DEF c
  <2>3. commands' = 1
    BY <1>2, <2>2 DEF TuiInv, Tui!OneAtATime
  <2> QED
    BY <2>1, <2>2, <2>3, ConsoleKeeps
<1> QED
  BY <1>1, <1>2

\* The command console.
LEMMA ConsoleStep ==
  ASSUME TuiInv, Tui!CommandConsole \/ Tui!FinishCommand
  PROVE  TuiInv'
<1>0. console \in [screen : {"browse", "form", "confirm", "raw"}, running : BOOLEAN]
      /\ commands = (IF console.running THEN 1 ELSE 0)
  BY DEF TuiInv, TuiTypes, Tui!OneAtATime
<1>1. ASSUME NEW s \in {"browse", "form", "confirm", "raw"}
      PROVE  /\ [console EXCEPT !.screen = s] \in [screen : {"browse", "form", "confirm", "raw"}, running : BOOLEAN]
             /\ [console EXCEPT !.screen = s].running = console.running
  BY <1>0
<1>2. CASE Tui!LeaveConsole
  BY <1>2, ViewLoads DEF Tui!LeaveConsole, Tui!Goes, TuiInv, TuiTypes, ScreensFit, TuiModes,
     Tui!InteractionIsShown, Tui!OneAtATime, Tui!In, Tui!KeepInteraction,
     Tui!SetInteraction, Tui!position, Tui!dialogs, Tui!background, Tui!office
<1>3. CASE Tui!BrowseConsole
  <2>1. commands' = commands /\ \E s \in {"browse", "form", "raw"} : Tui!Console([console EXCEPT !.screen = s])
    BY <1>3 DEF Tui!BrowseConsole
  <2> QED
    BY <1>0, <1>1, <2>1, ConsoleKeeps
<1>4. CASE Tui!PrepareCommand
  <2>1. \/ Tui!StartCommand([console EXCEPT !.screen = "browse"])
        \/ Tui!Console([console EXCEPT !.screen = "confirm"]) /\ commands' = commands
    BY <1>4 DEF Tui!PrepareCommand
  <2> QED
    BY <1>0, <1>1, <2>1, ConsoleKeeps, StartsCommand
<1>5. CASE Tui!ConfirmCommand
  BY <1>1, <1>5, StartsCommand DEF Tui!ConfirmCommand
<1>6. CASE Tui!RunRawCommand
  BY <1>0, <1>6, StartsCommand DEF Tui!RunRawCommand
<1>7. CASE Tui!FinishCommand
  <2> DEFINE c == [console EXCEPT !.running = FALSE]
  <2>1. c \in [screen : {"browse", "form", "confirm", "raw"}, running : BOOLEAN] /\ ~c.running
    BY <1>0
  <2>2. Tui!Console(c) /\ commands > 0 /\ commands' = commands - 1
    BY <1>7 DEF Tui!FinishCommand
  <2> HIDE DEF c
  <2>3. commands' = 0
    BY <1>0, <2>2
  <2> QED
    BY <2>1, <2>2, <2>3, ConsoleKeeps
<1> QED
  BY <1>2, <1>3, <1>4, <1>5, <1>6, <1>7 DEF Tui!CommandConsole

\* What comes from outside.
LEMMA OutsideStep ==
  ASSUME TuiInv, \/ Tui!Quits \/ Tui!ShowOverview \/ Tui!ShowPeek
                 \/ (~Tui!In("quit") /\ (Tui!Tick \/ Tui!OfficeMoves))
  PROVE  TuiInv'
<1>1. CASE Tui!Quits
  BY <1>1, ViewLoads DEF Tui!Quits, Tui!Goes, TuiInv, TuiTypes, ScreensFit, TuiModes, Tui!InteractionIsShown,
     Tui!OneAtATime, Tui!In, Tui!KeepInteraction, Tui!SetInteraction, Tui!position,
     Tui!dialogs, Tui!background, Tui!office
<1>2. CASE Tui!ShowOverview
  BY <1>2, ViewLoads DEF Tui!ShowOverview, Tui!Event, TuiInv, TuiTypes, ScreensFit, TuiModes,
     Tui!InteractionIsShown, Tui!OneAtATime, Tui!In, Tui!KeepInteraction,
     Tui!SetInteraction, Tui!position, Tui!dialogs, Tui!background, Tui!office
<1>3. CASE Tui!ShowPeek
  BY <1>3, ViewLoads DEF Tui!ShowPeek, Tui!Event, Tui!DefaultReadOnly, TuiInv, TuiTypes, ScreensFit, TuiModes,
     Tui!InteractionIsShown, Tui!OneAtATime, Tui!In, Tui!KeepInteraction,
     Tui!SetInteraction, Tui!position, Tui!dialogs, Tui!background, Tui!office
<1>4. CASE Tui!Tick
  BY <1>4, ViewLoads DEF Tui!Tick, TuiInv, TuiTypes, ScreensFit, TuiModes, Tui!InteractionIsShown,
     Tui!OneAtATime, Tui!In, Tui!KeepInteraction, Tui!SetInteraction, Tui!position,
     Tui!dialogs, Tui!background, Tui!office
<1>5. CASE Tui!OfficeMoves
  BY <1>5 DEF Tui!OfficeMoves, Tui!Event, TuiInv, TuiTypes, ScreensFit, TuiModes,
     Tui!InteractionIsShown, Tui!OneAtATime, Tui!In, Tui!KeepInteraction,
     Tui!SetInteraction, Tui!position, Tui!dialogs, Tui!background, Tui!office
<1> QED
  BY <1>1, <1>2, <1>3, <1>4, <1>5

LEMMA TuiStep ==
  ASSUME TuiInv, Tui!Next
  PROVE  TuiInv'
  BY OverviewStep, PeekStep, DialogStep, DetailStep, ConsoleStep, OutsideStep DEF Tui!Next

\* TuiInv holds in every state.
LEMMA TuiCorrect == Spec => []TuiInv
<1>1. Init => TuiInv
  <2> SUFFICES ASSUME Init PROVE TuiInv
    OBVIOUS
  <2>1. Tui!Init
    BY DEF Init
  <2>2. TuiTypes /\ ScreensFit
    BY <2>1, HomeConstants DEF Tui!Init, TuiTypes, TuiModes, ScreensFit, Tui!Tabs, Tui!Listed,
       Tui!Loaded, Tui!NoDetail
  <2>3. Tui!InteractionIsShown /\ Tui!OneAtATime
    BY <2>1 DEF Tui!Init, Tui!InteractionIsShown, Tui!OneAtATime, Tui!In
  <2> QED
    BY <2>2, <2>3 DEF TuiInv
<1>2. ASSUME TuiInv, UNCHANGED tuiVars PROVE TuiInv'
  BY <1>2 DEF tuiVars, TuiInv, TuiTypes, ScreensFit, Tui!InteractionIsShown, Tui!OneAtATime, Tui!In
<1>3. TuiInv /\ [Next]_vars => TuiInv'
  BY <1>2, TuiMoves, TuiStep
<1> QED
  BY <1>1, <1>3, PTL DEF Spec

LEMMA TuiTypesHold == Spec => []Tui!TypeOK
<1>1. TuiInv => Tui!TypeOK
  BY DEF TuiInv, TuiTypes, TuiModes, Tui!TypeOK
<1> QED
  BY <1>1, TuiCorrect, PTL

\* A step affects nothing, or what the screen names.
SeenOnly == effect' # Tui!NoEffect =>
              /\ effect'.target = Tui!OnScreen
              /\ observer => effect'.kind = "show"

LEMMA AffectsShown ==
  ASSUME NEW kind, NEW target, Tui!Affects(kind, target), target = Tui!OnScreen,
         observer => kind = "show"
  PROVE  SeenOnly
  BY DEF SeenOnly, Tui!Affects

LEMMA AffectsNothing ==
  ASSUME Tui!Silent
  PROVE  SeenOnly
  BY DEF SeenOnly, Tui!Silent

\* The row that the overview takes for the selected one is the one that was drawn so.
LEMMA SelectedIsShown ==
  ASSUME TuiInv, mode = "overview"
  PROVE  Tui!Selected = Tui!OnScreen
  BY DEF TuiInv, ScreensFit, Tui!Selected, Tui!OnScreen, Tui!List, Tui!In

\* Where keys act on what a dialog, the peek or a detail was opened for.
LEMMA TargetIsShown ==
  /\ mode = "peek" => peek = Tui!OnScreen
  /\ mode = "compose_message" => compose = Tui!OnScreen
  /\ mode = "action_menu" => menu = Tui!OnScreen
  /\ mode = "detail" => detail.plugin = Tui!OnScreen
  /\ mode \in {"quit_confirm", "safe_shutdown_confirm", "command_console"} => Tui!None = Tui!OnScreen
  BY DEF Tui!OnScreen, Tui!In, Tui!None

LEMMA WhatIsSeen ==
  ASSUME TuiInv, Tui!Next
  PROVE  SeenOnly
<1>0. observer => mode \in {"overview", "quit_confirm", "detail", "quit"} /\ tab \in Tui!Listed
  BY DEF TuiInv, ScreensFit
<1>1. CASE Tui!OpenPeek
  <2>1. mode = "overview" /\ ~observer /\ Tui!Affects("peek", peek') /\ peek' = Tui!Selected
    BY <1>1 DEF Tui!OpenPeek, Tui!In
  <2> QED
    BY <2>1, SelectedIsShown, AffectsShown
<1>2. CASE Tui!OpenDetail \/ Tui!OpenMenu \/ Tui!ComposeFromOverview
  <2>1. mode = "overview" /\ Tui!Affects("show", Tui!Selected)
    BY <1>2 DEF Tui!OpenDetail, Tui!OpenMenu, Tui!ComposeFromOverview, Tui!In
  <2> QED
    BY <2>1, SelectedIsShown, AffectsShown
<1>3. CASE Tui!TypeIntoPeek
  BY <1>0, <1>3, TargetIsShown, AffectsShown DEF Tui!TypeIntoPeek, Tui!In
<1>4. CASE Tui!ComposeFromPeek \/ Tui!OpenReadyPrompt
  BY <1>4, TargetIsShown, AffectsShown DEF Tui!ComposeFromPeek, Tui!OpenReadyPrompt, Tui!In
<1>5. CASE Tui!SafeShutdownConfirm
  BY <1>0, <1>5, TargetIsShown, AffectsShown, AffectsNothing DEF Tui!SafeShutdownConfirm, Tui!In
<1>6. CASE Tui!Composer
  BY <1>0, <1>6, TargetIsShown, AffectsShown, AffectsNothing DEF Tui!Composer, Tui!In
<1>7. CASE Tui!ActionMenu
  BY <1>0, <1>7, TargetIsShown, AffectsShown, AffectsNothing DEF Tui!ActionMenu, Tui!ActionTarget, Tui!In
<1>8. CASE Tui!StartManualPlugin
  BY <1>8, TargetIsShown, AffectsShown DEF Tui!StartManualPlugin, Tui!In
<1>9. CASE Tui!PrepareCommand \/ Tui!ConfirmCommand \/ Tui!RunRawCommand
  <2>1. mode = "command_console" /\ (Tui!Silent \/ Tui!Affects("command", Tui!None))
    BY <1>9 DEF Tui!PrepareCommand, Tui!ConfirmCommand, Tui!RunRawCommand, Tui!StartCommand, Tui!In
  <2> QED
    BY <1>0, <2>1, TargetIsShown, AffectsShown, AffectsNothing
<1>10. CASE Tui!Silent
  BY <1>10, AffectsNothing
<1>11. ASSUME \/ \E t \in Tui!Tabs : Tui!SelectTab(t)
              \/ \E i \in 1..2 : Tui!SelectRow(i)
              \/ Tui!AsksToQuit \/ Tui!OpenConsole \/ Tui!OpenPromptInput
              \/ Tui!LeavePeek \/ Tui!ToggleWritable \/ Tui!QuitConfirm \/ Tui!PromptInput
              \/ Tui!LeaveDetail \/ Tui!ChooseAction \/ Tui!LeaveChoice
              \/ \E p \in TuiPlugins : Tui!FinishManualPlugin(p)
              \/ Tui!LeaveConsole \/ Tui!BrowseConsole \/ Tui!FinishCommand
              \/ Tui!Quits \/ Tui!ShowOverview \/ Tui!ShowPeek \/ Tui!Tick \/ Tui!OfficeMoves
       PROVE  Tui!Silent
  BY <1>11 DEF Tui!SelectTab, Tui!SelectRow, Tui!AsksToQuit, Tui!OpenConsole, Tui!OpenPromptInput,
     Tui!LeavePeek, Tui!ToggleWritable, Tui!QuitConfirm, Tui!PromptInput, Tui!LeaveDetail,
     Tui!ChooseAction, Tui!LeaveChoice, Tui!FinishManualPlugin, Tui!LeaveConsole,
     Tui!BrowseConsole, Tui!FinishCommand, Tui!Quits, Tui!ShowOverview, Tui!ShowPeek, Tui!Tick,
     Tui!OfficeMoves
<1> QED
  BY <1>1, <1>2, <1>3, <1>4, <1>5, <1>6, <1>7, <1>8, <1>9, <1>10, <1>11
  DEF Tui!Next, Tui!Overview, Tui!Peek, Tui!Detail, Tui!CommandConsole

\* Whatever moves between two screens: a key acts on the agent, job or plugin that the
\* screen names, an observer's on nothing; an agent's inputs are held back exactly
\* while the user may type; one command and one trigger of a plugin run at a time
\* (tui.go, actions.go, commands.go, manual_plugin.go).
THEOREM ScreensAreTrue == Spec => Tui!ScreenIsTrue
<1>1. TuiInv /\ [Next]_vars => [SeenOnly]_Tui!vars
  <2> SUFFICES ASSUME TuiInv, [Next]_vars PROVE SeenOnly \/ UNCHANGED Tui!vars
    OBVIOUS
  <2>1. CASE UNCHANGED tuiVars
    BY <2>1 DEF tuiVars, Tui!vars
  <2> QED
    BY <2>1, TuiMoves, WhatIsSeen
<1>2. []TuiInv /\ [][Next]_vars => [][SeenOnly]_Tui!vars
  BY <1>1, PTL
<1>3. TuiInv => Tui!InteractionIsShown /\ Tui!OneAtATime
  BY DEF TuiInv
<1>4. Spec => Tui!WhatYouSee
  BY <1>2, TuiCorrect, PTL DEF Spec, Tui!WhatYouSee, SeenOnly
<1>5. Spec => [](Tui!InteractionIsShown /\ Tui!OneAtATime)
  BY <1>3, TuiCorrect, PTL
<1> QED
  BY <1>4, <1>5 DEF Tui!ScreenIsTrue

-----------------------------------------------------------------------------
(* Model usage and the stops for it.                                        *)

LEMMA UsageMoves ==
  ASSUME [Next]_vars
  PROVE  Usage!Next \/ UNCHANGED usageVars
  BY DEF Next, vars, Others

UsageAnswers == Usage!Levels \cup {Usage!None, Usage!Failed}
CallerRecords ==
  [doing : {"none", "select", "explicit", "refresh", "hard", "soft"},
   at : {"idle", "asking", "leading", "joined", "answered"}, scope : Scopes \cup {Usage!None},
   todo : SUBSET Scopes, seen : SUBSET (Scopes \X Usage!Levels), answer : UsageAnswers]

\* A caller that asks has a scope to ask for, and an answer once it is answered.
CallerAsks(f) ==
  /\ f.at \in {"leading", "joined", "answered"} => f.scope \in Scopes
  /\ f.at = "answered" => f.answer \in Usage!Levels \cup {Usage!Failed}

\* A check of a limit has seen every scope that it is over with, each at the limit.
CheckIsSound(f) ==
  f.doing \in {"hard", "soft"} =>
    \A s \in Scopes :
      \/ s \in f.todo
      \/ f.at # "asking" /\ s = f.scope
      \/ \E l \in Usage!Levels : <<s, l>> \in f.seen /\ l >= (IF f.doing = "hard" THEN 2 ELSE 1)

UsageTypes ==
  /\ level \in [Scopes -> Usage!Levels] /\ entry \in [Scopes -> Usage!Levels \cup {Usage!None}]
  /\ inflight \in [Scopes -> Usage!Callers \cup {Usage!Nobody}]
  /\ caller \in [Usage!Callers -> CallerRecords]
UsageInv ==
  /\ UsageTypes
  /\ \A c \in Usage!Callers : CallerAsks(caller[c]) /\ CheckIsSound(caller[c])
  /\ proven = TRUE /\ (emergency => shutdown = TRUE)

LEMMA UsageIdle ==
  /\ Usage!Idle \in CallerRecords /\ Usage!Idle.doing = "none" /\ Usage!Idle.at = "idle"
  /\ Usage!Idle.seen = {} /\ CallerAsks(Usage!Idle) /\ CheckIsSound(Usage!Idle)
  BY DEF Usage!Idle, CallerRecords, UsageAnswers, CallerAsks, CheckIsSound

\* One caller goes on; neither the levels nor the stops change.
LEMMA CallerGoes ==
  ASSUME UsageInv, NEW c \in Usage!Callers, NEW f \in CallerRecords,
         CallerAsks(f), CheckIsSound(f), Usage!Goes(c, f),
         level' = level, entry' = entry, inflight' \in [Scopes -> Usage!Callers \cup {Usage!Nobody}],
         proven' = proven, emergency' => shutdown' = TRUE
  PROVE  UsageInv'
<1>1. caller' = [caller EXCEPT ![c] = f]
  BY DEF Usage!Goes
<1>2. caller' \in [Usage!Callers -> CallerRecords] /\ caller'[c] = f
      /\ \A d \in Usage!Callers : d # c => caller'[d] = caller[d]
  BY <1>1 DEF UsageInv, UsageTypes
<1>3. \A d \in Usage!Callers : CallerAsks(caller'[d]) /\ CheckIsSound(caller'[d])
  BY <1>2 DEF UsageInv
<1> QED
  BY <1>2, <1>3 DEF UsageInv, UsageTypes, CallerAsks, CheckIsSound

\* A caller starts to ask for the scopes in todo.
LEMMA CallerStarts ==
  ASSUME UsageInv, NEW c \in Usage!Callers, NEW todo \in SUBSET Scopes,
         NEW doing \in {"select", "explicit", "refresh", "hard", "soft"},
         doing \in {"hard", "soft"} => todo = Scopes,
         Usage!Goes(c, [Usage!Idle EXCEPT !.doing = doing, !.at = "asking", !.todo = todo]),
         level' = level, entry' = entry, inflight' = inflight,
         proven' = proven, emergency' => shutdown' = TRUE
  PROVE  UsageInv'
<1>1. PICK i \in CallerRecords : i = Usage!Idle /\ i.seen = {}
  BY UsageIdle
<1> DEFINE f == [i EXCEPT !.doing = doing, !.at = "asking", !.todo = todo]
<1>2. Usage!Goes(c, f)
  BY <1>1
<1>3. f \in CallerRecords /\ f.doing = doing /\ f.at = "asking" /\ f.todo = todo
  BY DEF CallerRecords
<1> HIDE DEF f
<1>4. CallerAsks(f) /\ CheckIsSound(f)
  BY <1>3 DEF CallerAsks, CheckIsSound
<1>5. inflight' \in [Scopes -> Usage!Callers \cup {Usage!Nobody}]
  BY DEF UsageInv, UsageTypes
<1> QED
  BY <1>2, <1>3, <1>4, <1>5, CallerGoes

LEMMA CallerRests ==
  ASSUME UsageInv, NEW c \in Usage!Callers, Usage!Goes(c, Usage!Idle),
         level' = level, entry' = entry, inflight' = inflight,
         proven' = proven, emergency' => shutdown' = TRUE
  PROVE  UsageInv'
<1>1. inflight' \in [Scopes -> Usage!Callers \cup {Usage!Nobody}]
  BY DEF UsageInv, UsageTypes
<1> QED
  BY <1>1, UsageIdle, CallerGoes

\* An answered caller asks for the next scope, and keeps what it has seen; one that
\* checks a limit has been answered with a level at the limit.
LEMMA CallerAsksOn ==
  ASSUME UsageInv, NEW c \in Usage!Callers, Usage!Asks(c), Usage!At(c, "answered"),
         caller[c].doing \in {"hard", "soft"} =>
           caller[c].answer # Usage!Failed /\ caller[c].answer >= Usage!Limit(c),
         level' = level, entry' = entry, inflight' = inflight,
         proven' = proven, emergency' => shutdown' = TRUE
  PROVE  UsageInv'
<1>0. caller[c] \in CallerRecords /\ CallerAsks(caller[c]) /\ CheckIsSound(caller[c])
      /\ caller[c].at = "answered"
  BY DEF UsageInv, UsageTypes, Usage!At
<1> DEFINE seen == Usage!Seen(c)
           f == [caller[c] EXCEPT !.at = "asking", !.seen = seen, !.answer = Usage!None,
                   !.scope = Usage!None]
<1>1. seen \in SUBSET (Scopes \X Usage!Levels) /\ caller[c].seen \subseteq seen
      /\ (caller[c].answer # Usage!Failed => <<caller[c].scope, caller[c].answer>> \in seen)
  <2>1. caller[c].scope \in Scopes /\ caller[c].answer \in Usage!Levels \cup {Usage!Failed}
        /\ caller[c].seen \in SUBSET (Scopes \X Usage!Levels)
    BY <1>0 DEF CallerAsks, CallerRecords
  <2> QED
    BY <2>1 DEF Usage!Seen
<1> HIDE DEF seen
<1>2. Usage!Goes(c, f)
  BY DEF Usage!Asks, seen
<1>3. f \in CallerRecords /\ f.doing = caller[c].doing /\ f.at = "asking" /\ f.todo = caller[c].todo
      /\ f.seen = seen
  BY <1>0, <1>1 DEF CallerRecords, UsageAnswers
<1> HIDE DEF f
<1>4. CallerAsks(f)
  BY <1>3 DEF CallerAsks
<1>5. CheckIsSound(f)
  <2> SUFFICES ASSUME caller[c].doing \in {"hard", "soft"}, NEW s \in Scopes, s \notin caller[c].todo
               PROVE  \E l \in Usage!Levels : <<s, l>> \in seen
                        /\ l >= (IF caller[c].doing = "hard" THEN 2 ELSE 1)
    BY <1>3 DEF CheckIsSound
  <2>1. CASE s = caller[c].scope
    BY <1>0, <1>1, <2>1 DEF CallerAsks, Usage!Limit, Usage!Hard, Usage!Soft
  <2>2. CASE s # caller[c].scope
    BY <1>0, <1>1, <2>2 DEF CheckIsSound
  <2> QED
    BY <2>1, <2>2
<1>6. inflight' \in [Scopes -> Usage!Callers \cup {Usage!Nobody}]
  BY DEF UsageInv, UsageTypes
<1> QED
  BY <1>2, <1>3, <1>4, <1>5, <1>6, CallerGoes

\* The cache is asked: it has an answer, or there is a request to join or to make.
LEMMA LookStep ==
  ASSUME UsageInv, NEW c \in Usage!Callers, Usage!Look(c)
  PROVE  UsageInv'
<1>0. caller[c] \in CallerRecords /\ CheckIsSound(caller[c]) /\ caller[c].at = "asking"
      /\ caller[c].todo \in SUBSET Scopes
  BY DEF UsageInv, UsageTypes, Usage!Look, Usage!At, CallerRecords
<1>1. level' = level /\ entry' = entry /\ proven' = proven /\ (emergency' => shutdown' = TRUE)
  BY DEF Usage!Look, Usage!Keeps, UsageInv
<1>2. PICK s \in caller[c].todo :
        LET g == [caller[c] EXCEPT !.scope = s, !.todo = @ \ {s}] IN
        \/ /\ entry[s] # Usage!None
           /\ Usage!Goes(c, [g EXCEPT !.at = "answered", !.answer = entry[s]])
           /\ inflight' = inflight
        \/ Usage!Goes(c, [g EXCEPT !.at = "joined"]) /\ inflight' = inflight
        \/ Usage!Goes(c, [g EXCEPT !.at = "leading"]) /\ inflight' = [inflight EXCEPT ![s] = c]
  BY DEF Usage!Look
<1> DEFINE rest == caller[c].todo \ {s}
           g == [caller[c] EXCEPT !.scope = s, !.todo = rest]
<1>3. s \in Scopes /\ g \in CallerRecords /\ g.scope = s /\ g.todo = rest
      /\ g.doing = caller[c].doing /\ g.seen = caller[c].seen
  BY <1>0 DEF CallerRecords
<1>4. entry[s] \in Usage!Levels \cup {Usage!None}
  BY <1>3 DEF UsageInv, UsageTypes
<1> HIDE DEF g
<1>5. ASSUME NEW f \in CallerRecords, f.at \in {"answered", "joined", "leading"}, f.scope = s,
             f.todo = rest, f.doing = caller[c].doing, f.seen = caller[c].seen
      PROVE  CheckIsSound(f)
  BY <1>0, <1>3, <1>5 DEF CheckIsSound
<1>6. CASE entry[s] # Usage!None /\ inflight' = inflight
           /\ Usage!Goes(c, [g EXCEPT !.at = "answered", !.answer = entry[s]])
  <2> DEFINE answer == entry[s]
             f == [g EXCEPT !.at = "answered", !.answer = answer]
  <2>1. answer \in Usage!Levels
    BY <1>4, <1>6
  <2> HIDE DEF answer
  <2>2. f \in CallerRecords /\ f.at = "answered" /\ f.scope = s /\ f.todo = rest
        /\ f.doing = caller[c].doing /\ f.seen = caller[c].seen /\ f.answer = answer
    BY <1>3, <2>1 DEF CallerRecords, UsageAnswers
  <2>3. Usage!Goes(c, f)
    BY <1>6 DEF answer
  <2> HIDE DEF f
  <2>4. CallerAsks(f) /\ CheckIsSound(f)
    BY <1>3, <1>5, <2>1, <2>2 DEF CallerAsks
  <2>5. inflight' \in [Scopes -> Usage!Callers \cup {Usage!Nobody}]
    BY <1>6 DEF UsageInv, UsageTypes
  <2> QED
    BY <1>1, <2>2, <2>3, <2>4, <2>5, CallerGoes
<1>7. ASSUME NEW way \in {"joined", "leading"}, Usage!Goes(c, [g EXCEPT !.at = way]),
             inflight' \in [Scopes -> Usage!Callers \cup {Usage!Nobody}]
      PROVE  UsageInv'
  <2> DEFINE f == [g EXCEPT !.at = way]
  <2>2. f \in CallerRecords /\ f.at = way /\ f.scope = s /\ f.todo = rest
        /\ f.doing = caller[c].doing /\ f.seen = caller[c].seen
    BY <1>3 DEF CallerRecords
  <2>3. Usage!Goes(c, f)
    BY <1>7
  <2> HIDE DEF f
  <2>4. CallerAsks(f) /\ CheckIsSound(f)
    BY <1>3, <1>5, <2>2 DEF CallerAsks
  <2> QED
    BY <1>1, <1>7, <2>2, <2>3, <2>4, CallerGoes
<1>8. inflight \in [Scopes -> Usage!Callers \cup {Usage!Nobody}]
      /\ [inflight EXCEPT ![s] = c] \in [Scopes -> Usage!Callers \cup {Usage!Nobody}]
  BY <1>3 DEF UsageInv, UsageTypes
<1> QED
  BY <1>2, <1>6, <1>7, <1>8 DEF g

\* An answer goes to all who wait for it.
LEMMA AnswersStep ==
  ASSUME UsageInv, NEW s \in Scopes, NEW answer \in Usage!Levels \cup {Usage!Failed},
         Usage!Answers(s, answer), entry' \in [Scopes -> Usage!Levels \cup {Usage!None}]
  PROVE  UsageInv'
<1>1. /\ inflight' = [inflight EXCEPT ![s] = Usage!Nobody]
      /\ caller' = [c \in Usage!Callers |->
           IF caller[c].scope = s /\ caller[c].at \in {"leading", "joined"}
           THEN [caller[c] EXCEPT !.at = "answered", !.answer = answer] ELSE caller[c]]
      /\ level' = level /\ proven' = proven /\ emergency' = emergency /\ shutdown' = shutdown
  BY DEF Usage!Answers, Usage!Keeps
<1>2. ASSUME NEW c \in Usage!Callers
      PROVE  caller'[c] \in CallerRecords /\ CallerAsks(caller'[c]) /\ CheckIsSound(caller'[c])
  <2>0. caller[c] \in CallerRecords /\ CallerAsks(caller[c]) /\ CheckIsSound(caller[c])
    BY DEF UsageInv, UsageTypes
  <2>1. CASE caller'[c] = caller[c]
    BY <2>0, <2>1
  <2>2. CASE /\ caller[c].scope = s /\ caller[c].at \in {"leading", "joined"}
             /\ caller'[c] = [caller[c] EXCEPT !.at = "answered", !.answer = answer]
    <3> DEFINE f == [caller[c] EXCEPT !.at = "answered", !.answer = answer]
    <3>1. f \in CallerRecords /\ f.at = "answered" /\ f.scope = s /\ f.todo = caller[c].todo
          /\ f.doing = caller[c].doing /\ f.seen = caller[c].seen /\ f.answer = answer
      BY <2>0, <2>2 DEF CallerRecords, UsageAnswers
    <3>2. caller'[c] = f
      BY <2>2
    <3> HIDE DEF f
    <3>3. CallerAsks(f) /\ CheckIsSound(f)
      BY <2>0, <2>2, <3>1 DEF CallerAsks, CheckIsSound
    <3> QED
      BY <3>1, <3>2, <3>3
  <2> QED
    BY <1>1, <2>1, <2>2
<1>3. caller' \in [Usage!Callers -> CallerRecords]
  BY <1>1, <1>2
<1>4. inflight' \in [Scopes -> Usage!Callers \cup {Usage!Nobody}]
  BY <1>1 DEF UsageInv, UsageTypes
<1> QED
  BY <1>1, <1>2, <1>3, <1>4 DEF UsageInv, UsageTypes, CallerAsks, CheckIsSound

\* A waiter gives up.
LEMMA WaitFailsStep ==
  ASSUME UsageInv, NEW c \in Usage!Callers, Usage!WaitFails(c)
  PROVE  UsageInv'
<1>0. caller[c] \in CallerRecords /\ CallerAsks(caller[c]) /\ CheckIsSound(caller[c])
      /\ caller[c].at = "joined"
  BY DEF UsageInv, UsageTypes, Usage!WaitFails, Usage!At
<1> DEFINE f == [caller[c] EXCEPT !.at = "answered", !.answer = Usage!Failed]
<1>1. Usage!Goes(c, f) /\ level' = level /\ entry' = entry /\ inflight' = inflight
      /\ proven' = proven /\ (emergency' => shutdown' = TRUE)
  BY DEF Usage!WaitFails, Usage!Keeps, UsageInv
<1>2. f \in CallerRecords /\ f.at = "answered" /\ f.scope = caller[c].scope
      /\ f.todo = caller[c].todo /\ f.doing = caller[c].doing /\ f.seen = caller[c].seen
      /\ f.answer = Usage!Failed
  BY <1>0 DEF CallerRecords, UsageAnswers
<1> HIDE DEF f
<1>3. CallerAsks(f) /\ CheckIsSound(f)
  BY <1>0, <1>2 DEF CallerAsks, CheckIsSound
<1>4. inflight' \in [Scopes -> Usage!Callers \cup {Usage!Nobody}]
  BY <1>1 DEF UsageInv, UsageTypes
<1> QED
  BY <1>1, <1>2, <1>3, <1>4, CallerGoes

\* An answered caller goes on.
LEMMA TakesStep ==
  ASSUME UsageInv, NEW c \in Usage!Callers, Usage!Takes(c)
  PROVE  UsageInv'
<1>0. caller[c] \in CallerRecords /\ CallerAsks(caller[c]) /\ CheckIsSound(caller[c])
  BY DEF UsageInv, UsageTypes
<1>1. CASE Usage!TakesSelection(c)
  <2>1. /\ caller[c].doing = "select" /\ Usage!At(c, "answered")
        /\ level' = level /\ entry' = entry /\ inflight' = inflight /\ proven' = proven
        /\ (emergency' => shutdown' = TRUE)
    BY <1>1 DEF Usage!TakesSelection, UsageInv
  <2>2. \/ Usage!Goes(c, Usage!Idle) \/ Usage!Asks(c) \/ Usage!ChecksLimit(c, "hard")
    BY <1>1 DEF Usage!TakesSelection
  <2> QED
    BY <2>1, <2>2, CallerRests, CallerAsksOn, CallerStarts DEF Usage!ChecksLimit
<1>2. CASE Usage!TakesExplicit(c)
  BY <1>2, CallerRests DEF Usage!TakesExplicit, Usage!Keeps, UsageInv
<1>3. CASE Usage!TakesRefresh(c)
  <2>1. /\ caller[c].doing = "refresh" /\ Usage!At(c, "answered")
        /\ level' = level /\ entry' = entry /\ inflight' = inflight /\ proven' = proven
        /\ (emergency' => shutdown' = TRUE)
    BY <1>3 DEF Usage!TakesRefresh, Usage!Keeps, UsageInv
  <2>2. Usage!Asks(c) \/ Usage!ChecksLimit(c, "hard")
    BY <1>3 DEF Usage!TakesRefresh
  <2> QED
    BY <2>1, <2>2, CallerAsksOn, CallerStarts DEF Usage!ChecksLimit
<1>4. ASSUME Usage!Remains(c), level' = level, entry' = entry, inflight' = inflight,
             proven' = proven, emergency' => shutdown' = TRUE
      PROVE  UsageInv'
  BY <1>4, CallerRests, CallerStarts DEF Usage!Remains, Usage!ChecksLimit
<1>5. CASE Usage!LimitUnknown(c)
  BY <1>4, <1>5 DEF Usage!LimitUnknown, Usage!Keeps, UsageInv
<1>6. CASE Usage!LimitSeen(c)
  <2>1. /\ Usage!At(c, "answered") /\ caller[c].answer # Usage!Failed
        /\ level' = level /\ entry' = entry /\ inflight' = inflight /\ proven' = proven
        /\ (emergency' => shutdown' = TRUE)
    BY <1>6 DEF Usage!LimitSeen, Usage!Checking, Usage!Keeps, UsageInv
  <2>2. Usage!Remains(c) \/ (caller[c].answer >= Usage!Limit(c) /\ Usage!Asks(c))
    BY <1>6 DEF Usage!LimitSeen
  <2> QED
    BY <1>4, <2>1, <2>2, CallerAsksOn
<1>7. CASE Usage!Exhausted(c)
  <2>1. /\ caller[c].at = "answered" /\ caller[c].doing \in {"hard", "soft"}
        /\ caller[c].answer # Usage!Failed /\ caller[c].answer >= Usage!Limit(c)
        /\ caller[c].todo = {} /\ Usage!Goes(c, Usage!Idle) /\ shutdown' = TRUE
        /\ proven' = (proven /\ \A s \in Scopes : \E l \in Usage!Levels :
                                  <<s, l>> \in Usage!Seen(c) /\ l >= Usage!Limit(c))
        /\ level' = level /\ entry' = entry /\ inflight' = inflight
    BY <1>7 DEF Usage!Exhausted, Usage!Checking, Usage!At
  <2>2. ASSUME NEW s \in Scopes
        PROVE  \E l \in Usage!Levels : <<s, l>> \in Usage!Seen(c) /\ l >= Usage!Limit(c)
    <3>1. caller[c].answer \in Usage!Levels
      BY <1>0, <2>1 DEF CallerAsks
    <3>2. Usage!Limit(c) = IF caller[c].doing = "hard" THEN 2 ELSE 1
      BY DEF Usage!Limit, Usage!Hard, Usage!Soft
    <3>3. CASE s = caller[c].scope
      BY <2>1, <3>1, <3>3 DEF Usage!Seen
    <3>4. CASE s # caller[c].scope
      <4>1. PICK l \in Usage!Levels : <<s, l>> \in caller[c].seen
                                      /\ l >= (IF caller[c].doing = "hard" THEN 2 ELSE 1)
        BY <1>0, <2>1, <3>4 DEF CheckIsSound
      <4> QED
        BY <3>2, <4>1 DEF Usage!Seen
    <3> QED
      BY <3>3, <3>4
  <2>3. proven' = proven
    BY <2>1, <2>2 DEF UsageInv
  <2> QED
    BY <2>1, <2>3, CallerRests
<1> QED
  BY <1>1, <1>2, <1>3, <1>5, <1>6, <1>7 DEF Usage!Takes

LEMMA UsageStep ==
  ASSUME UsageInv, Usage!Next
  PROVE  UsageInv'
<1>0. "spawner" \in Usage!Callers /\ "scheduler" \in Usage!Callers /\ RoleScopes \subseteq Scopes
  BY HomeConstants DEF Usage!Callers
<1>1. CASE Usage!Select
  BY <1>0, <1>1, CallerStarts DEF Usage!Select, Usage!Begins, Usage!Keeps, UsageInv
<1>2. CASE Usage!CheckExplicit
  <2>1. PICK s \in RoleScopes : Usage!Begins("spawner", "explicit", {s})
    BY <1>2 DEF Usage!CheckExplicit
  <2>2. {s} \in SUBSET Scopes
    BY <1>0
  <2> QED
    BY <1>0, <2>1, <2>2, CallerStarts DEF Usage!Begins, Usage!Keeps, UsageInv
<1>3. CASE Usage!Refresh
  BY <1>0, <1>3, CallerStarts DEF Usage!Refresh, Usage!Begins, Usage!Keeps, UsageInv
<1>4. ASSUME NEW s \in Scopes, Usage!Fetched(s)
      PROVE  UsageInv'
  <2>1. level[s] \in Usage!Levels /\ entry' = [entry EXCEPT ![s] = level[s]]
    BY <1>4 DEF UsageInv, UsageTypes, Usage!Fetched
  <2>2. entry' \in [Scopes -> Usage!Levels \cup {Usage!None}]
    BY <2>1 DEF UsageInv, UsageTypes
  <2> QED
    BY <1>4, <2>1, <2>2, AnswersStep DEF Usage!Fetched
<1>5. ASSUME NEW s \in Scopes, Usage!FetchFails(s)
      PROVE  UsageInv'
  <2>1. entry' \in [Scopes -> Usage!Levels \cup {Usage!None}]
    BY <1>5 DEF UsageInv, UsageTypes, Usage!FetchFails
  <2> QED
    BY <1>5, <2>1, AnswersStep DEF Usage!FetchFails
<1>6. ASSUME NEW s \in Scopes, Usage!Expires(s) \/ Usage!LevelChanges(s)
      PROVE  UsageInv'
  <2>1. UNCHANGED <<inflight, caller, shutdown, emergency, proven>>
    BY <1>6 DEF Usage!Expires, Usage!LevelChanges, Usage!Keeps
  <2>2. level' \in [Scopes -> Usage!Levels] /\ entry' \in [Scopes -> Usage!Levels \cup {Usage!None}]
    BY <1>6 DEF Usage!Expires, Usage!LevelChanges, UsageInv, UsageTypes
  <2> QED
    BY <2>1, <2>2 DEF UsageInv, UsageTypes, CallerAsks, CheckIsSound
<1> QED
  BY <1>1, <1>2, <1>3, <1>4, <1>5, <1>6, LookStep, WaitFailsStep, TakesStep DEF Usage!Next

\* UsageInv holds in every state.
LEMMA UsageCorrect == Spec => []UsageInv
<1>1. Init => UsageInv
  <2> SUFFICES ASSUME Init PROVE UsageInv
    OBVIOUS
  <2>1. Usage!Init
    BY DEF Init
  <2> QED
    BY <2>1, UsageIdle DEF Usage!Init, UsageInv, UsageTypes
<1>2. ASSUME UsageInv, UNCHANGED usageVars PROVE UsageInv'
  BY <1>2 DEF usageVars, UsageInv, UsageTypes, CallerAsks, CheckIsSound
<1>3. UsageInv /\ [Next]_vars => UsageInv'
  BY <1>2, UsageMoves, UsageStep
<1> QED
  BY <1>1, <1>3, PTL DEF Spec

LEMMA UsageTypesHold == Spec => []Usage!TypeOK
<1>1. UsageInv => Usage!TypeOK
  BY DEF UsageInv, UsageTypes, CallerRecords, Usage!TypeOK
<1> QED
  BY <1>1, UsageCorrect, PTL

\* However requests are joined, fail, time out or are overtaken by changes of the
\* levels: the office is stopped only by a check that saw every configured scope at
\* the ceiling (usage_scheduler.go).
THEOREM StopsAreProven == Spec => [](part = "usage" => Usage!StopIsProven)
<1>1. UsageInv => Usage!StopIsProven
  BY DEF UsageInv, Usage!StopIsProven
<1> QED
  BY <1>1, UsageCorrect, PTL

-----------------------------------------------------------------------------
(* The queries in an agent's output.                                        *)

LEMMA QueriesMove ==
  [Next]_vars => (part' = part /\ (part = "queries" => [Queries!Next]_carry))
  BY DEF Next, vars, Do, Others

\* The scan of the first n symbols of a chunk.
ScanIs(S, n, chunk, answered) ==
  S = [i \in 0..n |-> IF i = 0 THEN [next |-> 1, carry |-> <<>>, replies |-> answered]
                      ELSE Queries!Scanned(chunk, i, S[i - 1])]

LEMMA ScanExists ==
  ASSUME NEW chunk, NEW answered, NEW m \in Nat
  PROVE  \E S : ScanIs(S, m, chunk, answered)
<1> DEFINE None == {n \in Nat : ~\E S : ScanIs(S, n, chunk, answered)}
           first == [next |-> 1, carry |-> <<>>, replies |-> answered]
<1> SUFFICES ASSUME None # {} PROVE FALSE
  OBVIOUS
<1>1. PICK n \in None : \A k \in None : ~(<<k, n>> \in OpToRel(<, Nat))
  BY NatLessThanWellFounded, WFMin
<1>2. /\ n \in Nat /\ ~\E S : ScanIs(S, n, chunk, answered)
      /\ \A k \in Nat : k < n => \E S : ScanIs(S, k, chunk, answered)
  BY <1>1 DEF OpToRel
<1> HIDE DEF None
<1>3. n # 0
  <2>1. PICK S : S = [i \in 0..0 |-> first]
    OBVIOUS
  <2>2. ScanIs(S, 0, chunk, answered)
    BY <2>1 DEF ScanIs
  <2> QED
    BY <1>2, <2>2
<1>4. PICK k \in Nat : n = k + 1 /\ k < n
  <2>1. n - 1 \in Nat /\ n = (n - 1) + 1 /\ n - 1 < n
    BY <1>2, <1>3
  <2> QED
    BY <2>1
<1>5. PICK S : ScanIs(S, k, chunk, answered)
  BY <1>2, <1>4
<1>6. PICK last : last = Queries!Scanned(chunk, n, S[k])
  OBVIOUS
<1>7. PICK T : T = [i \in 0..n |-> IF i = n THEN last ELSE S[i]]
  OBVIOUS
<1>8. \A i \in 0..k : T[i] = S[i]
  BY <1>4, <1>7
<1>9. \A i \in 0..n : T[i] = IF i = 0 THEN first ELSE Queries!Scanned(chunk, i, T[i - 1])
  <2> SUFFICES ASSUME NEW i \in 0..n
               PROVE  T[i] = IF i = 0 THEN first ELSE Queries!Scanned(chunk, i, T[i - 1])
    OBVIOUS
  <2>1. CASE i = 0
    <3>1. 0 \in 0..k /\ S[0] = first
      BY <1>5 DEF ScanIs
    <3> QED
      BY <1>8, <2>1, <3>1
  <2>2. CASE i \in 1..k
    <3>1. i \in 0..k /\ i - 1 \in 0..k /\ i # 0
      BY <2>2
    <3>2. S[i] = Queries!Scanned(chunk, i, S[i - 1])
      BY <1>5, <3>1 DEF ScanIs
    <3> QED
      BY <1>8, <3>1, <3>2
  <2>3. CASE i = n
    <3>1. T[n] = last /\ n - 1 = k /\ k \in 0..k /\ n # 0
      BY <1>2, <1>3, <1>4, <1>7
    <3> QED
      BY <1>6, <1>8, <2>3, <3>1
  <2> QED
    BY <1>4, <2>1, <2>2, <2>3
<1>10. ScanIs(T, n, chunk, answered)
  BY <1>7, <1>9 DEF ScanIs
<1> QED
  BY <1>2, <1>10

\* What is carried over begins like a query and is no longer than one.
Carries(rest) ==
  /\ rest \in Seq(Queries!Symbols) /\ Len(rest) <= MaxCarry
  /\ Queries!HasPrefix(rest, <<Queries!ESC>>) \/ rest = <<>>

Scans(s) == DOMAIN s = {"next", "carry", "replies"} /\ Carries(s.carry)

\* Symbols, slices and prefixes by place.
LEMMA SymbolsDiffer ==
  /\ Queries!ESC # Queries!BEL /\ Queries!ESC # Queries!ST /\ Queries!BEL # Queries!ST
  /\ Queries!ESC \notin {"[", "n", "]", "f", "b", "?"}
  /\ Queries!BEL \notin {"[", "n", "]", "f", "b", "?"}
  /\ Queries!ST \notin {"[", "n", "]", "f", "b", "?"}
  /\ {Queries!ESC, Queries!BEL, Queries!ST} \subseteq Queries!Symbols
  /\ {"[", "n", "]", "f", "b", "?"} \subseteq Queries!Symbols
  BY DEF Queries!ESC, Queries!BEL, Queries!ST, Queries!Symbols

LEMMA Slices ==
  ASSUME NEW b \in Seq(Queries!Symbols), NEW m \in Nat \ {0}, NEW n \in 0..Len(b), m <= n + 1
  PROVE  /\ SubSeq(b, m, n) \in Seq(Queries!Symbols) /\ Len(SubSeq(b, m, n)) = n - m + 1
         /\ \A i \in 1..(n - m + 1) : SubSeq(b, m, n)[i] = b[m + i - 1]
<1>1. m \in Int /\ n \in Int /\ Len(b) \in Nat
  OBVIOUS
<1>2. \A i \in m..n : b[i] \in Queries!Symbols
  OBVIOUS
<1>3. /\ SubSeq(b, m, n) \in Seq(Queries!Symbols)
      /\ Len(SubSeq(b, m, n)) = IF m <= n THEN n - m + 1 ELSE 0
      /\ \A i \in 1..(n - m + 1) : SubSeq(b, m, n)[i] = b[m + i - 1]
  BY <1>1, <1>2, SubSeqProperties
<1>4. (IF m <= n THEN n - m + 1 ELSE 0) = n - m + 1
  BY <1>1
<1> QED
  BY <1>3, <1>4

LEMMA PrefixByPlace ==
  ASSUME NEW b \in Seq(Queries!Symbols), NEW q \in Seq(Queries!Symbols)
  PROVE  Queries!HasPrefix(b, q) <=> Len(q) <= Len(b) /\ \A i \in 1..Len(q) : b[i] = q[i]
<1>1. CASE Len(q) <= Len(b)
  <2>1. PICK m \in Nat, n \in Nat : m = Len(q) /\ n = Len(b) /\ m <= n
    BY <1>1
  <2>2. /\ SubSeq(b, 1, m) \in Seq(Queries!Symbols) /\ Len(SubSeq(b, 1, m)) = m
        /\ \A i \in 1..m : SubSeq(b, 1, m)[i] = b[i]
    BY <2>1, Slices
  <2>3. SubSeq(b, 1, m) = q <=> \A i \in 1..m : SubSeq(b, 1, m)[i] = q[i]
    BY <2>1, <2>2, SeqEqual
  <2> QED
    BY <2>1, <2>2, <2>3 DEF Queries!HasPrefix
<1>2. CASE ~(Len(q) <= Len(b))
  BY <1>2 DEF Queries!HasPrefix
<1> QED
  BY <1>1, <1>2

LEMMA ScannedCarries ==
  ASSUME NEW chunk \in Seq(Queries!Symbols), NEW i \in 1..Len(chunk), NEW s, Scans(s)
  PROVE  Scans(Queries!Scanned(chunk, i, s))
<1>1. PICK rest \in Seq(Queries!Symbols) :
        /\ rest = SubSeq(chunk, i, Len(chunk)) /\ Len(rest) \in Nat \ {0} /\ rest[1] = chunk[i]
  <2>1. PICK n \in Nat : n = Len(chunk) /\ i \in 1..n
    OBVIOUS
  <2>2. PICK rest : rest = SubSeq(chunk, i, n)
    OBVIOUS
  <2>3. rest \in Seq(Queries!Symbols) /\ Len(rest) = n - i + 1 /\ rest[1] = chunk[i]
    BY <2>1, <2>2
  <2>4. n - i + 1 \in Nat \ {0}
    BY <2>1
  <2> QED
    BY <2>1, <2>2, <2>3, <2>4
<1>2. PICK m : m = Queries!MatchQuery(rest)
  OBVIOUS
<1>3. CASE i < s.next \/ chunk[i] # Queries!ESC
  BY <1>3 DEF Queries!Scanned
<1>4. CASE ~(i < s.next \/ chunk[i] # Queries!ESC) /\ m.kind = "partial" /\ Queries!Carried(rest)
  <2>1. Queries!Scanned(chunk, i, s) = [s EXCEPT !.carry = rest, !.next = Len(chunk) + 1]
    BY <1>1, <1>2, <1>4 DEF Queries!Scanned
  <2>2. Queries!HasPrefix(rest, <<Queries!ESC>>)
    <3>1. PICK q : q = <<Queries!ESC>>
      OBVIOUS
    <3>2. q \in Seq(Queries!Symbols) /\ Len(q) = 1 /\ q[1] = Queries!ESC
      BY <3>1, SymbolsDiffer
    <3>3. \A j \in 1..1 : j = 1
      OBVIOUS
    <3>4. rest \in Seq(Queries!Symbols) /\ Len(rest) >= 1 /\ rest[1] = Queries!ESC
      BY <1>1, <1>4
    <3>5. Queries!HasPrefix(rest, q) <=> Len(q) <= Len(rest) /\ \A j \in 1..Len(q) : rest[j] = q[j]
      BY <3>2, <3>4, PrefixByPlace
    <3>6. \A j \in 1..Len(q) : rest[j] = q[j]
      BY <3>2, <3>3, <3>4
    <3> QED
      BY <3>1, <3>2, <3>4, <3>5, <3>6
  <2>3. Carries(rest)
    BY <1>1, <1>4, <2>2 DEF Carries, Queries!Carried
  <2> QED
    BY <2>1, <2>3 DEF Scans
<1>5. CASE ~(i < s.next \/ chunk[i] # Queries!ESC) /\ ~(m.kind = "partial" /\ Queries!Carried(rest))
  <2>1. Queries!Scanned(chunk, i, s) \in
          {[s EXCEPT !.next = i + m.length, !.replies = Append(s.replies, m.reply)], s}
    BY <1>1, <1>2, <1>5 DEF Queries!Scanned
  <2> QED
    BY <2>1 DEF Scans
<1> QED
  BY <1>3, <1>4, <1>5

LEMMA AnswersScan ==
  ASSUME NEW chunk \in Seq(Queries!Symbols), NEW answered
  PROVE  \E S : /\ ScanIs(S, Len(chunk), chunk, answered)
                /\ Queries!AnswerQueries(chunk, answered) =
                     [carry |-> S[Len(chunk)].carry, replies |-> S[Len(chunk)].replies]
<1>1. \E S : ScanIs(S, Len(chunk), chunk, answered)
  <2>1. Len(chunk) \in Nat
    OBVIOUS
  <2> QED
    BY <2>1, ScanExists
<1>2. ScanIs(CHOOSE S : ScanIs(S, Len(chunk), chunk, answered), Len(chunk), chunk, answered)
  BY <1>1, Zenon
<1>3. Queries!AnswerQueries(chunk, answered) =
        LET S == CHOOSE S : ScanIs(S, Len(chunk), chunk, answered)
        IN  [carry |-> S[Len(chunk)].carry, replies |-> S[Len(chunk)].replies]
  BY Zenon DEF Queries!AnswerQueries, ScanIs
<1> QED
  BY <1>2, <1>3, Zenon

LEMMA AnswersCarry ==
  ASSUME NEW chunk \in Seq(Queries!Symbols), NEW answered
  PROVE  Carries(Queries!AnswerQueries(chunk, answered).carry)
<1>1. PICK S : /\ ScanIs(S, Len(chunk), chunk, answered)
               /\ Queries!AnswerQueries(chunk, answered) =
                    [carry |-> S[Len(chunk)].carry, replies |-> S[Len(chunk)].replies]
  BY AnswersScan
<1>2. PICK n \in Nat : n = Len(chunk)
  OBVIOUS
<1> DEFINE Bad == {i \in Nat : i \in 0..n /\ ~Scans(S[i])}
<1>3. SUFFICES ASSUME Bad # {} PROVE FALSE
  <2>1. n \in 0..n
    OBVIOUS
  <2> QED
    BY <1>1, <1>2, <2>1 DEF Scans
<1>4. PICK i \in Bad : \A k \in Bad : ~(<<k, i>> \in OpToRel(<, Nat))
  BY <1>3, NatLessThanWellFounded, WFMin
<1>5. i \in 0..n /\ i \in Nat /\ ~Scans(S[i]) /\ \A k \in 0..n : k < i => Scans(S[k])
  <2>1. \A k \in Bad : ~(k < i)
    BY <1>4 DEF OpToRel
  <2>2. \A k \in 0..n : k \in Nat
    OBVIOUS
  <2> QED
    BY <2>1, <2>2
<1> HIDE DEF Bad
<1>6. i # 0
  <2>1. S[0] = [next |-> 1, carry |-> <<>>, replies |-> answered]
    BY <1>1, <1>2 DEF ScanIs
  <2>2. Carries(<<>>)
    <3>1. 0 <= MaxCarry
      BY HomeConstants
    <3>2. <<>> \in Seq(Queries!Symbols) /\ Len(<<>>) = 0
      OBVIOUS
    <3> QED
      BY <3>1, <3>2 DEF Carries
  <2> QED
    BY <1>5, <2>1, <2>2 DEF Scans
<1>7. i - 1 \in 0..n /\ i - 1 < i /\ i \in 1..Len(chunk)
  BY <1>2, <1>5, <1>6
<1>8. S[i] = Queries!Scanned(chunk, i, S[i - 1])
  BY <1>1, <1>2, <1>5, <1>6 DEF ScanIs
<1> QED
  BY <1>5, <1>7, <1>8, ScannedCarries

LEMMA QueriesTypesHold == Spec => [](part = "queries" => Queries!TypeOK)
<1>1. Init => (part = "queries" => Queries!TypeOK)
  <2>1. 0 <= MaxCarry
    BY HomeConstants
  <2>2. Init => carry = <<>>
    BY DEF Init, Queries!Init
  <2>3. <<>> \in Seq(Queries!Symbols) /\ Len(<<>>) = 0
    OBVIOUS
  <2> QED
    BY <2>1, <2>2, <2>3 DEF Queries!TypeOK
<1>2. (part = "queries" => Queries!TypeOK) /\ [Next]_vars => (part = "queries" => Queries!TypeOK)'
  <2> SUFFICES ASSUME part = "queries" => Queries!TypeOK, [Next]_vars, part' = "queries"
               PROVE  Queries!TypeOK'
    OBVIOUS
  <2>1. part = "queries" /\ [Queries!Next]_carry
    BY QueriesMove
  <2>2. CASE Queries!Next
    <3>1. PICK chunk \in Queries!Reads : carry' = Queries!AnswerQueries(carry \o chunk, <<>>).carry
      BY <2>2 DEF Queries!Next, Queries!Read
    <3>2. chunk \in Seq(Queries!Symbols)
      <4>1. PICK n \in 1..MaxRead : chunk \in [1..n -> Queries!Symbols]
        BY DEF Queries!Reads
      <4>2. n \in Nat
        BY HomeConstants
      <4> QED
        BY <4>1, <4>2
    <3>3. carry \o chunk \in Seq(Queries!Symbols)
      BY <2>1, <3>2 DEF Queries!TypeOK
    <3>4. Carries(carry')
      BY <3>1, <3>3, AnswersCarry
    <3> QED
      BY <3>4 DEF Carries, Queries!TypeOK
  <2>3. CASE carry' = carry
    BY <2>1, <2>3 DEF Queries!TypeOK
  <2> QED
    BY <2>1, <2>2, <2>3
<1> QED
  BY <1>1, <1>2, PTL DEF Spec

-----------------------------------------------------------------------------
(* Queries are answered wherever the output is cut into reads.              *)

\* What is found where a slice that starts at ESC is not cut off.
BeginsDSR(b) == Len(b) >= 3 /\ b[2] = "[" /\ b[3] = "n"
BeginsColour(b, c) == Len(b) >= 3 /\ b[2] = "]" /\ b[3] = c
Ended(b) == \E i \in 4..Len(b) : b[i] = Queries!BEL \/ (b[i] = Queries!ESC /\ i < Len(b))
Bell(b) == Len(b) >= 5 /\ b[4] = "?" /\ b[5] = Queries!BEL
Terminated(b) == Len(b) >= 6 /\ b[4] = "?" /\ b[5] = Queries!ESC /\ b[6] = Queries!ST

\* The body of a colour query is what follows its first three symbols.
LEMMA Bodies ==
  ASSUME NEW b \in Seq(Queries!Symbols), Len(b) >= 3
  PROVE  \E body \in Seq(Queries!Symbols) :
           /\ body = SubSeq(b, 4, Len(b)) /\ Len(body) = Len(b) - 3
           /\ \A i \in 1..Len(body) : body[i] = b[i + 3]
<1>1. PICK n \in Nat : n = Len(b) /\ n >= 3
  OBVIOUS
<1>2. PICK body : body = SubSeq(b, 4, n)
  OBVIOUS
<1>3. /\ body \in Seq(Queries!Symbols) /\ Len(body) = n - 3
      /\ \A i \in 1..(n - 3) : body[i] = b[i + 3]
  <2>1. 4 \in Nat \ {0} /\ n \in 0..Len(b) /\ 4 <= n + 1 /\ n - 4 + 1 = n - 3
    BY <1>1
  <2>2. \A i \in 1..(n - 3) : 4 + i - 1 = i + 3
    BY <1>1
  <2> QED
    BY <1>2, <2>1, <2>2, Slices
<1> QED
  BY <1>1, <1>2, <1>3

LEMMA Pairs ==
  ASSUME NEW x \in Queries!Symbols, NEW y \in Queries!Symbols
  PROVE  /\ <<x, y>> \in Seq(Queries!Symbols) /\ Len(<<x, y>>) = 2
         /\ <<x, y>>[1] = x /\ <<x, y>>[2] = y
  OBVIOUS

LEMMA Triples ==
  ASSUME NEW x \in Queries!Symbols, NEW y \in Queries!Symbols, NEW z \in Queries!Symbols
  PROVE  /\ <<x, y, z>> \in Seq(Queries!Symbols) /\ Len(<<x, y, z>>) = 3
         /\ <<x, y, z>>[1] = x /\ <<x, y, z>>[2] = y /\ <<x, y, z>>[3] = z
  OBVIOUS

LEMMA QueryTexts ==
  /\ {Queries!DSR, Queries!BG, Queries!FG} \subseteq Seq(Queries!Symbols)
  /\ \A q \in {Queries!DSR, Queries!BG, Queries!FG} : Len(q) = 3 /\ q[1] = Queries!ESC
  /\ Queries!DSR[2] = "[" /\ Queries!DSR[3] = "n"
  /\ Queries!BG[2] = "]" /\ Queries!BG[3] = "b"
  /\ Queries!FG[2] = "]" /\ Queries!FG[3] = "f"
<1>1. /\ Queries!ESC \in Queries!Symbols /\ "[" \in Queries!Symbols /\ "n" \in Queries!Symbols
      /\ "]" \in Queries!Symbols /\ "f" \in Queries!Symbols /\ "b" \in Queries!Symbols
  BY SymbolsDiffer, Zenon
<1>2. /\ Queries!DSR \in Seq(Queries!Symbols) /\ Len(Queries!DSR) = 3 /\ Queries!DSR[1] = Queries!ESC
      /\ Queries!DSR[2] = "[" /\ Queries!DSR[3] = "n"
  BY <1>1, Triples, Zenon DEF Queries!DSR
<1>3. /\ Queries!BG \in Seq(Queries!Symbols) /\ Len(Queries!BG) = 3 /\ Queries!BG[1] = Queries!ESC
      /\ Queries!BG[2] = "]" /\ Queries!BG[3] = "b"
  BY <1>1, Triples, Zenon DEF Queries!BG
<1>4. /\ Queries!FG \in Seq(Queries!Symbols) /\ Len(Queries!FG) = 3 /\ Queries!FG[1] = Queries!ESC
      /\ Queries!FG[2] = "]" /\ Queries!FG[3] = "f"
  BY <1>1, Triples, Zenon DEF Queries!FG
<1> QED
  BY <1>2, <1>3, <1>4, Zenon

LEMMA Prefixes ==
  ASSUME NEW b \in Seq(Queries!Symbols), Len(b) >= 1, b[1] = Queries!ESC
  PROVE  /\ Queries!HasPrefix(b, Queries!DSR) <=> BeginsDSR(b)
         /\ Queries!HasPrefix(b, Queries!BG) <=> BeginsColour(b, "b")
         /\ Queries!HasPrefix(b, Queries!FG) <=> BeginsColour(b, "f")
<1>1. \A q \in {Queries!DSR, Queries!BG, Queries!FG} :
        q \in Seq(Queries!Symbols) /\ Len(q) = 3 /\ q[1] = Queries!ESC
  BY QueryTexts, Zenon
<1>2. /\ Queries!DSR[2] = "[" /\ Queries!DSR[3] = "n"
      /\ Queries!BG[2] = "]" /\ Queries!BG[3] = "b"
      /\ Queries!FG[2] = "]" /\ Queries!FG[3] = "f"
  BY QueryTexts, Zenon
<1>3. \A q \in {Queries!DSR, Queries!BG, Queries!FG} :
        Queries!HasPrefix(b, q) <=> Len(b) >= 3 /\ b[2] = q[2] /\ b[3] = q[3]
  <2> TAKE q \in {Queries!DSR, Queries!BG, Queries!FG}
  <2>1. Queries!HasPrefix(b, q) <=> 3 <= Len(b) /\ \A i \in 1..3 : b[i] = q[i]
    <3>1. q \in Seq(Queries!Symbols) /\ Len(q) = 3
      BY <1>1
    <3>2. Queries!HasPrefix(b, q) <=> Len(q) <= Len(b) /\ \A i \in 1..Len(q) : b[i] = q[i]
      BY <3>1, PrefixByPlace, Zenon
    <3> QED
      BY <3>1, <3>2, Zenon
  <2>2. (\A i \in 1..3 : b[i] = q[i]) <=> b[1] = q[1] /\ b[2] = q[2] /\ b[3] = q[3]
    <3>1. 1..3 = {1, 2, 3}
      OBVIOUS
    <3> QED
      BY <3>1
  <2> QED
    BY <1>1, <2>1, <2>2
<1> QED
  BY <1>2, <1>3 DEF BeginsDSR, BeginsColour

\* A slice of less than three symbols is partial if it begins like a query.
LEMMA ShortSlices ==
  ASSUME NEW b \in Seq(Queries!Symbols), Len(b) >= 1, b[1] = Queries!ESC
  PROVE  (\E q \in {Queries!DSR, Queries!BG, Queries!FG} : Queries!ProperPrefix(b, q))
           <=> Len(b) < 3 /\ (Len(b) = 2 => b[2] \in {"[", "]"})
<1>1. \A q \in {Queries!DSR, Queries!BG, Queries!FG} :
        q \in Seq(Queries!Symbols) /\ Len(q) = 3 /\ q[1] = Queries!ESC
  BY QueryTexts, Zenon
<1>2. Queries!DSR[2] = "[" /\ Queries!BG[2] = "]" /\ Queries!FG[2] = "]"
  BY QueryTexts, Zenon
<1>3. \A q \in {Queries!DSR, Queries!BG, Queries!FG} :
        Queries!ProperPrefix(b, q) <=> Len(b) < 3 /\ (Len(b) = 2 => b[2] = q[2])
  <2> TAKE q \in {Queries!DSR, Queries!BG, Queries!FG}
  <2>1. PICK n \in Nat : n = Len(b) /\ n >= 1
    OBVIOUS
  <2>2. q \in Seq(Queries!Symbols) /\ Len(q) = 3
    BY <1>1
  <2>3. Queries!HasPrefix(q, b) <=> Len(b) <= Len(q) /\ \A i \in 1..Len(b) : q[i] = b[i]
    BY <2>2, PrefixByPlace
  <2>4. Queries!ProperPrefix(b, q) <=> n < 3 /\ \A i \in 1..n : q[i] = b[i]
    BY <2>1, <2>2, <2>3 DEF Queries!ProperPrefix
  <2>5. n < 3 => ((\A i \in 1..n : q[i] = b[i]) <=> (q[1] = b[1] /\ (n = 2 => q[2] = b[2])))
    <3>1. CASE n = 1
      <4>1. 1..n = {1}
        BY <3>1
      <4> QED
        BY <3>1, <4>1
    <3>2. CASE n = 2
      <4>1. 1..n = {1, 2}
        BY <3>2
      <4> QED
        BY <3>2, <4>1
    <3> QED
      BY <2>1, <3>1, <3>2
  <2>6. q[1] = b[1]
    BY <1>1
  <2> QED
    BY <2>1, <2>4, <2>5, <2>6
<1> QED
  BY <1>2, <1>3

\* What matchQuery finds, for a slice that starts at ESC.
LEMMA Matches ==
  ASSUME NEW b \in Seq(Queries!Symbols), Len(b) >= 1, b[1] = Queries!ESC
  PROVE  /\ Len(b) < 3 /\ (Len(b) = 2 => b[2] \in {"[", "]"})
               => Queries!MatchQuery(b) = Queries!Partial
         /\ Len(b) = 2 /\ b[2] \notin {"[", "]"} => Queries!MatchQuery(b) = Queries!Other
         /\ BeginsDSR(b) => Queries!MatchQuery(b) = Queries!Query(Queries!DSR, 3)
         /\ BeginsColour(b, "b") => Queries!MatchQuery(b) = Queries!OscQuery(b, Queries!BG)
         /\ BeginsColour(b, "f") => Queries!MatchQuery(b) = Queries!OscQuery(b, Queries!FG)
         /\ Len(b) >= 3 /\ ~BeginsDSR(b) /\ ~BeginsColour(b, "b") /\ ~BeginsColour(b, "f")
               => Queries!MatchQuery(b) = Queries!Other
<1> DEFINE partial == \E q \in {Queries!DSR, Queries!BG, Queries!FG} : Queries!ProperPrefix(b, q)
           dsr == Queries!HasPrefix(b, Queries!DSR)
           bg == Queries!HasPrefix(b, Queries!BG)
           fg == Queries!HasPrefix(b, Queries!FG)
<1>1. Queries!MatchQuery(b) =
        CASE partial -> Queries!Partial
          [] dsr -> Queries!Query(Queries!DSR, Len(Queries!DSR))
          [] bg -> Queries!OscQuery(b, Queries!BG)
          [] fg -> Queries!OscQuery(b, Queries!FG)
          [] OTHER -> Queries!Other
  BY Zenon DEF Queries!MatchQuery
<1>2. partial <=> Len(b) < 3 /\ (Len(b) = 2 => b[2] \in {"[", "]"})
  BY ShortSlices, Zenon
<1>3. (dsr <=> BeginsDSR(b)) /\ (bg <=> BeginsColour(b, "b")) /\ (fg <=> BeginsColour(b, "f"))
  BY Prefixes, Zenon
<1>4. Len(Queries!DSR) = 3
  BY QueryTexts, Zenon
<1> HIDE DEF partial, dsr, bg, fg
<1>5. partial => Queries!MatchQuery(b) = Queries!Partial /\ ~dsr /\ ~bg /\ ~fg
  <2>1. partial => ~dsr /\ ~bg /\ ~fg
    BY <1>2, <1>3 DEF BeginsDSR, BeginsColour
  <2>2. partial /\ ~dsr /\ ~bg /\ ~fg => Queries!MatchQuery(b) = Queries!Partial
    BY <1>1
  <2> QED
    BY <2>1, <2>2
<1>6. /\ dsr => ~partial /\ ~bg /\ ~fg
      /\ bg => ~partial /\ ~dsr /\ ~fg
      /\ fg => ~partial /\ ~dsr /\ ~bg
  BY <1>2, <1>3 DEF BeginsDSR, BeginsColour
<1>7. /\ dsr => Queries!MatchQuery(b) = Queries!Query(Queries!DSR, 3)
      /\ bg => Queries!MatchQuery(b) = Queries!OscQuery(b, Queries!BG)
      /\ fg => Queries!MatchQuery(b) = Queries!OscQuery(b, Queries!FG)
      /\ ~partial /\ ~dsr /\ ~bg /\ ~fg => Queries!MatchQuery(b) = Queries!Other
  BY <1>1, <1>4, <1>6
<1>8. Len(b) = 2 => ~BeginsDSR(b) /\ ~BeginsColour(b, "b") /\ ~BeginsColour(b, "f")
  BY DEF BeginsDSR, BeginsColour
<1> QED
  BY <1>2, <1>3, <1>5, <1>7, <1>8

\* A colour query that begins in a slice is partial while it has no end and is not too
\* long; at its first end it is a query or nothing.
LEMMA ColourMatches ==
  ASSUME NEW b \in Seq(Queries!Symbols), Len(b) >= 3,
         NEW prefix \in Seq(Queries!Symbols), Len(prefix) = 3
  PROVE  /\ Bell(b) => Queries!OscQuery(b, prefix) = Queries!Query(prefix, 5)
         /\ Terminated(b) => Queries!OscQuery(b, prefix) = Queries!Query(prefix, 6)
         /\ Ended(b) /\ ~Bell(b) /\ ~Terminated(b) => Queries!OscQuery(b, prefix) = Queries!Other
         /\ ~Ended(b) /\ Len(b) <= MaxCarry + 4 => Queries!OscQuery(b, prefix) = Queries!Partial
         /\ ~Ended(b) /\ Len(b) > MaxCarry + 5 => Queries!OscQuery(b, prefix) = Queries!Other
         /\ ~Ended(b) => Queries!OscQuery(b, prefix) \in {Queries!Partial, Queries!Other}
         /\ (Bell(b) => ~Terminated(b)) /\ (Bell(b) \/ Terminated(b) => Ended(b))
<1>1. PICK body \in Seq(Queries!Symbols) :
           /\ body = SubSeq(b, 4, Len(b)) /\ Len(body) = Len(b) - 3
           /\ \A i \in 1..Len(body) : body[i] = b[i + 3]
  BY Bodies
<1>2. PICK n \in Nat : n = Len(b) /\ n >= 3
  OBVIOUS
<1>3. MaxCarry \in Nat
  BY HomeConstants
<1> DEFINE may == Queries!MayGoOn(body)
           bell == Queries!HasPrefix(body, <<"?", Queries!BEL>>)
           st == Queries!HasPrefix(body, <<"?", Queries!ESC, Queries!ST>>)
<1>4. Queries!OscQuery(b, prefix) =
        CASE may -> Queries!Partial
          [] bell -> Queries!Query(prefix, 5)
          [] st -> Queries!Query(prefix, 6)
          [] OTHER -> Queries!Other
  <2>1. Len(prefix) + 1 = 4 /\ Len(prefix) + 2 = 5 /\ Len(prefix) + 3 = 6
    OBVIOUS
  <2> QED
    BY <1>1, <2>1, Zenon DEF Queries!OscQuery
<1>5. bell <=> Bell(b)
  <2> DEFINE q == <<"?", Queries!BEL>>
  <2>1. q \in Seq(Queries!Symbols) /\ Len(q) = 2 /\ q[1] = "?" /\ q[2] = Queries!BEL
    <3>1. "?" \in Queries!Symbols /\ Queries!BEL \in Queries!Symbols
      BY SymbolsDiffer, Zenon
    <3> QED
      BY <3>1, Pairs, Zenon
  <2> HIDE DEF q
  <2>2. Queries!HasPrefix(body, q) <=> 2 <= Len(body) /\ \A i \in 1..2 : body[i] = q[i]
    <3>1. Queries!HasPrefix(body, q) <=> Len(q) <= Len(body) /\ \A i \in 1..Len(q) : body[i] = q[i]
      BY <1>2, <2>1, PrefixByPlace, Zenon
    <3> QED
      BY <2>1, <3>1, Zenon
  <2>3. 1..2 = {1, 2}
    OBVIOUS
  <2>4. Queries!HasPrefix(body, q) <=> n >= 5 /\ body[1] = "?" /\ body[2] = Queries!BEL
    <3>1. Len(body) = n - 3 /\ (2 <= n - 3 <=> n >= 5)
      BY <1>1, <1>2
    <3>2. (\A i \in 1..2 : body[i] = q[i]) <=> body[1] = q[1] /\ body[2] = q[2]
      BY <2>3
    <3> QED
      BY <2>1, <2>2, <3>1, <3>2
  <2>5. n >= 5 => body[1] = b[4] /\ body[2] = b[5]
    BY <1>1, <1>2
  <2> QED
    BY <1>2, <2>4, <2>5 DEF Bell, q
<1>6. st <=> Terminated(b)
  <2> DEFINE q == <<"?", Queries!ESC, Queries!ST>>
  <2>1. q \in Seq(Queries!Symbols) /\ Len(q) = 3 /\ q[1] = "?" /\ q[2] = Queries!ESC /\ q[3] = Queries!ST
    <3>1. "?" \in Queries!Symbols /\ Queries!ESC \in Queries!Symbols /\ Queries!ST \in Queries!Symbols
      BY SymbolsDiffer, Zenon
    <3> QED
      BY <3>1, Triples, Zenon
  <2> HIDE DEF q
  <2>2. Queries!HasPrefix(body, q) <=> 3 <= Len(body) /\ \A i \in 1..3 : body[i] = q[i]
    <3>1. Queries!HasPrefix(body, q) <=> Len(q) <= Len(body) /\ \A i \in 1..Len(q) : body[i] = q[i]
      BY <1>2, <2>1, PrefixByPlace, Zenon
    <3> QED
      BY <2>1, <3>1, Zenon
  <2>3. 1..3 = {1, 2, 3}
    OBVIOUS
  <2>4. Queries!HasPrefix(body, q) <=> n >= 6 /\ body[1] = "?" /\ body[2] = Queries!ESC /\ body[3] = Queries!ST
    <3>1. Len(body) = n - 3 /\ (3 <= n - 3 <=> n >= 6)
      BY <1>1, <1>2
    <3>2. (\A i \in 1..3 : body[i] = q[i]) <=> body[1] = q[1] /\ body[2] = q[2] /\ body[3] = q[3]
      BY <2>3
    <3> QED
      BY <2>1, <2>2, <3>1, <3>2
  <2>5. n >= 6 => body[1] = b[4] /\ body[2] = b[5] /\ body[3] = b[6]
    BY <1>1, <1>2
  <2> QED
    BY <1>2, <2>4, <2>5 DEF Terminated, q
<1>7. Queries!Ends(body) = {} <=> ~Ended(b)
  <2>1. \A i \in 1..Len(body) :
          (body[i] = Queries!BEL \/ (body[i] = Queries!ESC /\ i < Len(body)))
            <=> (b[i + 3] = Queries!BEL \/ (b[i + 3] = Queries!ESC /\ i + 3 < n))
    BY <1>1, <1>2
  <2>2. (\E i \in 1..Len(body) : b[i + 3] = Queries!BEL \/ (b[i + 3] = Queries!ESC /\ i + 3 < n))
          <=> Ended(b)
    <3>1. \A i \in 1..Len(body) : i + 3 \in 4..n
      BY <1>1, <1>2
    <3>2. \A i \in 4..n : i - 3 \in 1..Len(body) /\ (i - 3) + 3 = i
      BY <1>1, <1>2
    <3> QED
      BY <1>2, <3>1, <3>2 DEF Ended
  <2>3. Queries!Ends(body) = {} <=>
          ~ \E i \in 1..Len(body) : body[i] = Queries!BEL \/ (body[i] = Queries!ESC /\ i < Len(body))
    BY DEF Queries!Ends
  <2> QED
    BY <2>1, <2>2, <2>3
<1>8. may => ~Ended(b)
  BY <1>7 DEF Queries!MayGoOn
<1>9. ~Ended(b) /\ n <= MaxCarry + 4 => may
  <2> SUFFICES ASSUME ~Ended(b), n <= MaxCarry + 4 PROVE may
    OBVIOUS
  <2>1. n - 3 <= MaxCarry + 2 /\ n - 3 <= MaxCarry + 1
    BY <1>2, <1>3
  <2>2. Len(body) <= MaxCarry + (IF Queries!EndsIn(body, Queries!ESC) THEN 2 ELSE 1)
    BY <1>1, <1>2, <2>1
  <2> QED
    BY <1>7, <2>2 DEF Queries!MayGoOn
<1>10. n > MaxCarry + 5 => ~may
  <2> SUFFICES ASSUME n > MaxCarry + 5, may PROVE FALSE
    OBVIOUS
  <2>1. Len(body) <= MaxCarry + (IF Queries!EndsIn(body, Queries!ESC) THEN 2 ELSE 1)
    BY DEF Queries!MayGoOn
  <2>2. Len(body) <= MaxCarry + 2
    BY <1>1, <1>2, <1>3, <2>1
  <2> QED
    BY <1>1, <1>2, <1>3, <2>2
<1>11. (Bell(b) => ~Terminated(b)) /\ (Bell(b) \/ Terminated(b) => Ended(b))
  <2>1. Bell(b) => Ended(b)
    <3>1. n >= 5 => 5 \in 4..n
      BY <1>2
    <3> QED
      BY <1>2, <3>1 DEF Bell, Ended
  <2>2. Terminated(b) => Ended(b)
    <3>1. n >= 6 => 5 \in 4..n /\ 5 < n
      BY <1>2
    <3> QED
      BY <1>2, <3>1 DEF Terminated, Ended
  <2>3. Bell(b) => ~Terminated(b)
    BY SymbolsDiffer DEF Bell, Terminated
  <2> QED
    BY <2>1, <2>2, <2>3
<1> HIDE DEF may, bell, st
<1>12. /\ may => Queries!OscQuery(b, prefix) = Queries!Partial
       /\ ~may /\ bell => Queries!OscQuery(b, prefix) = Queries!Query(prefix, 5)
       /\ ~may /\ st /\ ~bell => Queries!OscQuery(b, prefix) = Queries!Query(prefix, 6)
       /\ ~may /\ ~bell /\ ~st => Queries!OscQuery(b, prefix) = Queries!Other
  <2>1. bell => ~st /\ ~may
    BY <1>5, <1>6, <1>8, <1>11
  <2>2. st => ~may
    BY <1>6, <1>8, <1>11
  <2> QED
    BY <1>4, <2>1, <2>2
<1> QED
  BY <1>2, <1>5, <1>6, <1>8, <1>9, <1>10, <1>11, <1>12

MatchRecords == [kind : {"partial", "other", "query"}, reply : Seq(Queries!Symbols), length : Nat]

\* What matchQuery finds in a slice fits into it.
LEMMA MatchFits ==
  ASSUME NEW b \in Seq(Queries!Symbols), Len(b) >= 1, b[1] = Queries!ESC
  PROVE  /\ Queries!MatchQuery(b) \in MatchRecords
         /\ Queries!MatchQuery(b).kind = "query" =>
              /\ Queries!MatchQuery(b).reply \in {Queries!DSR, Queries!BG, Queries!FG}
              /\ Queries!MatchQuery(b).length >= 1 /\ Queries!MatchQuery(b).length <= Len(b)
              /\ \/ BeginsDSR(b) /\ Queries!MatchQuery(b).length = 3
                 \/ (BeginsColour(b, "b") \/ BeginsColour(b, "f"))
                    /\ (\/ Bell(b) /\ Queries!MatchQuery(b).length = 5
                        \/ Terminated(b) /\ Queries!MatchQuery(b).length = 6)
         /\ Queries!MatchQuery(b).kind = "partial" =>
              \/ Len(b) < 3
              \/ (BeginsColour(b, "b") \/ BeginsColour(b, "f")) /\ ~Ended(b)
<1> DEFINE m == Queries!MatchQuery(b)
<1>1. PICK n \in Nat : n = Len(b) /\ n >= 1
  OBVIOUS
<1>2. /\ Queries!Partial \in MatchRecords /\ Queries!Partial.kind = "partial"
      /\ Queries!Other \in MatchRecords /\ Queries!Other.kind = "other"
      /\ \A q \in Seq(Queries!Symbols), k \in Nat :
           /\ Queries!Query(q, k) \in MatchRecords /\ Queries!Query(q, k).kind = "query"
           /\ Queries!Query(q, k).reply = q /\ Queries!Query(q, k).length = k
  BY DEF Queries!Partial, Queries!Other, Queries!Query, MatchRecords
<1>3. ASSUME NEW q \in {Queries!BG, Queries!FG}, Len(b) >= 3, m = Queries!OscQuery(b, q)
      PROVE  \/ m = Queries!Partial /\ ~Ended(b)
             \/ m = Queries!Other
             \/ m = Queries!Query(q, 5) /\ Bell(b)
             \/ m = Queries!Query(q, 6) /\ Terminated(b)
  <2>1. q \in Seq(Queries!Symbols) /\ Len(q) = 3
    BY QueryTexts
  <2> QED
    BY <1>3, <2>1, ColourMatches
<1>4. /\ Queries!DSR \in Seq(Queries!Symbols) /\ Queries!BG \in Seq(Queries!Symbols)
      /\ Queries!FG \in Seq(Queries!Symbols)
  BY QueryTexts, Zenon
<1>5. (Bell(b) => n >= 5) /\ (Terminated(b) => n >= 6) /\ (BeginsDSR(b) => n >= 3)
      /\ (BeginsColour(b, "b") => n >= 3) /\ (BeginsColour(b, "f") => n >= 3)
  BY <1>1 DEF Bell, Terminated, BeginsDSR, BeginsColour
<1> DEFINE Fits == /\ m \in MatchRecords
                   /\ m.kind = "query" =>
                        /\ m.reply \in {Queries!DSR, Queries!BG, Queries!FG}
                        /\ m.length >= 1 /\ m.length <= Len(b)
                        /\ \/ BeginsDSR(b) /\ m.length = 3
                           \/ (BeginsColour(b, "b") \/ BeginsColour(b, "f"))
                              /\ (\/ Bell(b) /\ m.length = 5
                                  \/ Terminated(b) /\ m.length = 6)
                   /\ m.kind = "partial" =>
                        \/ Len(b) < 3
                        \/ (BeginsColour(b, "b") \/ BeginsColour(b, "f")) /\ ~Ended(b)
<1>6. CASE n < 3
  <2>1. m = Queries!Partial \/ m = Queries!Other
    <3>1. /\ Len(b) < 3 /\ (Len(b) = 2 => b[2] \in {"[", "]"}) => m = Queries!Partial
          /\ Len(b) = 2 /\ b[2] \notin {"[", "]"} => m = Queries!Other
      BY Matches, Zenon
    <3> QED
      BY <1>1, <1>6, <3>1
  <2>2. Fits
    BY <1>1, <1>2, <1>6, <2>1
  <2> QED
    BY <2>2
<1>7. CASE BeginsDSR(b)
  <2>1. m = Queries!Query(Queries!DSR, 3)
    BY <1>7, Matches
  <2>2. Fits
    BY <1>1, <1>2, <1>4, <1>5, <1>7, <2>1
  <2> QED
    BY <2>2
<1>8. ASSUME NEW c \in {"b", "f"}, BeginsColour(b, c) PROVE Fits
  <2>1. PICK q \in {Queries!BG, Queries!FG} : m = Queries!OscQuery(b, q)
    BY <1>8, Matches
  <2>2. Len(b) >= 3
    BY <1>8 DEF BeginsColour
  <2>3. \/ m = Queries!Partial /\ ~Ended(b)
        \/ m = Queries!Other
        \/ m = Queries!Query(q, 5) /\ Bell(b)
        \/ m = Queries!Query(q, 6) /\ Terminated(b)
    BY <1>3, <2>1, <2>2
  <2>4. q \in Seq(Queries!Symbols)
    BY <1>4
  <2>5. CASE m = Queries!Partial /\ ~Ended(b)
    BY <1>2, <1>8, <2>5
  <2>6. CASE m = Queries!Other
    BY <1>2, <2>6
  <2>7. CASE m = Queries!Query(q, 5) /\ Bell(b)
    <3>1. n >= 5 /\ m.kind = "query" /\ m.reply = q /\ m.length = 5 /\ m \in MatchRecords
      <4>1. \A j \in Nat : /\ Queries!Query(q, j) \in MatchRecords /\ Queries!Query(q, j).kind = "query"
                           /\ Queries!Query(q, j).reply = q /\ Queries!Query(q, j).length = j
        BY <1>2, <2>4
      <4> HIDE DEF m
      <4> QED
        BY <1>5, <2>7, <4>1
    <3> QED
      BY <1>1, <1>8, <2>7, <3>1
  <2>8. CASE m = Queries!Query(q, 6) /\ Terminated(b)
    BY <1>1, <1>2, <1>5, <1>8, <2>4, <2>8
  <2> QED
    BY <2>3, <2>5, <2>6, <2>7, <2>8
<1>9. CASE n >= 3 /\ ~BeginsDSR(b) /\ ~BeginsColour(b, "b") /\ ~BeginsColour(b, "f")
  <2>1. m = Queries!Other
    BY <1>1, <1>9, Matches
  <2>2. Fits
    BY <1>2, <2>1
  <2> QED
    BY <2>2
<1>10. Fits
  BY <1>1, <1>6, <1>7, <1>8, <1>9
<1> QED
  BY <1>10

\* What is no longer partial stays what it is, whatever follows; and what is too long
\* to be carried over is no query.
LEMMA MatchesStay ==
  ASSUME NEW b \in Seq(Queries!Symbols), Len(b) >= 1, b[1] = Queries!ESC,
         NEW x \in Seq(Queries!Symbols)
  PROVE  /\ Queries!MatchQuery(b).kind # "partial"
              => Queries!MatchQuery(b \o x) = Queries!MatchQuery(b)
         /\ Queries!MatchQuery(b).kind = "partial" /\ Len(b) > MaxCarry
              => Queries!MatchQuery(b \o x).kind # "query"
<1>1. PICK n \in Nat, k \in Nat : n = Len(b) /\ n >= 1 /\ k = Len(x)
  OBVIOUS
<1>2. PICK d \in Seq(Queries!Symbols) :
        d = b \o x /\ Len(d) = n + k /\ \A i \in 1..n : d[i] = b[i]
  <2>1. /\ b \o x \in Seq(Queries!Symbols) /\ Len(b \o x) = n + k
        /\ \A i \in 1..(n + k) : (b \o x)[i] = IF i <= n THEN b[i] ELSE x[i - n]
    BY <1>1, ConcatProperties
  <2>2. \A i \in 1..n : i \in 1..(n + k) /\ i <= n
    BY <1>1
  <2> QED
    BY <2>1, <2>2
<1>3. Len(d) >= 1 /\ d[1] = Queries!ESC
  <2>1. 1 \in 1..n
    BY <1>1
  <2> QED
    BY <1>1, <1>2, <2>1
<1>4. MaxCarry \in Nat /\ MaxCarry >= 6
  BY HomeConstants
<1>5. n >= 3 => d[2] = b[2] /\ d[3] = b[3]
  BY <1>1, <1>2
<1>6. /\ n >= 3 => (BeginsDSR(d) <=> BeginsDSR(b)) /\ \A c : BeginsColour(d, c) <=> BeginsColour(b, c)
  BY <1>1, <1>2, <1>5 DEF BeginsDSR, BeginsColour
<1>7. Ended(b) => Ended(d)
  <2> SUFFICES ASSUME NEW i \in 4..n, b[i] = Queries!BEL \/ (b[i] = Queries!ESC /\ i < n)
               PROVE  Ended(d)
    BY <1>1 DEF Ended
  <2>1. i \in 4..(n + k) /\ i \in 1..n /\ (i < n => i < n + k)
    BY <1>1
  <2>2. d[i] = b[i]
    BY <1>2, <2>1
  <2> QED
    BY <1>2, <2>1, <2>2 DEF Ended
<1>8. Ended(b) => (Bell(d) <=> Bell(b)) /\ (Terminated(d) <=> Terminated(b))
  <2> SUFFICES ASSUME NEW i \in 4..n, b[i] = Queries!BEL \/ (b[i] = Queries!ESC /\ i < n)
               PROVE  (Bell(d) <=> Bell(b)) /\ (Terminated(d) <=> Terminated(b))
    BY <1>1 DEF Ended
  <2>1. i = 4 => b[4] # "?" /\ d[4] # "?"
    <3>1. i = 4 => d[4] = b[4]
      BY <1>2
    <3> QED
      BY <3>1, SymbolsDiffer
  <2>2. n >= 5 => d[4] = b[4] /\ d[5] = b[5]
    BY <1>2
  <2>3. n >= 6 => d[6] = b[6]
    BY <1>2
  <2>4. i # 4 => n >= 5
    OBVIOUS
  <2>5. Bell(d) <=> Bell(b)
    BY <1>1, <1>2, <2>1, <2>2, <2>4 DEF Bell
  <2>6. n = 5 /\ i # 4 => b[5] = Queries!BEL
    OBVIOUS
  <2>7. Terminated(d) <=> Terminated(b)
    BY <1>1, <1>2, <2>1, <2>2, <2>3, <2>4, <2>6, SymbolsDiffer DEF Terminated
  <2> QED
    BY <2>5, <2>7
<1>9. ASSUME NEW q \in {Queries!BG, Queries!FG}, n >= 3,
             Queries!MatchQuery(b) = Queries!OscQuery(b, q),
             Queries!MatchQuery(d) = Queries!OscQuery(d, q)
      PROVE  /\ Queries!MatchQuery(b).kind # "partial"
                  => Queries!MatchQuery(d) = Queries!MatchQuery(b)
             /\ Queries!MatchQuery(b).kind = "partial" /\ n > MaxCarry
                  => Queries!MatchQuery(d).kind # "query"
  <2>1. q \in Seq(Queries!Symbols) /\ Len(q) = 3 /\ Len(b) >= 3 /\ Len(d) >= 3
    BY <1>1, <1>2, <1>9, QueryTexts
  <2>2. /\ Queries!Partial.kind = "partial" /\ Queries!Other.kind = "other"
        /\ Queries!Query(q, 5).kind = "query" /\ Queries!Query(q, 6).kind = "query"
    BY DEF Queries!Partial, Queries!Other, Queries!Query
  <2>3. CASE Ended(b)
    <3>1. Queries!OscQuery(d, q) = Queries!OscQuery(b, q)
      BY <1>7, <1>8, <2>1, <2>3, ColourMatches
    <3>2. Queries!OscQuery(b, q).kind # "partial"
      BY <2>1, <2>2, <2>3, ColourMatches
    <3> QED
      BY <1>9, <3>1, <3>2
  <2>4. CASE ~Ended(b) /\ k = 0
    <3>1. x = <<>>
      BY <1>1, <2>4, EmptySeq
    <3>2. d = b
      BY <1>2, <3>1, ConcatEmptySeq
    <3>3. Queries!OscQuery(b, q) \in {Queries!Partial, Queries!Other}
      BY <2>1, <2>4, ColourMatches
    <3> QED
      BY <1>9, <2>2, <3>2, <3>3
  <2>5. CASE ~Ended(b) /\ k > 0
    <3>1. Queries!MatchQuery(b) \in {Queries!Partial, Queries!Other}
      BY <1>9, <2>1, <2>5, ColourMatches
    <3>2. Queries!MatchQuery(b).kind # "partial" => n > MaxCarry + 4
      BY <1>1, <1>4, <1>9, <2>1, <2>2, <2>5, ColourMatches
    <3>3. n > MaxCarry => ~Bell(d) /\ ~Terminated(d)
      <4>1. n > MaxCarry => 5 \in 4..n /\ 5 < n /\ d[5] = b[5]
        BY <1>1, <1>2, <1>4
      <4>2. n > MaxCarry => b[5] # Queries!BEL /\ b[5] # Queries!ESC
        BY <1>1, <2>5, <4>1 DEF Ended
      <4> QED
        BY <4>1, <4>2 DEF Bell, Terminated
    <3>4. n > MaxCarry => Queries!OscQuery(d, q) \in {Queries!Partial, Queries!Other}
      BY <2>1, <3>3, ColourMatches
    <3>5. n > MaxCarry + 4 => Queries!OscQuery(d, q) = Queries!Other
      <4> SUFFICES ASSUME n > MaxCarry + 4 PROVE Queries!OscQuery(d, q) = Queries!Other
        OBVIOUS
      <4>1. n + k > MaxCarry + 5 /\ n > MaxCarry
        BY <1>1, <1>4, <2>5
      <4>2. ~Bell(d) /\ ~Terminated(d)
        BY <3>3, <4>1
      <4> QED
        BY <1>2, <2>1, <4>1, <4>2, ColourMatches
    <3> QED
      BY <1>9, <2>2, <3>1, <3>2, <3>4, <3>5
  <2> QED
    BY <1>1, <2>3, <2>4, <2>5
<1>10. CASE n < 3
  <2>1. /\ Len(b) < 3 /\ (Len(b) = 2 => b[2] \in {"[", "]"})
              => Queries!MatchQuery(b) = Queries!Partial
    BY Matches, Zenon
  <2>2. ~(n > MaxCarry)
    BY <1>1, <1>4, <1>10
  <2>3. n = 1 \/ (n = 2 /\ b[2] \in {"[", "]"}) => Queries!MatchQuery(b).kind = "partial"
    <3>1. Queries!Partial.kind = "partial"
      BY DEF Queries!Partial
    <3>2. n = 1 => Queries!MatchQuery(b) = Queries!Partial
      BY <1>1, <2>1
    <3>3. n = 2 /\ b[2] \in {"[", "]"} => Queries!MatchQuery(b) = Queries!Partial
      BY <1>1, <2>1
    <3> QED
      BY <3>1, <3>2, <3>3
  <2>4. n = 2 /\ b[2] \notin {"[", "]"} => Queries!MatchQuery(d) = Queries!MatchQuery(b)
    <3> SUFFICES ASSUME n = 2, b[2] \notin {"[", "]"}
                 PROVE  Queries!MatchQuery(d) = Queries!MatchQuery(b)
      OBVIOUS
    <3>1. d[2] = b[2]
      BY <1>2
    <3>2. Queries!MatchQuery(b) = Queries!Other
      BY <1>1, Matches
    <3>3. ~BeginsDSR(d) /\ ~BeginsColour(d, "b") /\ ~BeginsColour(d, "f")
      BY <3>1 DEF BeginsDSR, BeginsColour
    <3>4. Len(d) = 2 \/ Len(d) >= 3
      BY <1>1, <1>2
    <3> QED
      BY <1>3, <3>1, <3>2, <3>3, <3>4, Matches
  <2>5. n = 1 \/ n = 2
    BY <1>1, <1>10
  <2>6. CASE n = 1 \/ (n = 2 /\ b[2] \in {"[", "]"})
    BY <1>1, <1>2, <2>2, <2>3, <2>6
  <2>7. CASE n = 2 /\ b[2] \notin {"[", "]"}
    BY <1>1, <1>2, <2>2, <2>4, <2>7
  <2> QED
    BY <2>5, <2>6, <2>7
<1>11. CASE n >= 3 /\ BeginsDSR(b)
  <2>1. /\ Queries!MatchQuery(b) = Queries!Query(Queries!DSR, 3)
        /\ Queries!MatchQuery(d) = Queries!Query(Queries!DSR, 3)
    BY <1>3, <1>6, <1>11, Matches
  <2>2. Queries!Query(Queries!DSR, 3).kind = "query"
    BY DEF Queries!Query
  <2> QED
    BY <1>2, <2>1, <2>2
<1>12. ASSUME NEW c \in {"b", "f"}, n >= 3, BeginsColour(b, c)
       PROVE  \E q \in {Queries!BG, Queries!FG} :
                /\ Queries!MatchQuery(b) = Queries!OscQuery(b, q)
                /\ Queries!MatchQuery(d) = Queries!OscQuery(d, q)
  BY <1>3, <1>6, <1>12, Matches
<1>13. CASE n >= 3 /\ ~BeginsDSR(b) /\ ~BeginsColour(b, "b") /\ ~BeginsColour(b, "f")
  <2>1. Queries!MatchQuery(b) = Queries!Other
    BY <1>1, <1>13, Matches
  <2>2. Queries!MatchQuery(d) = Queries!Other
    <3>1. Len(d) >= 3
      BY <1>1, <1>2, <1>13
    <3> QED
      BY <1>3, <1>6, <1>13, <3>1, Matches
  <2>3. Queries!Other.kind = "other"
    BY DEF Queries!Other
  <2> QED
    BY <1>2, <2>1, <2>2, <2>3
<1> QED
  BY <1>1, <1>2, <1>9, <1>10, <1>11, <1>12, <1>13

LEMMA Upward ==
  ASSUME NEW n \in Nat, NEW Good, 0 \in Good, \A i \in 1..n : i - 1 \in Good => i \in Good
  PROVE  \A i \in 0..n : i \in Good
<1> DEFINE Bad == {i \in Nat : i \in 0..n /\ i \notin Good}
<1> SUFFICES ASSUME Bad # {} PROVE FALSE
  OBVIOUS
<1>1. PICK i \in Bad : \A k \in Bad : ~(<<k, i>> \in OpToRel(<, Nat))
  BY NatLessThanWellFounded, WFMin
<1>2. \A k \in Bad : ~(k < i)
  BY <1>1 DEF OpToRel
<1>3. i \in 1..n /\ i - 1 \in 0..n /\ i - 1 < i
  OBVIOUS
<1>4. i - 1 \in Good
  BY <1>2, <1>3
<1> QED
  BY <1>3, <1>4

Scan(n, c, r) == [next |-> n, carry |-> c, replies |-> r]
ScanStates == [next : Nat, carry : Seq(Queries!Symbols), replies : Seq(Seq(Queries!Symbols))]

LEMMA ScanParts ==
  ASSUME NEW s \in ScanStates
  PROVE  s.next \in Nat /\ s.carry \in Seq(Queries!Symbols) /\ s.replies \in Seq(Seq(Queries!Symbols))
  BY DEF ScanStates

LEMMA ScanMade ==
  ASSUME NEW n, NEW c, NEW r
  PROVE  /\ Scan(n, c, r).next = n /\ Scan(n, c, r).carry = c /\ Scan(n, c, r).replies = r
         /\ n \in Nat /\ c \in Seq(Queries!Symbols) /\ r \in Seq(Seq(Queries!Symbols))
              => Scan(n, c, r) \in ScanStates
  BY DEF Scan, ScanStates

LEMMA ScanKeeps ==
  ASSUME NEW s \in ScanStates, NEW n, NEW c
  PROVE  [s EXCEPT !.carry = c, !.next = n] = Scan(n, c, s.replies)
<1>1. PICK a, b, d : s = Scan(a, b, d)
  BY DEF Scan, ScanStates
<1>2. s.next = a /\ s.carry = b /\ s.replies = d
  BY <1>1 DEF Scan
<1>3. [Scan(a, b, d) EXCEPT !.carry = c] = Scan(a, c, d)
  BY DEF Scan
<1>4. [Scan(a, c, d) EXCEPT !.next = n] = Scan(n, c, d)
  BY DEF Scan
<1> QED
  BY <1>1, <1>2, <1>3, <1>4

LEMMA ScanReplies ==
  ASSUME NEW s \in ScanStates, NEW n, NEW r
  PROVE  [s EXCEPT !.next = n, !.replies = r] = Scan(n, s.carry, r)
<1>1. PICK a, b, d : s = Scan(a, b, d)
  BY DEF Scan, ScanStates
<1>2. s.next = a /\ s.carry = b /\ s.replies = d
  BY <1>1 DEF Scan
<1>3. [Scan(a, b, d) EXCEPT !.next = n] = Scan(n, b, d)
  BY DEF Scan
<1>4. [Scan(n, b, d) EXCEPT !.replies = r] = Scan(n, b, r)
  BY DEF Scan
<1> QED
  BY <1>1, <1>2, <1>3, <1>4

\* What answerQueries does at one symbol.
ScanNext(chunk, i, s, rest, m) ==
  IF i < s.next \/ chunk[i] # Queries!ESC THEN s
  ELSE IF m.kind = "partial" /\ Len(rest) <= MaxCarry
         THEN Scan(Len(chunk) + 1, rest, s.replies)
       ELSE IF m.kind = "query" THEN Scan(i + m.length, s.carry, Append(s.replies, m.reply))
       ELSE s

LEMMA ScannedIs ==
  ASSUME NEW chunk \in Seq(Queries!Symbols), NEW i \in 1..Len(chunk), NEW s \in ScanStates
  PROVE  Queries!Scanned(chunk, i, s) =
           ScanNext(chunk, i, s, SubSeq(chunk, i, Len(chunk)),
                    Queries!MatchQuery(SubSeq(chunk, i, Len(chunk))))
<1>1. PICK rest, m : rest = SubSeq(chunk, i, Len(chunk)) /\ m = Queries!MatchQuery(rest)
  OBVIOUS
<1> DEFINE skip == i < s.next \/ chunk[i] # Queries!ESC
           keeps == m.kind = "partial" /\ Queries!Carried(rest)
           query == m.kind = "query"
           after == i + m.length
           end == Len(chunk) + 1
           sent == Append(s.replies, m.reply)
<1>2. Queries!Scanned(chunk, i, s) =
        IF skip THEN s
        ELSE CASE keeps -> [s EXCEPT !.carry = rest, !.next = end]
               [] query -> [s EXCEPT !.next = after, !.replies = sent]
               [] OTHER -> s
  BY <1>1 DEF Queries!Scanned
<1> HIDE DEF after, end, sent
<1>3. [s EXCEPT !.carry = rest, !.next = end] = Scan(end, rest, s.replies)
  BY ScanKeeps
<1>4. [s EXCEPT !.next = after, !.replies = sent] = Scan(after, s.carry, sent)
  BY ScanReplies
<1>5. keeps <=> m.kind = "partial" /\ Len(rest) <= MaxCarry
  BY DEF Queries!Carried
<1>6. ~(query /\ keeps)
  OBVIOUS
<1> HIDE DEF skip, keeps, query
<1>7. Queries!Scanned(chunk, i, s) =
        IF skip THEN s
        ELSE IF keeps THEN Scan(end, rest, s.replies)
        ELSE IF query THEN Scan(after, s.carry, sent)
        ELSE s
  BY <1>2, <1>3, <1>4, <1>6
<1> QED
  BY <1>1, <1>5, <1>7 DEF ScanNext, skip, query, after, end, sent

\* The rest of a chunk from one of its symbols.
LEMMA Rests ==
  ASSUME NEW chunk \in Seq(Queries!Symbols), NEW i \in 1..Len(chunk)
  PROVE  /\ SubSeq(chunk, i, Len(chunk)) \in Seq(Queries!Symbols)
         /\ Len(SubSeq(chunk, i, Len(chunk))) = Len(chunk) - i + 1
         /\ Len(SubSeq(chunk, i, Len(chunk))) >= 1
         /\ SubSeq(chunk, i, Len(chunk))[1] = chunk[i]
<1>1. PICK n \in Nat : n = Len(chunk) /\ i <= n
  OBVIOUS
<1>2. i \in Nat \ {0} /\ n \in 0..Len(chunk) /\ i <= n + 1 /\ n - i + 1 >= 1
  BY <1>1
<1>3. /\ SubSeq(chunk, i, n) \in Seq(Queries!Symbols) /\ Len(SubSeq(chunk, i, n)) = n - i + 1
      /\ \A j \in 1..(n - i + 1) : SubSeq(chunk, i, n)[j] = chunk[i + j - 1]
  BY <1>2, Slices
<1>4. 1 \in 1..(n - i + 1) /\ i + 1 - 1 = i
  BY <1>2
<1> QED
  BY <1>1, <1>2, <1>3, <1>4

LEMMA ScansAreTyped ==
  ASSUME NEW chunk \in Seq(Queries!Symbols), NEW answered \in Seq(Seq(Queries!Symbols)),
         NEW S, ScanIs(S, Len(chunk), chunk, answered)
  PROVE  /\ \A i \in 0..Len(chunk) : S[i] \in ScanStates
         /\ S[0] = Scan(1, <<>>, answered)
         /\ \A i \in 1..Len(chunk) : S[i] = Queries!Scanned(chunk, i, S[i - 1])
<1>1. PICK n \in Nat : n = Len(chunk)
  OBVIOUS
<1>2. S[0] = Scan(1, <<>>, answered)
  BY <1>1 DEF ScanIs, Scan
<1>3. \A i \in 1..n : S[i] = Queries!Scanned(chunk, i, S[i - 1])
  <2>1. \A i \in 1..n : i \in 0..n /\ i # 0
    OBVIOUS
  <2> QED
    BY <1>1, <2>1 DEF ScanIs
<1> DEFINE Good == {i \in 0..n : S[i] \in ScanStates}
<1>4. 0 \in Good
  <2>1. Scan(1, <<>>, answered) \in ScanStates
    BY EmptySeq DEF Scan, ScanStates
  <2> QED
    BY <1>2, <2>1
<1>5. ASSUME NEW i \in 1..n, i - 1 \in Good PROVE i \in Good
  <2> DEFINE s == S[i - 1]
             rest == SubSeq(chunk, i, n)
             m == Queries!MatchQuery(rest)
  <2>1. s \in ScanStates /\ S[i] = Queries!Scanned(chunk, i, s)
    BY <1>3, <1>5
  <2>2. rest \in Seq(Queries!Symbols) /\ Len(rest) >= 1 /\ rest[1] = chunk[i]
    BY <1>1, Rests
  <2>3. chunk[i] = Queries!ESC => m \in MatchRecords
    BY <2>2, MatchFits
  <2>4. \/ Queries!Scanned(chunk, i, s) = s
        \/ Queries!Scanned(chunk, i, s) = Scan(n + 1, rest, s.replies)
        \/ /\ Queries!Scanned(chunk, i, s) = Scan(i + m.length, s.carry, Append(s.replies, m.reply))
           /\ chunk[i] = Queries!ESC
    <3> HIDE DEF m, rest, s
    <3>1. rest = SubSeq(chunk, i, Len(chunk)) /\ m = Queries!MatchQuery(rest) /\ i \in 1..Len(chunk)
      BY <1>1 DEF rest, m
    <3>2. Queries!Scanned(chunk, i, s) = ScanNext(chunk, i, s, rest, m)
      BY <2>1, <3>1, ScannedIs
    <3> QED
      BY <1>1, <3>2 DEF ScanNext
  <2> HIDE DEF m, rest, s
  <2>5. s.next \in Nat /\ s.carry \in Seq(Queries!Symbols) /\ s.replies \in Seq(Seq(Queries!Symbols))
    BY <2>1, ScanParts
  <2>6. CASE Queries!Scanned(chunk, i, s) = Scan(n + 1, rest, s.replies)
    <3>1. n + 1 \in Nat
      OBVIOUS
    <3>2. Scan(n + 1, rest, s.replies) \in ScanStates
      BY <2>2, <2>5, <3>1, ScanMade
    <3> QED
      BY <2>1, <2>6, <3>2
  <2>7. CASE /\ Queries!Scanned(chunk, i, s) = Scan(i + m.length, s.carry, Append(s.replies, m.reply))
             /\ chunk[i] = Queries!ESC
    <3>1. m.length \in Nat /\ m.reply \in Seq(Queries!Symbols)
      BY <2>3, <2>7 DEF MatchRecords
    <3>2. i + m.length \in Nat /\ Append(s.replies, m.reply) \in Seq(Seq(Queries!Symbols))
      BY <2>5, <3>1
    <3>3. Scan(i + m.length, s.carry, Append(s.replies, m.reply)) \in ScanStates
      BY <2>5, <3>2, ScanMade
    <3> QED
      BY <2>1, <2>5, <2>7, <3>2, <3>3
  <2> QED
    BY <2>1, <2>4, <2>6, <2>7
<1>6. \A i \in 0..n : i \in Good
  <2> HIDE DEF Good
  <2> QED
    BY <1>4, <1>5, Upward
<1> QED
  BY <1>1, <1>2, <1>3, <1>6

\* From a symbol of the first of two chunks, the rest is that of the first and the second.
LEMMA RestsGoOn ==
  ASSUME NEW c1 \in Seq(Queries!Symbols), NEW c2 \in Seq(Queries!Symbols),
         NEW c, c = c1 \o c2, NEW i \in 1..Len(c1)
  PROVE  /\ SubSeq(c, i, Len(c)) = SubSeq(c1, i, Len(c1)) \o c2
         /\ i \in 1..Len(c) /\ c[i] = c1[i]
<1>1. PICK n \in Nat, n2 \in Nat : n = Len(c1) /\ n2 = Len(c2) /\ i \in 1..n
  OBVIOUS
<1>2. /\ c \in Seq(Queries!Symbols) /\ Len(c) = n + n2
      /\ \A j \in 1..(n + n2) : c[j] = IF j <= n THEN c1[j] ELSE c2[j - n]
  BY <1>1, ConcatProperties
<1>3. PICK b, d : b = SubSeq(c1, i, Len(c1)) /\ d = SubSeq(c, i, Len(c))
  OBVIOUS
<1>4. /\ b \in Seq(Queries!Symbols) /\ Len(b) = n - i + 1
      /\ \A j \in 1..(n - i + 1) : b[j] = c1[i + j - 1]
  <2>1. i \in Nat \ {0} /\ n \in 0..Len(c1) /\ i <= n + 1
    BY <1>1
  <2> QED
    BY <1>1, <1>3, <2>1, Slices
<1>5. /\ d \in Seq(Queries!Symbols) /\ Len(d) = n + n2 - i + 1
      /\ \A j \in 1..(n + n2 - i + 1) : d[j] = c[i + j - 1]
  <2>1. i \in Nat \ {0} /\ Len(c) \in 0..Len(c) /\ i <= Len(c) + 1
    BY <1>1, <1>2
  <2> QED
    BY <1>2, <1>3, <2>1, Slices
<1>6. /\ b \o c2 \in Seq(Queries!Symbols) /\ Len(b \o c2) = (n - i + 1) + n2
      /\ \A j \in 1..((n - i + 1) + n2) :
           (b \o c2)[j] = IF j <= n - i + 1 THEN b[j] ELSE c2[j - (n - i + 1)]
  <2>1. /\ b \o c2 \in Seq(Queries!Symbols) /\ Len(b \o c2) = Len(b) + Len(c2)
        /\ \A j \in 1..(Len(b) + Len(c2)) : (b \o c2)[j] = IF j <= Len(b) THEN b[j] ELSE c2[j - Len(b)]
    BY <1>4, ConcatProperties
  <2> QED
    BY <1>1, <1>4, <2>1
<1>7. ASSUME NEW j \in 1..((n - i + 1) + n2) PROVE d[j] = (b \o c2)[j]
  <2>1. /\ i + j - 1 \in 1..(n + n2) /\ (i + j - 1 <= n <=> j <= n - i + 1)
        /\ i + j - 1 - n = j - (n - i + 1) /\ j \in 1..(n + n2 - i + 1)
    BY <1>1
  <2>2. c[i + j - 1] = IF j <= n - i + 1 THEN c1[i + j - 1] ELSE c2[j - (n - i + 1)]
    <3>1. PICK x \in 1..(n + n2) :
            /\ x = i + j - 1 /\ (x <= n <=> j <= n - i + 1) /\ x - n = j - (n - i + 1)
      BY <2>1
    <3>2. c[x] = IF x <= n THEN c1[x] ELSE c2[x - n]
      BY <1>2
    <3> QED
      BY <3>1, <3>2
  <2>3. j <= n - i + 1 => b[j] = c1[i + j - 1]
    BY <1>4
  <2> QED
    BY <1>5, <1>6, <2>1, <2>2, <2>3
<1>8. d = b \o c2
  <2>1. Len(d) = Len(b \o c2) /\ \A j \in 1..Len(d) : d[j] = (b \o c2)[j]
    BY <1>1, <1>5, <1>6, <1>7
  <2> QED
    BY <1>5, <1>6, <2>1, SeqEqual
<1>9. i \in 1..(n + n2) /\ i <= n
  BY <1>1
<1> QED
  BY <1>1, <1>2, <1>3, <1>8, <1>9

LEMMA RestIsSecond ==
  ASSUME NEW c1 \in Seq(Queries!Symbols), NEW c2 \in Seq(Queries!Symbols),
         NEW c, c = c1 \o c2
  PROVE  SubSeq(c, Len(c1) + 1, Len(c)) = c2
<1>1. PICK n \in Nat, n2 \in Nat : n = Len(c1) /\ n2 = Len(c2)
  OBVIOUS
<1>2. /\ c \in Seq(Queries!Symbols) /\ Len(c) = n + n2
      /\ \A j \in 1..(n + n2) : c[j] = IF j <= n THEN c1[j] ELSE c2[j - n]
  BY <1>1, ConcatProperties
<1>3. PICK r : r = SubSeq(c, n + 1, n + n2)
  OBVIOUS
<1>4. /\ r \in Seq(Queries!Symbols) /\ Len(r) = n2
      /\ \A j \in 1..n2 : r[j] = c[n + 1 + j - 1]
  <2>1. /\ n + 1 \in Nat \ {0} /\ n + n2 \in 0..Len(c) /\ n + 1 <= n + n2 + 1
        /\ n + n2 - (n + 1) + 1 = n2
    BY <1>1, <1>2
  <2> QED
    BY <1>2, <1>3, <2>1, Slices
<1>5. ASSUME NEW j \in 1..n2 PROVE r[j] = c2[j]
  <2>1. PICK x \in 1..(n + n2) : x = n + 1 + j - 1 /\ ~(x <= n) /\ x - n = j
    OBVIOUS
  <2>2. c[x] = c2[x - n]
    BY <1>2, <2>1
  <2> QED
    BY <1>4, <2>1, <2>2
<1>6. r = c2
  BY <1>1, <1>4, <1>5, SeqEqual
<1> QED
  BY <1>1, <1>2, <1>3, <1>6

\* The scan of a chunk that goes on is the scan of what has come, until a rest of it
\* is carried over.
NothingCut(s, end) == s.carry = <<>> /\ s.next <= end + 1
Kept(S, c1, i, s) ==
  \E k \in 1..Len(c1) :
    /\ k <= i /\ s = Scan(Len(c1) + 1, SubSeq(c1, k, Len(c1)), S[k - 1].replies)
    /\ S[k - 1].next <= k /\ S[k - 1].carry = <<>>

LEMMA SameBefore ==
  ASSUME NEW c1 \in Seq(Queries!Symbols), NEW c2 \in Seq(Queries!Symbols),
         NEW answered \in Seq(Seq(Queries!Symbols)),
         NEW c \in Seq(Queries!Symbols), c = c1 \o c2,
         NEW S1, ScanIs(S1, Len(c1), c1, answered),
         NEW S, ScanIs(S, Len(c), c, answered)
  PROVE  \A i \in 0..Len(c1) :
           \/ S1[i] = S[i] /\ NothingCut(S[i], Len(c1))
           \/ Kept(S, c1, i, S1[i])
<1>1. PICK n \in Nat, n2 \in Nat : n = Len(c1) /\ n2 = Len(c2)
  OBVIOUS
<1>2. Len(c) = n + n2 /\ \A i \in 1..n : i \in 1..Len(c) /\ c[i] = c1[i]
  <2>1. /\ Len(c1 \o c2) = n + n2
        /\ \A i \in 1..(n + n2) : (c1 \o c2)[i] = IF i <= n THEN c1[i] ELSE c2[i - n]
    BY <1>1, ConcatProperties
  <2>2. \A i \in 1..n : i \in 1..(n + n2) /\ i <= n
    OBVIOUS
  <2> QED
    BY <2>1, <2>2
<1>3. /\ \A i \in 0..n : S1[i] \in ScanStates
      /\ S1[0] = Scan(1, <<>>, answered)
      /\ \A i \in 1..n : S1[i] = Queries!Scanned(c1, i, S1[i - 1])
  BY <1>1, ScansAreTyped
<1>4. /\ \A i \in 0..Len(c) : S[i] \in ScanStates
      /\ S[0] = Scan(1, <<>>, answered)
      /\ \A i \in 1..Len(c) : S[i] = Queries!Scanned(c, i, S[i - 1])
  BY ScansAreTyped
<1> DEFINE Good == {i \in 0..n : \/ S1[i] = S[i] /\ NothingCut(S[i], n)
                                 \/ Kept(S, c1, i, S1[i])}
<1>5. 0 \in Good
  BY <1>3, <1>4, ScanMade DEF NothingCut
<1>6. ASSUME NEW i \in 1..n, i - 1 \in Good PROVE i \in Good
  <2>1. PICK s : s = S1[i - 1]
    OBVIOUS
  <2>2. i - 1 \in 0..n /\ i \in 1..Len(c) /\ i \in 1..Len(c1) /\ i - 1 \in 0..Len(c) /\ i \in 0..n
    BY <1>1, <1>2
  <2>3. s \in ScanStates /\ s.next \in Nat /\ S1[i] = Queries!Scanned(c1, i, s)
    BY <1>3, <2>1, <2>2, ScanParts
  <2>4. PICK b : b = SubSeq(c1, i, Len(c1))
    OBVIOUS
  <2>5. b \in Seq(Queries!Symbols) /\ Len(b) = n - i + 1 /\ Len(b) >= 1 /\ b[1] = c1[i]
    BY <1>1, <2>2, <2>4, Rests
  <2>6. PICK m : m = Queries!MatchQuery(b)
    OBVIOUS
  <2>7. S1[i] = ScanNext(c1, i, s, b, m)
    BY <2>2, <2>3, <2>4, <2>6, ScannedIs
  <2>8. CASE Kept(S, c1, i - 1, s)
    <3>1. PICK k \in 1..Len(c1) :
            /\ k <= i - 1 /\ s = Scan(Len(c1) + 1, SubSeq(c1, k, Len(c1)), S[k - 1].replies)
            /\ S[k - 1].next <= k /\ S[k - 1].carry = <<>>
      BY <2>8 DEF Kept
    <3>2. s.next = n + 1 /\ i < s.next /\ k <= i
      BY <1>1, <3>1, ScanMade
    <3>3. S1[i] = s
      BY <2>7, <3>2 DEF ScanNext
    <3>4. Kept(S, c1, i, S1[i])
      BY <3>1, <3>2, <3>3 DEF Kept
    <3> QED
      BY <2>2, <3>4
  <2>9. CASE s = S[i - 1] /\ NothingCut(s, n)
    <3>1. PICK d : d = SubSeq(c, i, Len(c))
      OBVIOUS
    <3>2. d \in Seq(Queries!Symbols) /\ Len(d) = n + n2 - i + 1 /\ d = b \o c2
      <4>1. d \in Seq(Queries!Symbols) /\ Len(d) = n + n2 - i + 1
        <5>1. Len(c) = n + n2
          BY <1>2
        <5>2. /\ SubSeq(c, i, Len(c)) \in Seq(Queries!Symbols)
              /\ Len(SubSeq(c, i, Len(c))) = Len(c) - i + 1
          BY <2>2, Rests
        <5> QED
          BY <3>1, <5>1, <5>2
      <4>2. d = b \o c2
        <5>1. SubSeq(c, i, Len(c)) = SubSeq(c1, i, Len(c1)) \o c2
          BY <2>2, RestsGoOn
        <5> QED
          BY <2>4, <3>1, <5>1
      <4> QED
        BY <4>1, <4>2
    <3>3. PICK m2 : m2 = Queries!MatchQuery(d)
      OBVIOUS
    <3>4. S[i] = ScanNext(c, i, s, d, m2)
      <4>1. S[i] = Queries!Scanned(c, i, s)
        BY <1>4, <2>2, <2>9
      <4> QED
        BY <2>2, <2>3, <3>1, <3>3, <4>1, ScannedIs
    <3>5. CASE i < s.next \/ c1[i] # Queries!ESC
      <4>1. i < s.next \/ c[i] # Queries!ESC
        BY <1>2, <3>5
      <4>2. S1[i] = s /\ S[i] = s
        BY <2>7, <3>4, <3>5, <4>1 DEF ScanNext
      <4> QED
        BY <2>2, <2>9, <4>2
    <3>6. CASE i >= s.next /\ c1[i] = Queries!ESC
      <4>1. ~(i < s.next \/ c1[i] # Queries!ESC) /\ ~(i < s.next \/ c[i] # Queries!ESC)
        BY <1>2, <2>3, <3>6
      <4>2. /\ m \in MatchRecords
            /\ m.kind = "query" => m.length >= 1 /\ m.length <= Len(b)
        BY <2>5, <2>6, <3>6, MatchFits
      <4>3. /\ m.kind # "partial" => m2 = m
            /\ m.kind = "partial" /\ Len(b) > MaxCarry => m2.kind # "query"
        BY <2>5, <2>6, <3>2, <3>3, <3>6, MatchesStay
      <4>4. MaxCarry \in Nat
        BY HomeConstants
      <4>5. CASE m.kind = "partial" /\ Len(b) <= MaxCarry
        <5>1. S1[i] = Scan(Len(c1) + 1, SubSeq(c1, i, Len(c1)), S[i - 1].replies)
          BY <2>4, <2>7, <2>9, <4>1, <4>5 DEF ScanNext
        <5>2. S[i - 1].next <= i /\ S[i - 1].carry = <<>>
          BY <2>3, <2>9, <3>6 DEF NothingCut
        <5>3. Kept(S, c1, i, S1[i])
          BY <2>2, <5>1, <5>2 DEF Kept
        <5> QED
          BY <2>2, <5>3
      <4>6. CASE m.kind = "partial" /\ Len(b) > MaxCarry
        <5>1. ~(Len(b) <= MaxCarry) /\ ~(Len(d) <= MaxCarry)
          BY <1>1, <2>5, <3>2, <4>4, <4>6
        <5>2. S1[i] = s
          BY <2>7, <4>1, <4>6, <5>1 DEF ScanNext
        <5>3. S[i] = s
          BY <3>4, <4>1, <4>3, <4>6, <5>1 DEF ScanNext
        <5> QED
          BY <2>2, <2>9, <5>2, <5>3
      <4>7. CASE m.kind = "query"
        <5>1. S1[i] = Scan(i + m.length, s.carry, Append(s.replies, m.reply))
          BY <2>7, <4>1, <4>7 DEF ScanNext
        <5>2. S[i] = Scan(i + m.length, s.carry, Append(s.replies, m.reply))
          BY <3>4, <4>1, <4>3, <4>7 DEF ScanNext
        <5>3. i + m.length <= n + 1
          <6>1. m.length \in Nat /\ m.length <= n - i + 1
            BY <2>5, <4>2, <4>7 DEF MatchRecords
          <6> QED
            BY <6>1
        <5>4. NothingCut(S[i], n)
          BY <2>9, <5>2, <5>3, ScanMade DEF NothingCut
        <5> QED
          BY <2>2, <5>1, <5>2, <5>4
      <4>8. CASE m.kind \notin {"partial", "query"}
        <5>1. S1[i] = s
          BY <2>7, <4>1, <4>8 DEF ScanNext
        <5>2. S[i] = s
          BY <3>4, <4>1, <4>3, <4>8 DEF ScanNext
        <5> QED
          BY <2>2, <2>9, <5>1, <5>2
      <4>9. Len(b) \in Nat
        BY <2>5
      <4> QED
        BY <4>4, <4>5, <4>6, <4>7, <4>8, <4>9
    <3>7. i \in Nat
      OBVIOUS
    <3> QED
      BY <2>3, <3>5, <3>6, <3>7
  <2>10. Kept(S, c1, i - 1, s) \/ (s = S[i - 1] /\ NothingCut(s, n))
    BY <1>6, <2>1
  <2> QED
    BY <2>8, <2>9, <2>10
<1>7. \A i \in 0..n : i \in Good
  <2> HIDE DEF Good
  <2> QED
    BY <1>5, <1>6, Upward
<1> QED
  BY <1>1, <1>7

\* The scan of the rest of a chunk is what the scan of the chunk does there.
Follows(s, t, k) ==
  /\ s.carry = t.carry /\ s.replies = t.replies
  /\ s.next = t.next + k - 1 \/ (t.next = 1 /\ s.next <= k)

\* S scans c, and T what is left of it from its k-th symbol.
Continues(c, k, answered, S, d, sent, T) ==
  /\ c \in Seq(Queries!Symbols) /\ k \in 1..(Len(c) + 1) /\ d = SubSeq(c, k, Len(c))
  /\ answered \in Seq(Seq(Queries!Symbols)) /\ sent \in Seq(Seq(Queries!Symbols))
  /\ d \in Seq(Queries!Symbols)
  /\ ScanIs(S, Len(c), c, answered) /\ ScanIs(T, Len(d), d, sent)
  /\ S[k - 1].next <= k /\ S[k - 1].carry = <<>> /\ S[k - 1].replies = sent

SameEnd(c, S, d, T) ==
  S[Len(c)].carry = T[Len(d)].carry /\ S[Len(c)].replies = T[Len(d)].replies

LEMMA SameAfter ==
  ASSUME NEW c, NEW k, NEW answered, NEW S, NEW d, NEW sent, NEW T,
         Continues(c, k, answered, S, d, sent, T)
  PROVE  SameEnd(c, S, d, T)
<1>0. /\ c \in Seq(Queries!Symbols) /\ k \in 1..(Len(c) + 1) /\ d = SubSeq(c, k, Len(c))
      /\ answered \in Seq(Seq(Queries!Symbols)) /\ sent \in Seq(Seq(Queries!Symbols))
      /\ d \in Seq(Queries!Symbols)
      /\ ScanIs(S, Len(c), c, answered) /\ ScanIs(T, Len(d), d, sent)
      /\ S[k - 1].next <= k /\ S[k - 1].carry = <<>> /\ S[k - 1].replies = sent
  BY DEF Continues
<1>1. PICK n \in Nat : n = Len(c) /\ k <= n + 1 /\ k \in Nat \ {0}
  <2>1. PICK n \in Nat : n = Len(c)
    BY <1>0
  <2>2. k \in 1..(n + 1)
    BY <1>0, <2>1
  <2> QED
    BY <2>1, <2>2
<1>2. Len(d) = n - k + 1 /\ \A j \in 1..(n - k + 1) : d[j] = c[k + j - 1]
  <2>1. k \in Nat \ {0} /\ n \in 0..Len(c) /\ k <= n + 1
    BY <1>1
  <2> QED
    BY <1>0, <1>1, <2>1, Slices
<1>3. PICK l \in Nat : l = n - k + 1 /\ l = Len(d)
  <2>1. n - k + 1 \in Nat
    BY <1>1
  <2> QED
    BY <1>2, <2>1
<1>4. /\ \A i \in 0..n : S[i] \in ScanStates
      /\ \A i \in 1..n : S[i] = Queries!Scanned(c, i, S[i - 1])
  BY <1>0, <1>1, ScansAreTyped
<1>5. /\ \A i \in 0..l : T[i] \in ScanStates
      /\ T[0] = Scan(1, <<>>, sent)
      /\ \A i \in 1..l : T[i] = Queries!Scanned(d, i, T[i - 1])
  <2>1. /\ \A i \in 0..Len(d) : T[i] \in ScanStates
        /\ T[0] = Scan(1, <<>>, sent)
        /\ \A i \in 1..Len(d) : T[i] = Queries!Scanned(d, i, T[i - 1])
    <3>1. /\ d \in Seq(Queries!Symbols) /\ sent \in Seq(Seq(Queries!Symbols))
          /\ ScanIs(T, Len(d), d, sent)
      BY <1>0
    <3> QED
      BY <3>1, ScansAreTyped
  <2> QED
    BY <1>3, <2>1
<1> DEFINE Good == {i \in 0..l : Follows(S[k - 1 + i], T[i], k)}
<1>6. 0 \in Good
  <2>1. k - 1 + 0 = k - 1
    BY <1>1
  <2> QED
    BY <1>0, <1>5, <2>1, ScanMade DEF Follows
<1>7. ASSUME NEW i \in 1..l, i - 1 \in Good PROVE i \in Good
  <2>1. PICK j \in 1..n : j = k - 1 + i /\ j - 1 = k - 1 + (i - 1)
    BY <1>1, <1>3
  <2>2. PICK s, t : s = S[j - 1] /\ t = T[i - 1]
    OBVIOUS
  <2>3. i \in 1..Len(d) /\ j \in 1..Len(c) /\ i - 1 \in 0..l /\ j - 1 \in 0..n /\ i \in 0..l
    BY <1>1, <1>3, <2>1
  <2>4. /\ s \in ScanStates /\ s.next \in Nat /\ t \in ScanStates /\ t.next \in Nat
        /\ S[j] = Queries!Scanned(c, j, s) /\ T[i] = Queries!Scanned(d, i, t)
    BY <1>4, <1>5, <2>2, <2>3, ScanParts
  <2>5. Follows(s, t, k)
    BY <1>7, <2>1, <2>2
  <2>6. SubSeq(d, i, Len(d)) = SubSeq(c, j, Len(c))
    <3>1. PICK r, q : r = SubSeq(d, i, Len(d)) /\ q = SubSeq(c, j, Len(c))
      OBVIOUS
    <3>2. i \in Nat \ {0} /\ l \in 0..Len(d) /\ i <= l + 1 /\ l = Len(d)
      BY <1>3
    <3>3. /\ r \in Seq(Queries!Symbols) /\ Len(r) = l - i + 1
          /\ \A x \in 1..(l - i + 1) : r[x] = d[i + x - 1]
      BY <1>0, <3>1, <3>2, Slices
    <3>4. j \in Nat \ {0} /\ n \in 0..Len(c) /\ j <= n + 1 /\ n = Len(c)
      BY <1>1, <2>1
    <3>5. /\ q \in Seq(Queries!Symbols) /\ Len(q) = n - j + 1
          /\ \A x \in 1..(n - j + 1) : q[x] = c[j + x - 1]
      BY <1>0, <3>1, <3>4, Slices
    <3>6. l - i + 1 = n - j + 1
      BY <1>1, <1>3, <2>1
    <3>7. ASSUME NEW x \in 1..(l - i + 1) PROVE r[x] = q[x]
      <4>1. i + x - 1 \in 1..(n - k + 1) /\ k + (i + x - 1) - 1 = j + x - 1
        BY <1>1, <1>3, <2>1
      <4>2. d[i + x - 1] = c[j + x - 1]
        BY <1>2, <4>1
      <4> QED
        BY <3>3, <3>5, <3>6, <4>2
    <3>8. Len(r) = Len(q) /\ \A x \in 1..Len(r) : r[x] = q[x]
      BY <3>3, <3>5, <3>6, <3>7
    <3> QED
      BY <3>1, <3>3, <3>5, <3>8, SeqEqual
  <2>7. PICK b \in Seq(Queries!Symbols) :
           b = SubSeq(c, j, Len(c)) /\ Len(b) >= 1 /\ b[1] = c[j] /\ Len(b) = n - j + 1
    BY <1>0, <1>1, <2>3, Rests
  <2>8. PICK m : m = Queries!MatchQuery(b)
    OBVIOUS
  <2>9. S[j] = ScanNext(c, j, s, b, m)
    BY <1>0, <2>3, <2>4, <2>7, <2>8, ScannedIs
  <2>10. T[i] = ScanNext(d, i, t, b, m)
    <3>1. /\ d \in Seq(Queries!Symbols) /\ i \in 1..Len(d) /\ t \in ScanStates
          /\ T[i] = Queries!Scanned(d, i, t) /\ b = SubSeq(d, i, Len(d))
      BY <1>0, <2>3, <2>4, <2>6, <2>7
    <3>2. T[i] = ScanNext(d, i, t, SubSeq(d, i, Len(d)), Queries!MatchQuery(SubSeq(d, i, Len(d))))
      BY <3>1, ScannedIs
    <3> QED
      BY <2>8, <3>1, <3>2
  <2>11. d[i] = c[j]
    <3>1. i \in 1..(n - k + 1) /\ k + i - 1 = j
      BY <1>1, <1>3, <2>1
    <3> QED
      BY <1>2, <3>1
  <2>12. i < t.next <=> j < s.next
    BY <1>1, <2>1, <2>4, <2>5 DEF Follows
  <2>13. s.carry = t.carry /\ s.replies = t.replies
    BY <2>5 DEF Follows
  <2>14. CASE i < t.next \/ d[i] # Queries!ESC
    <3>1. S[j] = s /\ T[i] = t
      BY <2>9, <2>10, <2>11, <2>12, <2>14 DEF ScanNext
    <3> QED
      BY <2>1, <2>3, <2>5, <3>1
  <2>15. CASE ~(i < t.next \/ d[i] # Queries!ESC) /\ m.kind = "partial" /\ Len(b) <= MaxCarry
    <3>1. S[j] = Scan(Len(c) + 1, b, s.replies) /\ T[i] = Scan(Len(d) + 1, b, t.replies)
      BY <2>9, <2>10, <2>11, <2>12, <2>15 DEF ScanNext
    <3>2. n + 1 = (l + 1) + k - 1
      BY <1>1, <1>3
    <3>3. S[j] = Scan(n + 1, b, s.replies) /\ T[i] = Scan(l + 1, b, t.replies)
      BY <1>1, <1>3, <3>1
    <3>4. /\ S[j].next = n + 1 /\ S[j].carry = b /\ S[j].replies = s.replies
          /\ T[i].next = l + 1 /\ T[i].carry = b /\ T[i].replies = t.replies
      BY <3>3 DEF Scan
    <3>5. Follows(S[j], T[i], k)
      BY <2>13, <3>2, <3>4 DEF Follows
    <3> QED
      BY <2>1, <2>3, <3>5
  <2>16. CASE ~(i < t.next \/ d[i] # Queries!ESC) /\ m.kind = "query"
    <3>1. /\ S[j] = Scan(j + m.length, s.carry, Append(s.replies, m.reply))
          /\ T[i] = Scan(i + m.length, t.carry, Append(t.replies, m.reply))
      BY <2>9, <2>10, <2>11, <2>12, <2>16 DEF ScanNext
    <3>2. m.length \in Nat
      <4>1. b[1] = Queries!ESC
        BY <2>7, <2>11, <2>16
      <4>2. m \in MatchRecords
        BY <2>7, <2>8, <4>1, MatchFits
      <4> QED
        BY <4>2 DEF MatchRecords
    <3>3. j + m.length = (i + m.length) + k - 1
      <4>1. i \in Nat /\ k \in Nat /\ j \in Nat /\ j = k - 1 + i
        BY <1>1, <1>3, <2>1
      <4>2. PICK e \in Nat : e = m.length
        BY <3>2
      <4>3. j + e = (i + e) + k - 1
        BY <4>1
      <4> QED
        BY <4>2, <4>3
    <3>4. PICK x, y, p, q : /\ x = j + m.length /\ y = i + m.length
                            /\ p = Append(s.replies, m.reply) /\ q = Append(t.replies, m.reply)
      OBVIOUS
    <3>5. /\ S[j].next = x /\ S[j].carry = s.carry /\ S[j].replies = p
          /\ T[i].next = y /\ T[i].carry = t.carry /\ T[i].replies = q
      <4>1. S[j] = Scan(x, s.carry, p) /\ T[i] = Scan(y, t.carry, q)
        BY <3>1, <3>4
      <4> QED
        BY <4>1, ScanMade
    <3>6. s.carry = t.carry /\ s.replies = t.replies
      BY <2>13
    <3>7. x = y + k - 1 /\ p = q
      BY <3>3, <3>4, <3>6
    <3>8. Follows(S[j], T[i], k)
      BY <3>5, <3>6, <3>7 DEF Follows
    <3> QED
      BY <2>1, <2>3, <3>8
  <2>17. CASE /\ ~(i < t.next \/ d[i] # Queries!ESC) /\ m.kind # "query"
              /\ ~(m.kind = "partial" /\ Len(b) <= MaxCarry)
    <3>1. S[j] = s /\ T[i] = t
      BY <2>9, <2>10, <2>11, <2>12, <2>17 DEF ScanNext
    <3> QED
      BY <2>1, <2>3, <2>5, <3>1
  <2> QED
    BY <2>14, <2>15, <2>16, <2>17
<1>8. \A i \in 0..l : i \in Good
  <2> HIDE DEF Good
  <2> QED
    BY <1>6, <1>7, Upward
<1>9. Follows(S[n], T[l], k)
  <2>1. l \in 0..l /\ k - 1 + l = n
    BY <1>1, <1>3
  <2>2. Follows(S[k - 1 + l], T[l], k)
    BY <1>8, <2>1
  <2> QED
    BY <2>1, <2>2
<1> QED
  BY <1>1, <1>3, <1>9 DEF Follows, SameEnd

\* A chunk that comes in two reads is answered like one that comes in one.
LEMMA CutsAreNotSeen ==
  ASSUME NEW c1 \in Seq(Queries!Symbols), NEW c2 \in Seq(Queries!Symbols),
         NEW answered \in Seq(Seq(Queries!Symbols)),
         NEW first, first = Queries!AnswerQueries(c1, answered)
  PROVE  Queries!AnswerQueries(first.carry \o c2, first.replies)
           = Queries!AnswerQueries(c1 \o c2, answered)
<1>1. PICK c \in Seq(Queries!Symbols), n \in Nat, n2 \in Nat :
        /\ c = c1 \o c2 /\ n = Len(c1) /\ n2 = Len(c2) /\ Len(c) = n + n2
        /\ \A i \in 1..(n + n2) : c[i] = IF i <= n THEN c1[i] ELSE c2[i - n]
  <2>1. PICK c : c = c1 \o c2
    OBVIOUS
  <2>2. PICK n \in Nat, n2 \in Nat : n = Len(c1) /\ n2 = Len(c2)
    OBVIOUS
  <2>3. /\ c \in Seq(Queries!Symbols) /\ Len(c) = n + n2
        /\ \A i \in 1..(n + n2) : c[i] = IF i <= n THEN c1[i] ELSE c2[i - n]
    BY <2>1, <2>2, ConcatProperties
  <2> QED
    BY <2>1, <2>2, <2>3
<1>2. PICK S1 : /\ ScanIs(S1, Len(c1), c1, answered)
                /\ first = [carry |-> S1[Len(c1)].carry, replies |-> S1[Len(c1)].replies]
  BY AnswersScan
<1>3. first.carry = S1[n].carry /\ first.replies = S1[n].replies /\ S1[n] \in ScanStates
  <2>1. n \in 0..Len(c1)
    BY <1>1
  <2> QED
    BY <1>1, <1>2, <2>1, ScansAreTyped
<1>4. PICK S : /\ ScanIs(S, Len(c), c, answered)
               /\ Queries!AnswerQueries(c, answered)
                    = [carry |-> S[Len(c)].carry, replies |-> S[Len(c)].replies]
  BY AnswersScan
<1>5. first.replies \in Seq(Seq(Queries!Symbols)) /\ first.carry \in Seq(Queries!Symbols)
  BY <1>3, ScanParts
<1>6. PICK d \in Seq(Queries!Symbols) : d = first.carry \o c2
  BY <1>5, ConcatProperties
<1>7. PICK T : /\ ScanIs(T, Len(d), d, first.replies)
               /\ Queries!AnswerQueries(d, first.replies)
                    = [carry |-> T[Len(d)].carry, replies |-> T[Len(d)].replies]
  BY AnswersScan
<1>8. \/ S1[n] = S[n] /\ NothingCut(S[n], n)
      \/ Kept(S, c1, n, S1[n])
  <2>1. n \in 0..Len(c1)
    BY <1>1
  <2> QED
    BY <1>1, <1>2, <1>4, <2>1, SameBefore
<1>9. \A i \in 0..Len(c) : S[i] \in ScanStates
  BY <1>4, ScansAreTyped
<1>10. PICK k \in 1..(Len(c) + 1) :
         /\ d = SubSeq(c, k, Len(c)) /\ S[k - 1].next <= k /\ S[k - 1].carry = <<>>
         /\ S[k - 1].replies = first.replies
  <2>1. CASE S1[n] = S[n] /\ NothingCut(S[n], n)
    <3>1. d = c2
      BY <1>3, <1>6, <2>1, ConcatEmptySeq DEF NothingCut
    <3>2. n + 1 \in 1..(Len(c) + 1) /\ (n + 1) - 1 = n
      BY <1>1
    <3>3. c2 = SubSeq(c, n + 1, Len(c))
      BY <1>1, RestIsSecond
    <3>4. S[n].next <= n + 1 /\ S[n].carry = <<>> /\ S[n].replies = first.replies
      BY <1>3, <2>1 DEF NothingCut
    <3>5. PICK k : k = n + 1
      OBVIOUS
    <3>6. /\ k \in 1..(Len(c) + 1) /\ d = SubSeq(c, k, Len(c)) /\ S[k - 1].next <= k
          /\ S[k - 1].carry = <<>> /\ S[k - 1].replies = first.replies
      BY <3>1, <3>2, <3>3, <3>4, <3>5
    <3> QED
      BY <3>6
  <2>2. CASE Kept(S, c1, n, S1[n])
    <3>1. PICK k \in 1..n :
            /\ S1[n] = Scan(n + 1, SubSeq(c1, k, n), S[k - 1].replies)
            /\ S[k - 1].next <= k /\ S[k - 1].carry = <<>>
      BY <1>1, <2>2 DEF Kept
    <3>2. first.carry = SubSeq(c1, k, n) /\ first.replies = S[k - 1].replies
      <4>1. PICK rest, sent : rest = SubSeq(c1, k, n) /\ sent = S[k - 1].replies
        OBVIOUS
      <4>2. S1[n] = Scan(n + 1, rest, sent)
        BY <3>1, <4>1
      <4>3. S1[n].carry = rest /\ S1[n].replies = sent
        BY <4>2, ScanMade
      <4> QED
        BY <1>3, <4>1, <4>3
    <3>3. k \in 1..(Len(c) + 1)
      BY <1>1
    <3>4. d = SubSeq(c, k, Len(c))
      <4>1. k \in 1..Len(c1)
        BY <1>1
      <4> QED
        BY <1>1, <1>6, <3>2, <4>1, RestsGoOn
    <3> QED
      BY <3>1, <3>2, <3>3, <3>4
  <2> QED
    BY <1>8, <2>1, <2>2
<1>11. S[Len(c)].carry = T[Len(d)].carry /\ S[Len(c)].replies = T[Len(d)].replies
  <2>1. PICK sent \in Seq(Seq(Queries!Symbols)) : sent = first.replies
    BY <1>5
  <2>2. ScanIs(T, Len(d), d, sent) /\ S[k - 1].replies = sent
    BY <1>7, <1>10, <2>1
  <2>3. Continues(c, k, answered, S, d, sent, T)
    BY <1>4, <1>10, <2>2 DEF Continues
  <2> QED
    BY <2>3, SameAfter DEF SameEnd
<1> QED
  BY <1>1, <1>4, <1>6, <1>7, <1>11

-----------------------------------------------------------------------------
(* A whole query is answered, whatever is carried over.                     *)

LEMMA AQuery ==
  ASSUME NEW x \in Queries!FullQueries
  PROVE  \/ x = [text |-> Queries!DSR, reply |-> Queries!DSR]
         \/ \E p \in {Queries!FG, Queries!BG}, end \in {<<Queries!BEL>>, <<Queries!ESC, Queries!ST>>} :
              x = Queries!ColourQuery(p, end)
  BY DEF Queries!FullQueries

LEMMA WholeQueries ==
  ASSUME NEW q \in Queries!FullQueries
  PROVE  /\ q.text \in Seq(Queries!Symbols) /\ q.reply \in Seq(Queries!Symbols)
         /\ Len(q.text) >= 3 /\ q.text[1] = Queries!ESC
         /\ q.text[2] \in {"[", "]"}
         /\ Queries!MatchQuery(q.text) = Queries!Query(q.reply, Len(q.text))
<1>1. /\ Queries!ESC \in Queries!Symbols /\ Queries!BEL \in Queries!Symbols
      /\ Queries!ST \in Queries!Symbols /\ "?" \in Queries!Symbols
  BY SymbolsDiffer, Zenon
<1>2. CASE q.text = Queries!DSR /\ q.reply = Queries!DSR
  <2>1. /\ Queries!DSR \in Seq(Queries!Symbols) /\ Len(Queries!DSR) = 3
        /\ Queries!DSR[1] = Queries!ESC /\ Queries!DSR[2] = "[" /\ Queries!DSR[3] = "n"
    BY QueryTexts, Zenon
  <2>2. BeginsDSR(Queries!DSR)
    BY <2>1 DEF BeginsDSR
  <2>3. Queries!MatchQuery(Queries!DSR) = Queries!Query(Queries!DSR, 3)
    BY <2>1, <2>2, Matches
  <2> QED
    BY <1>2, <2>1, <2>3
<1>3. ASSUME NEW p \in {Queries!FG, Queries!BG},
             NEW end \in {<<Queries!BEL>>, <<Queries!ESC, Queries!ST>>},
             q = [text |-> p \o <<"?">> \o end, reply |-> p]
      PROVE  /\ q.text \in Seq(Queries!Symbols) /\ q.reply \in Seq(Queries!Symbols)
             /\ Len(q.text) >= 3 /\ q.text[1] = Queries!ESC
             /\ q.text[2] \in {"[", "]"}
             /\ Queries!MatchQuery(q.text) = Queries!Query(q.reply, Len(q.text))
  <2>1. /\ p \in Seq(Queries!Symbols) /\ Len(p) = 3 /\ p[1] = Queries!ESC /\ p[2] = "]"
        /\ p[3] = IF p = Queries!BG THEN "b" ELSE "f"
    <3>1. /\ Queries!BG \in Seq(Queries!Symbols) /\ Queries!FG \in Seq(Queries!Symbols)
          /\ Len(Queries!BG) = 3 /\ Len(Queries!FG) = 3
          /\ Queries!BG[1] = Queries!ESC /\ Queries!FG[1] = Queries!ESC
          /\ Queries!BG[2] = "]" /\ Queries!FG[2] = "]" /\ Queries!BG[3] = "b" /\ Queries!FG[3] = "f"
      BY QueryTexts, Zenon
    <3> QED
      BY <3>1
  <2>2. PICK o : o = p \o <<"?">>
    OBVIOUS
  <2>3. /\ o \in Seq(Queries!Symbols) /\ Len(o) = 4
        /\ o[1] = Queries!ESC /\ o[2] = "]" /\ o[3] = p[3] /\ o[4] = "?"
    <3>1. PICK mark : mark = <<"?">>
      OBVIOUS
    <3>2. mark \in Seq(Queries!Symbols) /\ Len(mark) = 1 /\ mark[1] = "?"
      BY <1>1, <3>1
    <3>3. /\ p \o mark \in Seq(Queries!Symbols) /\ Len(p \o mark) = Len(p) + Len(mark)
          /\ \A i \in 1..(Len(p) + Len(mark)) :
               (p \o mark)[i] = IF i <= Len(p) THEN p[i] ELSE mark[i - Len(p)]
      BY <2>1, <3>2, ConcatProperties
    <3>4. \A i \in 1..4 : o[i] = IF i <= 3 THEN p[i] ELSE mark[i - 3]
      BY <2>1, <2>2, <3>1, <3>2, <3>3
    <3>5. 1 \in 1..4 /\ 2 \in 1..4 /\ 3 \in 1..4 /\ 4 \in 1..4 /\ 4 - 3 = 1
      OBVIOUS
    <3> QED
      BY <2>1, <2>2, <3>1, <3>2, <3>3, <3>4, <3>5
  <2>4. PICK t : t = o \o end
    OBVIOUS
  <2>5. q.text = t /\ q.reply = p
    BY <1>3, <2>2, <2>4
  <2>6. ASSUME end \in Seq(Queries!Symbols)
        PROVE  /\ t \in Seq(Queries!Symbols) /\ Len(t) = 4 + Len(end)
               /\ t[1] = Queries!ESC /\ t[2] = "]" /\ t[3] = p[3] /\ t[4] = "?"
               /\ \A i \in 1..Len(end) : t[4 + i] = end[i]
    <3>1. PICK n \in Nat : n = Len(end)
      BY <2>6
    <3>2. /\ t \in Seq(Queries!Symbols) /\ Len(t) = 4 + n
          /\ \A i \in 1..(4 + n) : t[i] = IF i <= 4 THEN o[i] ELSE end[i - 4]
      <4>1. /\ o \o end \in Seq(Queries!Symbols) /\ Len(o \o end) = Len(o) + Len(end)
            /\ \A i \in 1..(Len(o) + Len(end)) :
                 (o \o end)[i] = IF i <= Len(o) THEN o[i] ELSE end[i - Len(o)]
        BY <2>3, <2>6, ConcatProperties
      <4> QED
        BY <2>3, <2>4, <3>1, <4>1
    <3>3. 1 \in 1..(4 + n) /\ 2 \in 1..(4 + n) /\ 3 \in 1..(4 + n) /\ 4 \in 1..(4 + n)
      OBVIOUS
    <3>4. ASSUME NEW i \in 1..n PROVE t[4 + i] = end[i]
      <4>1. 4 + i \in 1..(4 + n) /\ ~(4 + i <= 4) /\ (4 + i) - 4 = i
        OBVIOUS
      <4> QED
        BY <3>2, <4>1
    <3> QED
      BY <2>3, <3>1, <3>2, <3>3, <3>4
  <2>7. ASSUME t \in Seq(Queries!Symbols), Len(t) >= 5, t[1] = Queries!ESC, t[2] = "]", t[3] = p[3]
        PROVE  Queries!MatchQuery(t) = Queries!OscQuery(t, p)
    <3>1. Len(t) >= 1 /\ Len(t) >= 3
      BY <2>7
    <3>2. CASE p = Queries!BG
      <4>1. BeginsColour(t, "b")
        BY <2>1, <2>7, <3>1, <3>2 DEF BeginsColour
      <4> QED
        BY <2>7, <3>1, <3>2, <4>1, Matches
    <3>3. CASE p = Queries!FG /\ p # Queries!BG
      <4>1. BeginsColour(t, "f")
        BY <2>1, <2>7, <3>1, <3>3 DEF BeginsColour
      <4> QED
        BY <2>7, <3>1, <3>3, <4>1, Matches
    <3> QED
      BY <3>2, <3>3
  <2>8. CASE end = <<Queries!BEL>>
    <3>1. end \in Seq(Queries!Symbols) /\ Len(end) = 1 /\ end[1] = Queries!BEL
      BY <1>1, <2>8
    <3>2. /\ t \in Seq(Queries!Symbols) /\ Len(t) = 5 /\ t[1] = Queries!ESC /\ t[2] = "]"
          /\ t[3] = p[3] /\ t[4] = "?" /\ t[5] = Queries!BEL
      BY <2>6, <3>1
    <3>3. Bell(t)
      BY <3>2 DEF Bell
    <3>4. Queries!MatchQuery(t) = Queries!OscQuery(t, p)
      BY <2>7, <3>2
    <3>5. Queries!OscQuery(t, p) = Queries!Query(p, 5)
      <4>1. Len(t) >= 3
        BY <3>2
      <4> QED
        BY <2>1, <3>2, <3>3, <4>1, ColourMatches
    <3> QED
      BY <2>1, <2>5, <3>2, <3>4, <3>5
  <2>9. CASE end = <<Queries!ESC, Queries!ST>>
    <3>1. end \in Seq(Queries!Symbols) /\ Len(end) = 2 /\ end[1] = Queries!ESC /\ end[2] = Queries!ST
      BY <1>1, <2>9, Pairs, Zenon
    <3>2. /\ t \in Seq(Queries!Symbols) /\ Len(t) = 6 /\ t[1] = Queries!ESC /\ t[2] = "]"
          /\ t[3] = p[3] /\ t[4] = "?" /\ t[5] = Queries!ESC /\ t[6] = Queries!ST
      BY <2>6, <3>1
    <3>3. Terminated(t)
      BY <3>2 DEF Terminated
    <3>4. Queries!MatchQuery(t) = Queries!OscQuery(t, p)
      BY <2>7, <3>2
    <3>5. Queries!OscQuery(t, p) = Queries!Query(p, 6)
      <4>1. Len(t) >= 3
        BY <3>2
      <4> QED
        BY <2>1, <3>2, <3>3, <4>1, ColourMatches
    <3> QED
      BY <2>1, <2>5, <3>2, <3>4, <3>5
  <2> QED
    BY <2>8, <2>9
<1>4. ASSUME q = [text |-> Queries!DSR, reply |-> Queries!DSR]
      PROVE  q.text = Queries!DSR /\ q.reply = Queries!DSR
  BY <1>4
<1>5. \/ q = [text |-> Queries!DSR, reply |-> Queries!DSR]
      \/ \E p \in {Queries!FG, Queries!BG}, end \in {<<Queries!BEL>>, <<Queries!ESC, Queries!ST>>} :
           q = [text |-> p \o <<"?">> \o end, reply |-> p]
  BY AQuery, Zenon DEF Queries!ColourQuery
<1> QED
  BY <1>2, <1>3, <1>4, <1>5

\* What was carried over never swallows the beginning of a query that follows.
LEMMA QueriesDoNotOverlap ==
  ASSUME NEW b \in Seq(Queries!Symbols), Len(b) >= 1, b[1] = Queries!ESC,
         NEW q \in Queries!FullQueries, NEW m, m = Queries!MatchQuery(b \o q.text)
  PROVE  m \in MatchRecords /\ m.kind # "partial" /\ (m.kind = "query" => m.length <= Len(b))
<1>1. PICK t \in Seq(Queries!Symbols) :
        /\ t = q.text /\ Len(t) >= 3 /\ t[1] = Queries!ESC /\ t[2] \in {"[", "]"}
  BY WholeQueries
<1>2. PICK l \in Nat, k \in Nat : l = Len(b) /\ k = Len(t) /\ l >= 1 /\ k >= 3
  BY <1>1
<1>3. PICK d : d = b \o t
  OBVIOUS
<1>4. /\ d \in Seq(Queries!Symbols) /\ Len(d) = l + k
      /\ \A i \in 1..(l + k) : d[i] = IF i <= l THEN b[i] ELSE t[i - l]
  BY <1>2, <1>3, ConcatProperties
<1>5. d[1] = Queries!ESC /\ d[l + 1] = Queries!ESC /\ d[l + 2] \in {"[", "]"}
  <2>1. /\ 1 \in 1..(l + k) /\ 1 <= l /\ l + 1 \in 1..(l + k) /\ ~(l + 1 <= l)
        /\ l + 2 \in 1..(l + k) /\ ~(l + 2 <= l) /\ l + 1 - l = 1 /\ l + 2 - l = 2
    BY <1>2
  <2> QED
    BY <1>1, <1>4, <2>1
<1>6. Len(d) >= 4
  BY <1>2, <1>4
<1>7. m = Queries!MatchQuery(d)
  BY <1>1, <1>3
<1>8. l + 1 >= 4 => Ended(d)
  <2>1. l + 1 >= 4 => l + 1 \in 4..Len(d) /\ l + 1 < Len(d)
    BY <1>2, <1>4
  <2> QED
    BY <1>5, <2>1 DEF Ended
<1>9. (BeginsColour(d, "b") \/ BeginsColour(d, "f") \/ BeginsDSR(d)) => l + 1 >= 4
  <2>1. BeginsColour(d, "b") \/ BeginsColour(d, "f") \/ BeginsDSR(d)
          => d[2] # Queries!ESC /\ d[3] # Queries!ESC
    BY SymbolsDiffer DEF BeginsColour, BeginsDSR
  <2>2. l = 1 \/ l = 2 \/ l + 1 >= 4
    BY <1>2
  <2>3. (l = 1 => d[2] = Queries!ESC) /\ (l = 2 => d[3] = Queries!ESC)
    BY <1>5
  <2> QED
    BY <2>1, <2>2, <2>3
<1>10. /\ m \in MatchRecords
       /\ m.kind = "query" =>
            \/ BeginsDSR(d) /\ m.length = 3
            \/ (BeginsColour(d, "b") \/ BeginsColour(d, "f"))
               /\ (\/ Bell(d) /\ m.length = 5
                   \/ Terminated(d) /\ m.length = 6)
       /\ m.kind = "partial" =>
            \/ Len(d) < 3
            \/ (BeginsColour(d, "b") \/ BeginsColour(d, "f")) /\ ~Ended(d)
  <2>1. Len(d) >= 1
    BY <1>6
  <2> QED
    BY <1>4, <1>5, <1>7, <2>1, MatchFits
<1>11. m.kind # "partial"
  BY <1>6, <1>8, <1>9, <1>10
<1>12. Bell(d) /\ l + 1 >= 4 => l >= 5
  <2>1. Bell(d) => d[4] # Queries!ESC /\ d[5] # Queries!ESC
    BY SymbolsDiffer DEF Bell
  <2>2. (l = 3 => d[4] = Queries!ESC) /\ (l = 4 => d[5] = Queries!ESC)
    BY <1>5
  <2>3. l + 1 >= 4 => l = 3 \/ l = 4 \/ l >= 5
    BY <1>2
  <2> QED
    BY <2>1, <2>2, <2>3
<1>13. Terminated(d) /\ l + 1 >= 4 => l >= 6
  <2>1. Terminated(d) => d[4] # Queries!ESC /\ d[6] # Queries!ESC /\ d[6] \notin {"[", "]"}
    BY SymbolsDiffer DEF Terminated
  <2>2. /\ l = 3 => d[4] = Queries!ESC
        /\ l = 4 => d[6] \in {"[", "]"}
        /\ l = 5 => d[6] = Queries!ESC
    BY <1>5
  <2>3. l + 1 >= 4 => l = 3 \/ l = 4 \/ l = 5 \/ l >= 6
    BY <1>2
  <2> QED
    BY <2>1, <2>2, <2>3
<1>14. m.kind = "query" => m.length <= l
  BY <1>2, <1>9, <1>10, <1>12, <1>13
<1> QED
  BY <1>2, <1>10, <1>11, <1>14

LEMMA WholeQueryAnswered ==
  ASSUME NEW w \in Seq(Queries!Symbols), NEW q \in Queries!FullQueries
  PROVE  \E sent \in Seq(Seq(Queries!Symbols)) :
           Queries!AnswerQueries(w \o q.text, <<>>) = [carry |-> <<>>, replies |-> Append(sent, q.reply)]
<1>1. PICK t \in Seq(Queries!Symbols) :
        /\ t = q.text /\ Len(t) >= 3 /\ t[1] = Queries!ESC
        /\ Queries!MatchQuery(t) = Queries!Query(q.reply, Len(t))
  BY WholeQueries
<1>2. PICK n \in Nat, k \in Nat : n = Len(w) /\ k = Len(t) /\ k >= 3
  BY <1>1
<1>3. PICK c : c = w \o t
  OBVIOUS
<1>4. /\ c \in Seq(Queries!Symbols) /\ Len(c) = n + k
      /\ \A i \in 1..(n + k) : c[i] = IF i <= n THEN w[i] ELSE t[i - n]
  BY <1>2, <1>3, ConcatProperties
<1>5. <<>> \in Seq(Seq(Queries!Symbols))
  BY EmptySeq
<1>6. PICK S : /\ ScanIs(S, Len(c), c, <<>>)
               /\ Queries!AnswerQueries(c, <<>>) =
                    [carry |-> S[Len(c)].carry, replies |-> S[Len(c)].replies]
  BY <1>4, AnswersScan
<1>7. /\ \A i \in 0..Len(c) : S[i] \in ScanStates
      /\ S[0] = Scan(1, <<>>, <<>>)
      /\ \A i \in 1..Len(c) : S[i] = Queries!Scanned(c, i, S[i - 1])
  BY <1>4, <1>5, <1>6, ScansAreTyped
<1> DEFINE Earlier == {i \in 0..n : NothingCut(S[i], n)}
<1>8. 0 \in Earlier
  BY <1>7, ScanMade DEF NothingCut
<1>9. ASSUME NEW i \in 1..n, i - 1 \in Earlier PROVE i \in Earlier
  <2>1. PICK s : s = S[i - 1]
    OBVIOUS
  <2>2. i - 1 \in 0..Len(c) /\ i \in 1..Len(w) /\ i \in 1..Len(c) /\ i \in 0..n
    BY <1>2, <1>4
  <2>3. s \in ScanStates /\ s.next \in Nat /\ S[i] = Queries!Scanned(c, i, s)
    BY <1>7, <2>1, <2>2, ScanParts
  <2>4. PICK b \in Seq(Queries!Symbols) :
          b = SubSeq(w, i, Len(w)) /\ Len(b) = n - i + 1 /\ Len(b) >= 1 /\ b[1] = w[i]
    BY <1>2, <2>2, Rests
  <2>5. SubSeq(c, i, Len(c)) = b \o t /\ c[i] = w[i]
    BY <1>3, <2>2, <2>4, RestsGoOn
  <2>6. PICK d, m : d = b \o t /\ m = Queries!MatchQuery(d)
    OBVIOUS
  <2>7. S[i] = ScanNext(c, i, s, d, m)
    BY <1>4, <2>2, <2>3, <2>5, <2>6, ScannedIs
  <2>8. NothingCut(s, n)
    BY <1>9, <2>1
  <2>9. CASE i < s.next \/ c[i] # Queries!ESC
    <3>1. S[i] = s
      BY <2>7, <2>9 DEF ScanNext
    <3> QED
      BY <2>2, <2>8, <3>1
  <2>10. CASE ~(i < s.next \/ c[i] # Queries!ESC)
    <3>1. m \in MatchRecords /\ m.kind # "partial" /\ (m.kind = "query" => m.length <= Len(b))
      BY <1>1, <2>4, <2>5, <2>6, <2>10, QueriesDoNotOverlap
    <3>2. CASE m.kind = "query"
      <4>1. S[i] = Scan(i + m.length, s.carry, Append(s.replies, m.reply))
        BY <2>7, <2>10, <3>1, <3>2 DEF ScanNext
      <4>2. m.length \in Nat /\ m.length <= n - i + 1
        BY <2>4, <3>1, <3>2 DEF MatchRecords
      <4>3. i + m.length <= n + 1
        BY <4>2
      <4>4. NothingCut(S[i], n)
        BY <2>8, <4>1, <4>3, ScanMade DEF NothingCut
      <4> QED
        BY <2>2, <4>4
    <3>3. CASE m.kind # "query"
      <4>1. S[i] = s
        BY <2>7, <2>10, <3>1, <3>3 DEF ScanNext
      <4> QED
        BY <2>2, <2>8, <4>1
    <3> QED
      BY <3>2, <3>3
  <2> QED
    BY <2>9, <2>10
<1>10. NothingCut(S[n], n)
  <2>1. \A i \in 0..n : i \in Earlier
    <3> HIDE DEF Earlier
    <3> QED
      BY <1>8, <1>9, Upward
  <2>2. n \in 0..n
    OBVIOUS
  <2> QED
    BY <2>1, <2>2
<1> HIDE DEF Earlier
<1>11. PICK sent \in Seq(Seq(Queries!Symbols)) : sent = S[n].replies
  <2>1. n \in 0..Len(c)
    BY <1>2, <1>4
  <2> QED
    BY <1>7, <2>1, ScanParts
<1>12. S[n + 1] = Scan(n + 1 + k, <<>>, Append(sent, q.reply))
  <2>1. n + 1 \in 1..Len(c) /\ (n + 1) - 1 = n /\ n \in 0..Len(c)
    BY <1>2, <1>4
  <2>2. S[n] \in ScanStates /\ S[n].next \in Nat /\ S[n + 1] = Queries!Scanned(c, n + 1, S[n])
    BY <1>7, <2>1, ScanParts
  <2>3. SubSeq(c, n + 1, Len(c)) = t
    BY <1>2, <1>3, RestIsSecond
  <2>4. S[n + 1] = ScanNext(c, n + 1, S[n], t, Queries!MatchQuery(t))
    BY <1>4, <2>1, <2>2, <2>3, ScannedIs
  <2>5. c[n + 1] = Queries!ESC
    <3>1. n + 1 \in 1..(n + k) /\ ~(n + 1 <= n) /\ n + 1 - n = 1
      BY <1>2
    <3> QED
      BY <1>1, <1>4, <3>1
  <2>6. ~(n + 1 < S[n].next) /\ S[n].carry = <<>>
    BY <1>10, <2>2 DEF NothingCut
  <2>7. PICK m, r : m = Queries!MatchQuery(t) /\ r = q.reply
    OBVIOUS
  <2>8. m = Queries!Query(r, k)
    BY <1>1, <1>2, <2>7
  <2>9. m.kind = "query" /\ m.length = k /\ m.reply = r
    BY <2>8 DEF Queries!Query
  <2>10. S[n + 1] = Scan(n + 1 + m.length, S[n].carry, Append(S[n].replies, m.reply))
    BY <2>4, <2>5, <2>6, <2>7, <2>9 DEF ScanNext
  <2> QED
    BY <1>11, <2>6, <2>7, <2>9, <2>10
<1>13. \A i \in 0..(k - 1) : S[n + 1 + i] = S[n + 1]
  <2> DEFINE After == {i \in 0..(k - 1) : S[n + 1 + i] = S[n + 1]}
  <2>1. k - 1 \in Nat
    BY <1>2
  <2>2. 0 \in After
    BY <2>1
  <2>3. ASSUME NEW i \in 1..(k - 1), i - 1 \in After PROVE i \in After
    <3>1. PICK j \in 1..Len(c) : j = n + 1 + i /\ j - 1 = n + 1 + (i - 1) /\ j < n + 1 + k
      BY <1>4, <2>1
    <3>2. S[j - 1] = S[n + 1]
      BY <2>3, <3>1
    <3>3. j - 1 \in 0..Len(c)
      BY <1>4, <3>1
    <3>4. S[j] = Queries!Scanned(c, j, S[j - 1]) /\ S[j - 1] \in ScanStates
      BY <1>7, <3>1, <3>3
    <3>5. j < S[j - 1].next
      BY <1>12, <3>1, <3>2, ScanMade
    <3>6. S[j] = S[j - 1]
      BY <1>4, <3>4, <3>5, ScannedIs DEF ScanNext
    <3>7. i \in 0..(k - 1)
      BY <2>1
    <3> QED
      BY <3>1, <3>2, <3>6, <3>7
  <2> HIDE DEF After
  <2>4. \A i \in 0..(k - 1) : i \in After
    BY <2>1, <2>2, <2>3, Upward
  <2> QED
    BY <2>4 DEF After
<1>14. PICK all : all = Append(sent, q.reply)
  OBVIOUS
<1>15. S[Len(c)].carry = <<>> /\ S[Len(c)].replies = all
  <2>1. k - 1 \in 0..(k - 1) /\ n + 1 + (k - 1) = Len(c)
    BY <1>2, <1>4
  <2>2. PICK i : i = k - 1
    OBVIOUS
  <2>3. i \in 0..(k - 1) /\ n + 1 + i = Len(c)
    BY <2>1, <2>2
  <2>4. S[n + 1 + i] = S[n + 1]
    BY <1>13, <2>3
  <2>5. S[Len(c)] = S[n + 1]
    BY <2>3, <2>4
  <2>6. S[n + 1] = Scan(n + 1 + k, <<>>, all)
    BY <1>12, <1>14
  <2> QED
    BY <2>5, <2>6, ScanMade
<1>16. Queries!AnswerQueries(c, <<>>) = [carry |-> <<>>, replies |-> all]
  BY <1>6, <1>15
<1> QED
  BY <1>1, <1>3, <1>14, <1>16

LEMMA GluedTwice ==
  ASSUME NEW s \in Seq(Queries!Symbols), NEW t \in Seq(Queries!Symbols), NEW u \in Seq(Queries!Symbols)
  PROVE  (s \o t) \o u = s \o (t \o u)
  BY ConcatAssociative

\* Two reads are one: first of n symbols, then the rest.
LEMMA TwoReads ==
  ASSUME carry \in Seq(Queries!Symbols), NEW chunk \in Seq(Queries!Symbols), NEW n \in 0..Len(chunk)
  PROVE  Queries!InTwoReads(chunk, n) = Queries!AnswerQueries(carry \o chunk, <<>>)
<1>1. PICK l \in Nat : l = Len(chunk) /\ n \in Nat /\ n <= l
  OBVIOUS
<1>2. PICK a, b : a = SubSeq(chunk, 1, n) /\ b = SubSeq(chunk, n + 1, l)
  OBVIOUS
<1>3. /\ a \in Seq(Queries!Symbols) /\ Len(a) = n /\ \A i \in 1..n : a[i] = chunk[i]
  <2>1. 1 \in Nat \ {0} /\ n \in 0..Len(chunk) /\ 1 <= n + 1 /\ n - 1 + 1 = n
    BY <1>1
  <2>2. \A i \in 1..n : 1 + i - 1 = i
    BY <1>1
  <2> QED
    BY <1>2, <2>1, <2>2, Slices
<1>4. /\ b \in Seq(Queries!Symbols) /\ Len(b) = l - n /\ \A i \in 1..(l - n) : b[i] = chunk[n + i]
  <2>1. n + 1 \in Nat \ {0} /\ l \in 0..Len(chunk) /\ n + 1 <= l + 1 /\ l - (n + 1) + 1 = l - n
    BY <1>1
  <2>2. \A i \in 1..(l - n) : n + 1 + i - 1 = n + i
    BY <1>1
  <2> QED
    BY <1>2, <2>1, <2>2, Slices
<1>5. a \o b = chunk
  <2>1. /\ a \o b \in Seq(Queries!Symbols) /\ Len(a \o b) = Len(a) + Len(b)
        /\ \A i \in 1..(Len(a) + Len(b)) : (a \o b)[i] = IF i <= Len(a) THEN a[i] ELSE b[i - Len(a)]
    BY <1>3, <1>4, ConcatProperties
  <2>2. /\ Len(a \o b) = l /\ \A i \in 1..l : (a \o b)[i] = IF i <= n THEN a[i] ELSE b[i - n]
    BY <1>1, <1>3, <1>4, <2>1
  <2>3. ASSUME NEW i \in 1..l PROVE (a \o b)[i] = chunk[i]
    <3>1. CASE i <= n
      <4>1. i \in 1..n
        BY <3>1
      <4> QED
        BY <1>3, <2>2, <3>1, <4>1
    <3>2. CASE ~(i <= n)
      <4>1. PICK j \in 1..(l - n) : j = i - n /\ n + j = i
        BY <1>1, <3>2
      <4> QED
        BY <1>4, <2>2, <3>2, <4>1
    <3> QED
      BY <3>1, <3>2
  <2> QED
    BY <1>1, <2>1, <2>2, <2>3, SeqEqual
<1>6. /\ carry \o a \in Seq(Queries!Symbols)
      /\ (carry \o a) \o b = carry \o chunk
  <2>1. carry \o a \in Seq(Queries!Symbols)
    BY <1>3, ConcatProperties
  <2>2. (carry \o a) \o b = carry \o (a \o b)
    <3>1. carry \in Seq(Queries!Symbols) /\ a \in Seq(Queries!Symbols) /\ b \in Seq(Queries!Symbols)
      BY <1>3, <1>4
    <3> QED
      BY <3>1, GluedTwice
  <2> QED
    BY <1>5, <2>1, <2>2
<1>7. PICK w \in Seq(Queries!Symbols) : w = carry \o a
  BY <1>6
<1>8. PICK none \in Seq(Seq(Queries!Symbols)) : none = <<>>
  BY EmptySeq
<1>9. PICK first : first = Queries!AnswerQueries(w, none)
  OBVIOUS
<1>10. Queries!AnswerQueries(first.carry \o b, first.replies) = Queries!AnswerQueries(w \o b, none)
  BY <1>4, <1>9, CutsAreNotSeen
<1>11. Queries!InTwoReads(chunk, n) = Queries!AnswerQueries(first.carry \o b, first.replies)
  BY <1>1, <1>2, <1>7, <1>8, <1>9 DEF Queries!InTwoReads
<1>12. w \o b = carry \o chunk
  BY <1>6, <1>7
<1> QED
  BY <1>8, <1>10, <1>11, <1>12

LEMMA LastIsSent ==
  ASSUME NEW R, NEW r \in Seq(R), NEW x \in R
  PROVE  Queries!EndsIn(Append(r, x), x)
  BY DEF Queries!EndsIn

LEMMA TerminalAnswersHere ==
  ASSUME carry \in Seq(Queries!Symbols)
  PROVE  Queries!TerminalAnswers
<1>1. Queries!CutsDoNotMatter
  <2> SUFFICES ASSUME NEW chunk \in Queries!Reads, NEW n \in 1..(Len(chunk) - 1)
               PROVE  Queries!InTwoReads(chunk, n) = Queries!AnswerQueries(carry \o chunk, <<>>)
    BY DEF Queries!CutsDoNotMatter
  <2>1. chunk \in Seq(Queries!Symbols)
    <3>1. PICK l \in 1..MaxRead : chunk \in [1..l -> Queries!Symbols]
      BY DEF Queries!Reads
    <3>2. l \in Nat
      BY HomeConstants
    <3> QED
      BY <3>1, <3>2
  <2>2. n \in 0..Len(chunk)
    BY <2>1
  <2> QED
    BY <2>1, <2>2, TwoReads
<1>2. Queries!QueriesAnswered
  <2> SUFFICES ASSUME NEW q \in Queries!FullQueries, NEW n \in 0..(Len(q.text) - 1)
               PROVE  /\ Queries!InTwoReads(q.text, n).carry = <<>>
                      /\ Queries!EndsIn(Queries!InTwoReads(q.text, n).replies, q.reply)
    BY Zenon DEF Queries!QueriesAnswered
  <2>1. q.text \in Seq(Queries!Symbols) /\ q.reply \in Seq(Queries!Symbols)
    BY WholeQueries
  <2>2. n \in 0..Len(q.text)
    BY <2>1
  <2>3. Queries!InTwoReads(q.text, n) = Queries!AnswerQueries(carry \o q.text, <<>>)
    BY <2>1, <2>2, TwoReads
  <2>4. PICK sent \in Seq(Seq(Queries!Symbols)) :
          Queries!AnswerQueries(carry \o q.text, <<>>) = [carry |-> <<>>, replies |-> Append(sent, q.reply)]
    BY WholeQueryAnswered
  <2>5. PICK all, after : all = Append(sent, q.reply) /\ after = Queries!InTwoReads(q.text, n)
    OBVIOUS
  <2>6. Queries!EndsIn(all, q.reply)
    BY <2>1, <2>5, LastIsSent
  <2>7. after = [carry |-> <<>>, replies |-> all]
    BY <2>3, <2>4, <2>5
  <2>8. after.carry = <<>> /\ after.replies = all
    BY <2>7
  <2> QED
    BY <2>5, <2>6, <2>8
<1> QED
  BY <1>1, <1>2 DEF Queries!TerminalAnswers

\* However an agent's output is cut into reads, the terminal gives the same answers, and
\* a whole query is always answered: the agent does not wait for one forever.
THEOREM QueriesAreAnswered == Spec => [](part = "queries" => Queries!TerminalAnswers)
<1>1. (part = "queries" => Queries!TypeOK) => (part = "queries" => Queries!TerminalAnswers)
  BY TerminalAnswersHere DEF Queries!TypeOK
<1> QED
  BY <1>1, QueriesTypesHold, PTL
=============================================================================
