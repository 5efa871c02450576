------------------------- MODULE HomePluginProofs ---------------------------
(***************************************************************************)
(* Proofs about plugins, for all values of Home's constants: the order     *)
(* they are loaded in, the runtime that runs and unloads them, and the     *)
(* files they show in the browser. For each part: its inductive invariant, *)
(* that every step keeps it, and what the part is promised.                *)
(***************************************************************************)
EXTENDS Home, FiniteSetTheorems, SequenceTheorems, WellFoundedInduction, TLAPS

-----------------------------------------------------------------------------
(* The load of the plugins.                                                 *)

LEMMA LoadMoves ==
  [Next]_vars => (part' = part /\ (part = "load" => [Load!Next]_loadVars))
  BY DEF Next, vars, Do, Others

LEMMA LoadConstants == LoadDirs \subseteq Nat /\ IsFiniteSet(LoadDirs)
  BY HomeConstants

LEMMA LoadCardinality == ASSUME NEW S PROVE Load!Cardinality(S) = Cardinality(S)
  BY DEF Load!Cardinality, Cardinality

\* s enumerates S in increasing order.
Sorts(s, S) ==
  /\ s \in [1..Cardinality(S) -> S] /\ Cardinality(S) \in Nat
  /\ \A i, j \in 1..Cardinality(S) : i < j => s[i] < s[j]

LEMMA SortExists ==
  ASSUME NEW S \in SUBSET LoadDirs
  PROVE  \E s : Sorts(s, S)
<1>1. IsFiniteSet(S) /\ S \subseteq Nat
  BY LoadConstants, FS_Subset
<1>2. PICK n \in Nat : n = Cardinality(S)
  BY <1>1, FS_CardinalityType
<1> DEFINE Below(x) == {y \in S : y < x}
<1>3. \A x \in S : IsFiniteSet(Below(x)) /\ Cardinality(Below(x)) \in Nat /\ Cardinality(Below(x)) < n
  <2> SUFFICES ASSUME NEW x \in S
               PROVE  IsFiniteSet(Below(x)) /\ Cardinality(Below(x)) \in Nat /\ Cardinality(Below(x)) < n
    OBVIOUS
  <2>1. Below(x) \in SUBSET S /\ Below(x) # S
    BY <1>1
  <2>2. IsFiniteSet(Below(x)) /\ Cardinality(Below(x)) <= n /\ Cardinality(Below(x)) # n
    BY <1>1, <1>2, <2>1, FS_Subset
  <2>3. Cardinality(Below(x)) \in Nat
    BY <2>2, FS_CardinalityType
  <2> QED
    BY <2>2, <2>3
<1>4. \A x, y \in S : x < y => Cardinality(Below(x)) < Cardinality(Below(y))
  <2> SUFFICES ASSUME NEW x \in S, NEW y \in S, x < y
               PROVE  Cardinality(Below(x)) < Cardinality(Below(y))
    OBVIOUS
  <2>1. Below(x) \in SUBSET Below(y) /\ Below(x) # Below(y)
    <3>1. x \in Below(y) /\ x \notin Below(x)
      BY <1>1
    <3>2. \A z \in Below(x) : z \in Below(y)
      BY <1>1
    <3> QED
      BY <3>1, <3>2
  <2>2. Cardinality(Below(x)) <= Cardinality(Below(y)) /\ Cardinality(Below(x)) # Cardinality(Below(y))
    BY <1>3, <2>1, FS_Subset
  <2> QED
    BY <1>3, <2>2
<1>5. PICK r : r = [x \in S |-> Cardinality(Below(x)) + 1]
  OBVIOUS
<1> HIDE DEF Below
<1>6. /\ r \in [S -> 1..n] /\ \A x, y \in S : x < y => r[x] < r[y]
  BY <1>2, <1>3, <1>4, <1>5
<1>7. r \in Injection(S, 1..n)
  <2>1. \A x, y \in S : r[x] = r[y] => x = y
    BY <1>1, <1>6
  <2> QED
    BY <1>6, <2>1 DEF Injection, IsInjective
<1>8. r \in Surjection(S, 1..n)
  <2>1. IsFiniteSet(1..n) /\ Cardinality(1..n) = n
    BY FS_Interval
  <2> QED
    BY <1>2, <1>7, <2>1, FS_Injection
<1>9. \A i \in 1..n : \E x \in S : r[x] = i
  BY <1>8 DEF Surjection
<1>10. PICK s : s = [i \in 1..n |-> CHOOSE x \in S : r[x] = i]
  OBVIOUS
<1>11. \A i \in 1..n : s[i] \in S /\ r[s[i]] = i
  BY <1>9, <1>10
<1>12. ASSUME NEW i \in 1..n, NEW j \in 1..n, i < j PROVE s[i] < s[j]
  <2>1. s[i] \in Nat /\ s[j] \in Nat /\ r[s[i]] < r[s[j]]
    BY <1>1, <1>11, <1>12
  <2>2. CASE s[j] < s[i]
    BY <1>6, <1>11, <1>12, <2>2
  <2>3. CASE s[i] = s[j]
    BY <2>1, <2>3, <1>11, <1>12
  <2> QED
    BY <2>1, <2>2, <2>3
<1>13. s \in [1..n -> S]
  BY <1>10, <1>11
<1> QED
  BY <1>2, <1>12, <1>13 DEF Sorts

LEMMA ByIndexSorts ==
  ASSUME NEW S \in SUBSET LoadDirs
  PROVE  LET s == Load!ByIndex(S)
         IN  /\ Sorts(s, S) /\ s \in Seq(LoadDirs) /\ Len(s) = Cardinality(S) /\ Load!Range(s) = S
<1>1. PICK n : n = Cardinality(S)
  OBVIOUS
<1>2. PICK t : Sorts(t, S)
  BY SortExists
<1>3. PICK s : s = Load!ByIndex(S)
  OBVIOUS
<1>4. n \in Nat /\ t \in [1..n -> S] /\ \A i, j \in DOMAIN t : i < j => t[i] < t[j]
  BY <1>1, <1>2 DEF Sorts
<1>5. s \in [1..n -> S] /\ \A i, j \in DOMAIN s : i < j => s[i] < s[j]
  <2>1. Load!Rising(t)
    BY <1>4 DEF Load!Rising
  <2>2. \E x \in [1..Cardinality(S) -> S] : Load!Rising(x)
    BY <1>1, <1>4, <2>1
  <2>3. s \in [1..Cardinality(S) -> S] /\ Load!Rising(s)
    BY <1>3, <2>2, LoadCardinality, Zenon DEF Load!ByIndex
  <2> QED
    BY <1>1, <2>3 DEF Load!Rising
<1>6. Sorts(s, S)
  BY <1>1, <1>4, <1>5 DEF Sorts
<1>7. s \in Seq(LoadDirs) /\ Len(s) = n
  BY <1>4, <1>5
<1>8. IsFiniteSet(S) /\ S \subseteq Nat /\ IsFiniteSet(1..n) /\ Cardinality(1..n) = n
  <2>1. IsFiniteSet(S) /\ S \subseteq Nat
    BY LoadConstants, FS_Subset
  <2>2. IsFiniteSet(1..n) /\ Cardinality(1..n) = n
    BY <1>4, FS_Interval
  <2> QED
    BY <2>1, <2>2
<1>9. s \in Injection(1..n, S)
  <2>1. ASSUME NEW i \in 1..n, NEW j \in 1..n, s[i] = s[j] PROVE i = j
    <3>1. s[i] \in Nat /\ i \in DOMAIN s /\ j \in DOMAIN s
      BY <1>5, <1>8
    <3>2. ~(i < j) /\ ~(j < i)
      BY <1>5, <2>1, <3>1
    <3> QED
      BY <1>4, <3>2
  <2> QED
    BY <1>5, <2>1 DEF Injection, IsInjective
<1>10. \A x \in S : \E i \in 1..n : s[i] = x
  <2>1. s \in Surjection(1..n, S)
    BY <1>1, <1>8, <1>9, FS_Injection
  <2> QED
    BY <2>1 DEF Surjection
<1>11. Load!Range(s) = S
  BY <1>5, <1>10 DEF Load!Range
<1> QED
  BY <1>1, <1>3, <1>6, <1>7, <1>11

LEMMA InputsStay ==
  ASSUME UNCHANGED Load!inputs
  PROVE  /\ Load!Loadable' = Load!Loadable /\ Load!Shared' = Load!Shared /\ Load!Rows' = Load!Rows
         /\ \A d : Load!Dependencies(d)' = Load!Dependencies(d)
<1>0. place' = place /\ manifest' = manifest /\ wanted' = wanted
  BY DEF Load!inputs
<1>1. \A d : Load!Entry(d)' = Load!Entry(d)
  BY <1>0 DEF Load!Entry
<1>2. Load!Considered' = Load!Considered
  BY <1>1 DEF Load!Considered
<1>3. Load!Loadable' = Load!Loadable /\ Load!Shared' = Load!Shared
  BY <1>0, <1>1, <1>2 DEF Load!Loadable, Load!Shared
<1>4. \A n : Load!Resolved(n)' = Load!Resolved(n)
  BY <1>0, <1>3 DEF Load!Resolved, Load!Aliases
<1>5. \A d : Load!Dependencies(d)' = Load!Dependencies(d)
  BY <1>0, <1>4 DEF Load!Dependencies
<1>6. Load!Rows' = Load!Rows
  BY <1>0, <1>1, <1>3 DEF Load!Rows, Load!Selected
<1> QED
  BY <1>3, <1>5, <1>6

LEMMA LoadSets ==
  /\ Load!Loadable \subseteq LoadDirs /\ Load!Shared \subseteq LoadDirs
  /\ \A d : Load!Dependencies(d) \subseteq Load!Loadable
  BY DEF Load!Loadable, Load!Considered, Load!Shared, Load!Dependencies, Load!Resolved

LoadTypes ==
  /\ \A d \in LoadDirs : place[d] \in Sources \cup {Load!Unmanaged}
  /\ phase \in {"start", "read", "order", "versions", "sync", "emit", "loaded", "failed"}
  /\ snapshot \subseteq LoadDirs
  /\ ready \in Seq(LoadDirs) /\ ordered \in Seq(LoadDirs) /\ loadRan \in Seq(LoadDirs)
  /\ degree \in [LoadDirs -> Nat]
  /\ catalog \in {Load!Rows, [n \in LoadNames |-> "old"]}

\* The plugins that could come next, once those of P are placed, and which comes.
Candidates(P) == {d \in Load!Loadable \ P : Load!Dependencies(d) \subseteq P}
Before(i) == {ordered[k] : k \in 1..i - 1}
ComesNext(d, P) == d \in Candidates(P) /\ \A e \in Candidates(P) : d <= e

\* What is placed so far is placed in order.
PlacedInOrder ==
  /\ Load!Range(ordered) \subseteq Load!Loadable
  /\ \A i \in 1..Len(ordered) : ComesNext(ordered[i], Before(i))

\* The ready plugins are those whose dependencies are placed, by index.
ReadyInOrder ==
  /\ Load!Range(ready) = {d \in Load!Loadable \ Load!Range(ordered) : degree[d] = 0}
  /\ \A i, j \in 1..Len(ready) : i < j => ready[i] < ready[j]
  /\ \A d \in Load!Loadable : degree[d] = Cardinality(Load!Dependencies(d) \ Load!Range(ordered))

AllPlaced == PlacedInOrder /\ Load!Range(ordered) = Load!Loadable /\ Len(ordered) = Cardinality(Load!Loadable)

LoadInv ==
  /\ LoadTypes
  /\ phase \in {"start", "read"} => ordered = <<>>
  /\ phase \in {"start", "read", "order", "versions", "sync"} => loadRan = <<>>
  /\ phase = "order" => PlacedInOrder /\ ReadyInOrder
  /\ phase \in {"versions", "sync", "emit", "loaded"} => AllPlaced
  /\ phase \in {"start", "failed"} => snapshot = {}
  /\ phase \in {"read", "order", "versions", "sync", "emit", "loaded"} => snapshot = Load!Shared
  /\ phase \in {"emit", "loaded"} =>
       /\ catalog = Load!Rows
       /\ Len(loadRan) <= Len(ordered) /\ \A i \in 1..Len(loadRan) : loadRan[i] = ordered[i]
  /\ phase = "loaded" => loadRan = ordered

LEMMA LoadStarts == part = "load" /\ Init => LoadInv
<1> SUFFICES ASSUME part = "load", Init PROVE LoadInv
  OBVIOUS
<1>1. Load!Init
  BY DEF Init
<1>2. \A d \in LoadDirs : place[d] \in Sources \cup {Load!Unmanaged}
  BY <1>1 DEF Load!Init, Load!OrderInputs, Load!VersionInputs
<1>3. /\ snapshot = {} /\ phase = "start" /\ ready = <<>> /\ ordered = <<>> /\ loadRan = <<>>
      /\ degree = [d \in LoadDirs |-> 0] /\ catalog = [n \in LoadNames |-> "old"]
  BY <1>1 DEF Load!Init
<1>4. <<>> \in Seq(LoadDirs)
  BY EmptySeq
<1>5. LoadTypes
  BY <1>2, <1>3, <1>4 DEF LoadTypes
<1> QED
  BY <1>3, <1>5 DEF LoadInv

LEMMA PlacedStays ==
  ASSUME UNCHANGED Load!inputs, ordered' = ordered
  PROVE  /\ PlacedInOrder => PlacedInOrder'
         /\ AllPlaced => AllPlaced'
<1>1. /\ Load!Loadable' = Load!Loadable /\ Load!Range(ordered)' = Load!Range(ordered)
      /\ \A d : Load!Dependencies(d)' = Load!Dependencies(d)
  BY InputsStay
<1>2. \A i : Before(i)' = Before(i)
  BY DEF Before
<1>3. \A P : Candidates(P)' = Candidates(P)
  BY <1>1 DEF Candidates
<1>4. \A d, P : ComesNext(d, P)' <=> ComesNext(d, P)
  BY <1>3 DEF ComesNext
<1>5. PlacedInOrder => PlacedInOrder'
  BY <1>1, <1>2, <1>4 DEF PlacedInOrder
<1> QED
  BY <1>1, <1>5 DEF AllPlaced

\* The ready plugins are the candidates, and the first of them is the next.
LEMMA HeadComesNext ==
  ASSUME LoadTypes, ReadyInOrder
  PROVE  /\ Load!Range(ready) = Candidates(Load!Range(ordered))
         /\ ready # <<>> => ComesNext(Head(ready), Load!Range(ordered))
<1> DEFINE P == Load!Range(ordered)
<1>1. \A d \in Load!Loadable : degree[d] = 0 <=> Load!Dependencies(d) \subseteq P
  <2> SUFFICES ASSUME NEW d \in Load!Loadable
               PROVE  degree[d] = 0 <=> Load!Dependencies(d) \subseteq P
    OBVIOUS
  <2>1. degree[d] = Cardinality(Load!Dependencies(d) \ P)
    BY DEF ReadyInOrder
  <2>2. Load!Dependencies(d) \ P \subseteq LoadDirs
    BY LoadSets
  <2>3. IsFiniteSet(Load!Dependencies(d) \ P)
    BY <2>2, LoadConstants, FS_Subset
  <2>4. degree[d] = 0 <=> Load!Dependencies(d) \ P = {}
    BY <2>1, <2>3, FS_EmptySet
  <2> QED
    BY <2>4
<1>2. Load!Range(ready) = Candidates(P)
  BY <1>1 DEF ReadyInOrder, Candidates
<1>3. ASSUME ready # <<>> PROVE ComesNext(Head(ready), P)
  <2>1. /\ ready \in Seq(LoadDirs) /\ Len(ready) \in Nat \ {0} /\ Head(ready) = ready[1]
        /\ LoadDirs \subseteq Nat /\ 1 \in 1..Len(ready)
    BY <1>3, LoadConstants DEF LoadTypes
  <2>2. Head(ready) \in Candidates(P)
    BY <1>2, <2>1 DEF Load!Range
  <2>3. ASSUME NEW e \in Candidates(P) PROVE Head(ready) <= e
    <3>1. PICK j \in 1..Len(ready) : ready[j] = e
      BY <1>2, <2>1, <2>3 DEF Load!Range
    <3>2. ready[1] \in Nat /\ ready[j] \in Nat
      <4>1. ready[1] \in LoadDirs /\ ready[j] \in LoadDirs
        BY <2>1
      <4> QED
        BY <2>1, <4>1
    <3>3. j = 1 \/ 1 < j
      BY <2>1, <3>1
    <3>4. 1 < j => ready[1] < ready[j]
      BY <2>1, <3>1 DEF ReadyInOrder
    <3> QED
      BY <2>1, <3>1, <3>2, <3>3, <3>4
  <2> QED
    BY <2>2, <2>3 DEF ComesNext
<1> QED
  BY <1>2, <1>3

LEMMA PlaceKeeps ==
  ASSUME LoadInv, Load!Place
  PROVE  LoadInv'
<1> DEFINE P == Load!Range(ordered)
           d == Head(ready)
           freed == {e \in Load!Loadable : d \in Load!Dependencies(e)}
           joining == Load!Range(Tail(ready)) \cup {e \in freed : degree'[e] = 0}
<1>1. /\ phase = "order" /\ ready # <<>> /\ phase' = phase
      /\ ordered' = Append(ordered, d)
      /\ degree' = [e \in LoadDirs |-> IF e \in freed THEN degree[e] - 1 ELSE degree[e]]
      /\ ready' = Load!ByIndex(joining)
      /\ UNCHANGED Load!inputs /\ snapshot' = snapshot /\ catalog' = catalog /\ loadRan' = loadRan
  BY DEF Load!Place
<1>2. /\ LoadTypes /\ PlacedInOrder /\ ReadyInOrder /\ loadRan = <<>> /\ snapshot = Load!Shared
  BY <1>1 DEF LoadInv
<1>3. /\ Load!Loadable' = Load!Loadable /\ Load!Shared' = Load!Shared /\ Load!Rows' = Load!Rows
      /\ \A x : Load!Dependencies(x)' = Load!Dependencies(x)
  BY <1>1, InputsStay
<1>4. ComesNext(d, P) /\ Load!Range(ready) = Candidates(P)
  BY <1>1, <1>2, HeadComesNext
<1>5. d \in Load!Loadable /\ d \in LoadDirs /\ d \notin P /\ Load!Dependencies(d) \subseteq P
  BY <1>4, LoadSets DEF ComesNext, Candidates
<1>6. ordered' \in Seq(LoadDirs) /\ Load!Range(ordered') = P \cup {d} /\ Len(ordered') = Len(ordered) + 1
  <2>1. ordered \in Seq(LoadDirs) /\ Len(ordered) \in Nat
    BY <1>2 DEF LoadTypes
  <2>2. ordered' \in Seq(LoadDirs) /\ Len(ordered') = Len(ordered) + 1 /\ DOMAIN ordered' = 1..Len(ordered) + 1
    BY <1>1, <1>5, <2>1
  <2>3. \A i \in 1..Len(ordered) : ordered'[i] = ordered[i]
    BY <1>1, <1>5, <2>1
  <2>4. ordered'[Len(ordered) + 1] = d
    BY <1>1, <1>5, <2>1
  <2>5. \A x \in Load!Range(ordered') : x \in P \cup {d}
    <3> SUFFICES ASSUME NEW i \in 1..Len(ordered) + 1 PROVE ordered'[i] \in P \cup {d}
      BY <2>2 DEF Load!Range
    <3>1. i \in 1..Len(ordered) \/ i = Len(ordered) + 1
      BY <2>1
    <3> QED
      BY <2>1, <2>3, <2>4, <3>1 DEF Load!Range
  <2>6. \A x \in P : x \in Load!Range(ordered')
    <3> SUFFICES ASSUME NEW i \in 1..Len(ordered) PROVE ordered[i] \in Load!Range(ordered')
      BY <2>1 DEF Load!Range
    <3> QED
      BY <2>1, <2>2, <2>3 DEF Load!Range
  <2>7. d \in Load!Range(ordered')
    BY <2>1, <2>2, <2>4 DEF Load!Range
  <2> QED
    BY <2>2, <2>5, <2>6, <2>7
<1>7. PlacedInOrder'
  <2>1. Load!Range(ordered') \subseteq Load!Loadable
    BY <1>2, <1>5, <1>6 DEF PlacedInOrder
  <2>2. ASSUME NEW i \in 1..Len(ordered') PROVE ComesNext(ordered'[i], Before(i)')
    <3>1. ordered \in Seq(LoadDirs) /\ Len(ordered) \in Nat
      BY <1>2 DEF LoadTypes
    <3>2. Before(i)' = Before(i)
      BY <1>1, <1>5, <1>6, <2>2, <3>1 DEF Before
    <3>3. CASE i \in 1..Len(ordered)
      <4>1. ordered'[i] = ordered[i]
        BY <1>1, <1>5, <3>1, <3>3
      <4> QED
        BY <1>2, <3>2, <3>3, <4>1 DEF PlacedInOrder
    <3>4. CASE i = Len(ordered) + 1
      <4>1. ordered'[i] = d
        BY <1>1, <1>5, <3>1, <3>4
      <4>2. Before(i) = P
        BY <3>1, <3>4 DEF Before, Load!Range
      <4> QED
        BY <1>4, <3>2, <4>1, <4>2
    <3> QED
      BY <1>6, <2>2, <3>1, <3>3, <3>4
  <2>3. \A x, Q : ComesNext(x, Q)' <=> ComesNext(x, Q)
    BY <1>3 DEF ComesNext, Candidates
  <2> QED
    BY <1>3, <2>1, <2>2, <2>3 DEF PlacedInOrder
<1>8. \A e \in Load!Loadable : /\ degree'[e] \in Nat
                               /\ degree'[e] = Cardinality(Load!Dependencies(e) \ (P \cup {d}))
  <2> SUFFICES ASSUME NEW e \in Load!Loadable
               PROVE  degree'[e] \in Nat /\ degree'[e] = Cardinality(Load!Dependencies(e) \ (P \cup {d}))
    OBVIOUS
  <2>1. e \in LoadDirs /\ degree[e] = Cardinality(Load!Dependencies(e) \ P)
    BY <1>2, LoadSets DEF ReadyInOrder
  <2>2. PICK D : D = Load!Dependencies(e) \ P
    OBVIOUS
  <2>3. IsFiniteSet(D) /\ D \subseteq LoadDirs
    BY <2>2, LoadSets, LoadConstants, FS_Subset
  <2>4. Load!Dependencies(e) \ (P \cup {d}) = D \ {d}
    BY <2>2
  <2>5. Cardinality(D \ {d}) = (IF d \in D THEN Cardinality(D) - 1 ELSE Cardinality(D)) /\ IsFiniteSet(D \ {d})
    BY <2>3, FS_RemoveElement
  <2>6. d \in D <=> e \in freed
    BY <1>5, <2>2
  <2>7. degree'[e] = IF e \in freed THEN degree[e] - 1 ELSE degree[e]
    BY <1>1, <2>1
  <2>8. degree'[e] = Cardinality(D \ {d})
    BY <2>1, <2>2, <2>5, <2>6, <2>7
  <2>9. Cardinality(D \ {d}) \in Nat
    BY <2>5, FS_CardinalityType
  <2> QED
    BY <2>4, <2>8, <2>9
<1>9. degree' \in [LoadDirs -> Nat]
  <2>1. ASSUME NEW e \in LoadDirs, e \notin Load!Loadable PROVE degree'[e] \in Nat
    BY <1>1, <1>2, <2>1 DEF LoadTypes
  <2> QED
    BY <1>1, <1>8, <2>1
<1>10. joining = {e \in Load!Loadable \ (P \cup {d}) : degree'[e] = 0}
  <2>1. Load!Range(Tail(ready)) = Candidates(P) \ {d}
    <3>1. /\ ready \in Seq(LoadDirs) /\ Len(ready) \in Nat \ {0} /\ d = ready[1] /\ LoadDirs \subseteq Nat
          /\ Tail(ready) \in Seq(LoadDirs) /\ Len(Tail(ready)) = Len(ready) - 1
          /\ \A i \in 1..Len(ready) - 1 : Tail(ready)[i] = ready[i + 1]
      BY <1>1, <1>2, LoadConstants DEF LoadTypes
    <3>2. \A i \in 1..Len(Tail(ready)) : Tail(ready)[i] \in Candidates(P) \ {d}
      <4> SUFFICES ASSUME NEW i \in 1..Len(ready) - 1 PROVE Tail(ready)[i] \in Candidates(P) \ {d}
        BY <3>1
      <4>1. i + 1 \in 1..Len(ready) /\ 1 \in 1..Len(ready) /\ 1 < i + 1 /\ Tail(ready)[i] = ready[i + 1]
        BY <3>1
      <4>2. ready[1] < ready[i + 1] /\ ready[1] \in Nat /\ ready[i + 1] \in Nat
        <5>1. ready[1] < ready[i + 1]
          BY <1>2, <4>1 DEF ReadyInOrder
        <5>2. ready[1] \in LoadDirs /\ ready[i + 1] \in LoadDirs
          BY <3>1, <4>1
        <5> QED
          BY <3>1, <5>1, <5>2
      <4>3. ready[i + 1] \in Candidates(P)
        BY <1>4, <3>1, <4>1 DEF Load!Range
      <4> QED
        BY <3>1, <4>1, <4>2, <4>3
    <3>3. ASSUME NEW e \in Candidates(P) \ {d} PROVE \E i \in 1..Len(Tail(ready)) : Tail(ready)[i] = e
      <4>1. PICK j \in 1..Len(ready) : ready[j] = e
        BY <1>4, <3>1, <3>3 DEF Load!Range
      <4>2. j # 1 /\ j - 1 \in 1..Len(ready) - 1 /\ (j - 1) + 1 = j
        BY <3>1, <3>3, <4>1
      <4>3. Tail(ready)[j - 1] = e
        BY <3>1, <4>1, <4>2
      <4> QED
        BY <3>1, <4>2, <4>3
    <3>4. DOMAIN Tail(ready) = 1..Len(Tail(ready))
      BY <3>1
    <3> QED
      BY <3>2, <3>3, <3>4 DEF Load!Range
  <2>2. ASSUME NEW e \in Load!Loadable, e \notin freed PROVE degree'[e] = degree[e]
    BY <1>1, <2>2, LoadSets
  <2>3. \A e \in Load!Loadable : degree'[e] = 0 <=> Load!Dependencies(e) \subseteq P \cup {d}
    <3> SUFFICES ASSUME NEW e \in Load!Loadable
                 PROVE  degree'[e] = 0 <=> Load!Dependencies(e) \subseteq P \cup {d}
      OBVIOUS
    <3>1. IsFiniteSet(Load!Dependencies(e) \ (P \cup {d}))
      BY LoadSets, LoadConstants, FS_Subset
    <3> QED
      BY <1>8, <3>1, FS_EmptySet
  <2>4. \A e \in freed : e \notin P
    <3> SUFFICES ASSUME NEW e \in P PROVE Load!Dependencies(e) \subseteq P
      BY <1>5
    <3>1. PICK i \in 1..Len(ordered) : ordered[i] = e
      BY <1>2 DEF Load!Range, LoadTypes
    <3>2. Load!Dependencies(e) \subseteq Before(i)
      BY <1>2, <3>1 DEF PlacedInOrder, ComesNext, Candidates
    <3>3. Before(i) \subseteq P
      BY <1>2, <3>1 DEF Before, Load!Range, LoadTypes
    <3> QED
      BY <3>2, <3>3
  <2>5. \A e \in Candidates(P) : e \in Load!Loadable /\ e \notin P /\ e \notin freed
    BY <1>5 DEF Candidates
  <2>6. \A e \in freed : e # d
    BY <1>5
  <2>7. ASSUME NEW e \in Load!Loadable, e \notin P, e # d, degree'[e] = 0, e \notin freed
        PROVE  e \in Candidates(P)
    BY <2>3, <2>7 DEF Candidates
  <2>8. \A e \in Candidates(P) : degree'[e] = 0
    BY <2>3 DEF Candidates
  <2> HIDE DEF d, P, freed
  <2>9. \A e \in freed : e \in Load!Loadable
    BY DEF freed
  <2> QED
    BY <2>1, <2>4, <2>5, <2>6, <2>7, <2>8, <2>9
<1>11. joining \subseteq LoadDirs
  BY <1>10, LoadSets
<1>12. /\ ready' \in Seq(LoadDirs) /\ Load!Range(ready') = joining /\ Len(ready') = Cardinality(joining)
       /\ Sorts(ready', joining)
  BY <1>1, <1>11, ByIndexSorts
<1>13. ReadyInOrder'
  <2>1. Load!Range(ready') = {e \in Load!Loadable \ Load!Range(ordered') : degree'[e] = 0}
    BY <1>6, <1>10, <1>12
  <2>2. \A i, j \in 1..Len(ready') : i < j => ready'[i] < ready'[j]
    BY <1>12 DEF Sorts
  <2>3. \A e \in Load!Loadable : degree'[e] = Cardinality(Load!Dependencies(e) \ Load!Range(ordered'))
    BY <1>6, <1>8
  <2> QED
    BY <1>3, <2>1, <2>2, <2>3 DEF ReadyInOrder
<1>14. LoadTypes'
  <2>1. place' = place
    BY <1>1 DEF Load!inputs
  <2> QED
    BY <1>1, <1>2, <1>3, <1>6, <1>9, <1>12, <2>1 DEF LoadTypes, Load!Unmanaged, Load!Scope
<1> QED
  BY <1>1, <1>2, <1>3, <1>7, <1>13, <1>14 DEF LoadInv

LEMMA ReadKeeps ==
  ASSUME LoadInv, Load!ReadManifests
  PROVE  LoadInv'
<1> DEFINE first == {d \in Load!Loadable : degree'[d] = 0}
<1>1. /\ phase = "read" /\ phase' = "order"
      /\ degree' = [d \in LoadDirs |-> IF d \in Load!Loadable THEN Cardinality(Load!Dependencies(d)) ELSE 0]
      /\ ready' = Load!ByIndex(first)
      /\ UNCHANGED Load!inputs /\ snapshot' = snapshot /\ ordered' = ordered
      /\ catalog' = catalog /\ loadRan' = loadRan
  BY LoadCardinality DEF Load!ReadManifests
<1>2. LoadTypes /\ ordered = <<>> /\ loadRan = <<>> /\ snapshot = Load!Shared
  BY <1>1 DEF LoadInv
<1>3. /\ Load!Loadable' = Load!Loadable /\ Load!Shared' = Load!Shared /\ Load!Rows' = Load!Rows
      /\ \A x : Load!Dependencies(x)' = Load!Dependencies(x)
  BY <1>1, InputsStay
<1>4. \A d : Cardinality(Load!Dependencies(d)) \in Nat
  BY LoadSets, LoadConstants, FS_Subset, FS_CardinalityType
<1>5. degree' \in [LoadDirs -> Nat]
  BY <1>1, <1>4
<1>6. /\ ready' \in Seq(LoadDirs) /\ Load!Range(ready') = first /\ Len(ready') = Cardinality(first)
      /\ Sorts(ready', first)
  BY <1>1, LoadSets, ByIndexSorts
<1>7. Load!Range(ordered') = {} /\ Len(ordered') = 0
  BY <1>1, <1>2 DEF Load!Range
<1>8. ReadyInOrder'
  <2>1. Load!Range(ready') = {e \in Load!Loadable \ Load!Range(ordered') : degree'[e] = 0}
    BY <1>6, <1>7
  <2>2. \A i, j \in 1..Len(ready') : i < j => ready'[i] < ready'[j]
    BY <1>6 DEF Sorts
  <2>3. \A e \in Load!Loadable : degree'[e] = Cardinality(Load!Dependencies(e) \ Load!Range(ordered'))
    <3> SUFFICES ASSUME NEW e \in Load!Loadable
                 PROVE  degree'[e] = Cardinality(Load!Dependencies(e) \ Load!Range(ordered'))
      OBVIOUS
    <3>1. Load!Dependencies(e) \ Load!Range(ordered') = Load!Dependencies(e)
      BY <1>7
    <3> QED
      BY <1>1, <3>1, LoadSets
  <2> QED
    BY <1>3, <2>1, <2>2, <2>3 DEF ReadyInOrder
<1>9. PlacedInOrder'
  BY <1>7 DEF PlacedInOrder
<1>10. LoadTypes'
  <2>1. place' = place
    BY <1>1 DEF Load!inputs
  <2> QED
    BY <1>1, <1>2, <1>3, <1>5, <1>6, <2>1 DEF LoadTypes, Load!Unmanaged, Load!Scope
<1> QED
  BY <1>1, <1>2, <1>3, <1>8, <1>9, <1>10 DEF LoadInv

\* No plugin is placed twice, so as many as there are means all of them.
LEMMA EndsAllPlaced ==
  ASSUME LoadTypes, PlacedInOrder, Len(ordered) = Cardinality(Load!Loadable)
  PROVE  AllPlaced
<1>1. ordered \in Seq(LoadDirs) /\ Len(ordered) \in Nat
  BY DEF LoadTypes
<1>2. PICK n \in Nat : n = Len(ordered)
  BY <1>1
<1>3. ordered \in [1..n -> Load!Loadable] /\ IsFiniteSet(Load!Loadable) /\ Cardinality(1..n) = n
  <2>1. ordered \in [1..n -> Load!Loadable]
    BY <1>1, <1>2 DEF PlacedInOrder, Load!Range
  <2>2. IsFiniteSet(Load!Loadable)
    BY LoadSets, LoadConstants, FS_Subset
  <2>3. Cardinality(1..n) = n
    BY FS_Interval
  <2> QED
    BY <2>1, <2>2, <2>3
<1>4. ASSUME NEW i \in 1..n, NEW j \in 1..n, i < j PROVE ordered[i] # ordered[j]
  <2>1. ordered[j] \notin Before(j)
    BY <1>2, <1>4 DEF PlacedInOrder, ComesNext, Candidates
  <2>2. ordered[i] \in Before(j)
    BY <1>4 DEF Before
  <2> QED
    BY <2>1, <2>2
<1>5. \A i, j \in 1..n : ordered[i] = ordered[j] => i = j
  <2> SUFFICES ASSUME NEW i \in 1..n, NEW j \in 1..n, ordered[i] = ordered[j], i # j PROVE FALSE
    OBVIOUS
  <2>1. i < j \/ j < i
    OBVIOUS
  <2> QED
    BY <1>4, <2>1
<1>6. ordered \in Injection(1..n, Load!Loadable)
  BY <1>3, <1>5 DEF Injection, IsInjective
<1>7. ordered \in Surjection(1..n, Load!Loadable)
  BY <1>2, <1>3, <1>6, FS_Injection
<1>8. Load!Range(ordered) = Load!Loadable
  <2>1. \A d \in Load!Loadable : \E i \in 1..n : ordered[i] = d
    BY <1>7 DEF Surjection
  <2> QED
    BY <1>1, <1>2, <1>3, <2>1 DEF Load!Range
<1> QED
  BY <1>8 DEF AllPlaced

LEMMA LoadStepKeeps ==
  ASSUME LoadInv, [Load!Next]_loadVars
  PROVE  LoadInv'
<1> USE DEF Load!Unmanaged, Load!Scope
<1>1. ASSUME UNCHANGED Load!inputs
      PROVE  /\ Load!Loadable' = Load!Loadable /\ Load!Shared' = Load!Shared /\ Load!Rows' = Load!Rows
             /\ place' = place
  BY <1>1, InputsStay DEF Load!inputs
<1>2. CASE UNCHANGED loadVars
  <2>1. UNCHANGED Load!inputs
    BY <1>2 DEF loadVars, Load!inputs
  <2>2. ordered' = ordered /\ phase' = phase /\ snapshot' = snapshot /\ ready' = ready
        /\ degree' = degree /\ catalog' = catalog /\ loadRan' = loadRan
    BY <1>2 DEF loadVars
  <2>3. LoadTypes'
    BY <1>1, <2>1, <2>2 DEF LoadInv, LoadTypes
  <2>4. ReadyInOrder => ReadyInOrder'
    <3>1. \A d : Load!Dependencies(d)' = Load!Dependencies(d)
      BY <2>1, InputsStay
    <3> QED
      BY <1>1, <2>1, <2>2, <3>1 DEF ReadyInOrder
  <2> QED
    BY <1>1, <2>1, <2>2, <2>3, <2>4, PlacedStays DEF LoadInv
<1>3. CASE Load!Prepare
  <2>1. LoadTypes'
    BY <1>1, <1>3, LoadSets DEF Load!Prepare, LoadInv, LoadTypes
  <2> QED
    BY <1>1, <1>3, <2>1 DEF Load!Prepare, LoadInv
<1>4. CASE Load!ReadFails
  <2>1. LoadTypes'
    BY <1>1, <1>4 DEF Load!ReadFails, Load!Fail, LoadInv, LoadTypes
  <2> QED
    BY <1>4, <2>1 DEF Load!ReadFails, Load!Fail, LoadInv
<1>5. CASE Load!ReadManifests
  BY <1>5, ReadKeeps
<1>6. CASE Load!Place
  BY <1>6, PlaceKeeps
<1>7. CASE Load!OrderEnds
  <2>1. LoadTypes'
    BY <1>1, <1>7 DEF Load!OrderEnds, Load!Fail, LoadInv, LoadTypes
  <2>2. CASE Len(ordered) = Load!Cardinality(Load!Loadable)
    <3>1. UNCHANGED Load!inputs /\ ordered' = ordered /\ phase = "order" /\ phase' = "versions"
          /\ snapshot' = snapshot /\ loadRan' = loadRan
      BY <1>7, <2>2 DEF Load!OrderEnds
    <3>2. AllPlaced
      BY <2>2, <3>1, LoadCardinality, EndsAllPlaced DEF LoadInv
    <3>3. AllPlaced'
      BY <3>1, <3>2, PlacedStays
    <3> QED
      BY <1>1, <2>1, <3>1, <3>3 DEF LoadInv
  <2>3. CASE Len(ordered) # Load!Cardinality(Load!Loadable)
    BY <1>7, <2>1, <2>3 DEF Load!OrderEnds, Load!Fail, LoadInv
  <2> QED
    BY <2>2, <2>3
<1>8. CASE Load!CheckVersions
  <2>1. LoadTypes'
    BY <1>1, <1>8 DEF Load!CheckVersions, Load!Fail, LoadInv, LoadTypes
  <2>2. UNCHANGED Load!inputs /\ ordered' = ordered /\ phase = "versions" /\ loadRan' = loadRan
    BY <1>8 DEF Load!CheckVersions
  <2>3. AllPlaced'
    BY <2>2, PlacedStays DEF LoadInv
  <2>4. \/ phase' = "sync" /\ snapshot' = snapshot
        \/ phase' = "failed" /\ snapshot' = {}
    BY <1>8 DEF Load!CheckVersions, Load!Fail
  <2> QED
    BY <1>1, <2>1, <2>2, <2>3, <2>4 DEF LoadInv
<1>9. CASE Load!Sync
  <2>1. UNCHANGED Load!inputs /\ ordered' = ordered /\ phase = "sync" /\ loadRan' = loadRan
        /\ ready' = ready /\ degree' = degree
    BY <1>9 DEF Load!Sync
  <2>2. \/ catalog' = Load!Rows /\ phase' = "emit" /\ snapshot' = snapshot
        \/ catalog' \in {catalog, Load!Rows} /\ phase' = "failed" /\ snapshot' = {}
    BY <1>9 DEF Load!Sync, Load!Fail
  <2>3. LoadTypes'
    BY <1>1, <2>1, <2>2 DEF LoadInv, LoadTypes
  <2>4. AllPlaced'
    BY <2>1, PlacedStays DEF LoadInv
  <2>5. Len(ordered) \in Nat /\ loadRan = <<>>
    BY <2>1 DEF LoadInv, LoadTypes
  <2> QED
    BY <1>1, <2>1, <2>2, <2>3, <2>4, <2>5 DEF LoadInv
<1>10. CASE Load!EmitLoad
  <2>1. UNCHANGED Load!inputs /\ ordered' = ordered /\ phase = "emit" /\ snapshot' = snapshot
        /\ ready' = ready /\ degree' = degree /\ catalog' = catalog
    BY <1>10 DEF Load!EmitLoad
  <2>2. /\ LoadTypes /\ AllPlaced /\ snapshot = Load!Shared /\ catalog = Load!Rows
        /\ Len(loadRan) <= Len(ordered) /\ \A i \in 1..Len(loadRan) : loadRan[i] = ordered[i]
    BY <2>1 DEF LoadInv
  <2>3. loadRan \in Seq(LoadDirs) /\ ordered \in Seq(LoadDirs) /\ Len(loadRan) \in Nat /\ Len(ordered) \in Nat
    BY <2>2 DEF LoadTypes
  <2>4. AllPlaced'
    BY <2>1, <2>2, PlacedStays
  <2>5. CASE Len(loadRan) < Len(ordered)
    <3>1. loadRan' = Append(loadRan, ordered[Len(loadRan) + 1]) /\ phase' = phase
      BY <1>10, <2>5 DEF Load!EmitLoad
    <3>2. ordered[Len(loadRan) + 1] \in LoadDirs
      BY <2>3, <2>5
    <3>3. /\ loadRan' \in Seq(LoadDirs) /\ Len(loadRan') = Len(loadRan) + 1
          /\ \A i \in 1..Len(loadRan) : loadRan'[i] = loadRan[i]
          /\ loadRan'[Len(loadRan) + 1] = ordered[Len(loadRan) + 1]
      BY <2>3, <3>1, <3>2
    <3>4. \A i \in 1..Len(loadRan') : loadRan'[i] = ordered[i]
      <4> SUFFICES ASSUME NEW i \in 1..Len(loadRan) + 1 PROVE loadRan'[i] = ordered[i]
        BY <3>3
      <4>1. i \in 1..Len(loadRan) \/ i = Len(loadRan) + 1
        BY <2>3
      <4> QED
        BY <2>2, <3>3, <4>1
    <3>5. LoadTypes'
      BY <1>1, <2>1, <2>2, <3>1, <3>3 DEF LoadTypes
    <3>6. Len(loadRan') <= Len(ordered')
      BY <2>1, <2>3, <2>5, <3>3
    <3> QED
      BY <1>1, <2>1, <2>2, <2>4, <3>1, <3>4, <3>5, <3>6 DEF LoadInv
  <2>6. CASE ~(Len(loadRan) < Len(ordered))
    <3>1. loadRan' = loadRan /\ phase' = "loaded"
      BY <1>10, <2>6 DEF Load!EmitLoad
    <3>2. Len(loadRan) = Len(ordered)
      BY <2>2, <2>3, <2>6
    <3>3. loadRan = ordered
      BY <2>2, <2>3, <3>2, SeqEqual
    <3>4. LoadTypes'
      BY <1>1, <2>1, <2>2, <3>1 DEF LoadTypes
    <3> QED
      BY <1>1, <2>1, <2>2, <2>4, <3>1, <3>3, <3>4 DEF LoadInv
  <2> QED
    BY <2>5, <2>6
<1> QED
  BY <1>2, <1>3, <1>4, <1>5, <1>6, <1>7, <1>8, <1>9, <1>10 DEF Load!Next

LEMMA LoadCorrect == Spec => [](part = "load" => LoadInv)
<1>1. Init => (part = "load" => LoadInv)
  BY LoadStarts
<1>2. (part = "load" => LoadInv) /\ [Next]_vars => (part = "load" => LoadInv)'
  BY LoadMoves, LoadStepKeeps
<1> QED
  BY <1>1, <1>2, PTL DEF Spec

\* If all are placed, each after its dependencies, no dependencies are circular.
LEMMA AllPlacedNotCyclic == LoadTypes /\ AllPlaced => ~Load!Cyclic
<1> SUFFICES ASSUME LoadTypes, AllPlaced, NEW S \in SUBSET Load!Loadable, S # {},
                    \A d \in S : Load!Dependencies(d) \cap S # {}
             PROVE  FALSE
  BY DEF Load!Cyclic
<1> DEFINE I == {i \in 1..Len(ordered) : ordered[i] \in S}
<1>1. ordered \in Seq(LoadDirs) /\ Len(ordered) \in Nat
  BY DEF LoadTypes
<1>2. I \subseteq Nat /\ I # {}
  BY <1>1 DEF AllPlaced, Load!Range
<1>3. PICK i \in I : \A j \in I : ~(<<j, i>> \in OpToRel(<, Nat))
  BY <1>2, NatLessThanWellFounded, WFMin
<1>4. \A j \in I : ~(j < i)
  BY <1>2, <1>3 DEF OpToRel
<1>5. PICK e : e \in Load!Dependencies(ordered[i]) \cap S
  BY <1>3
<1>6. e \in Before(i)
  BY <1>3, <1>5 DEF AllPlaced, PlacedInOrder, ComesNext, Candidates
<1>7. PICK k \in 1..i - 1 : ordered[k] = e
  BY <1>6 DEF Before
<1>8. k \in I /\ k < i
  <2>0. i \in 1..Len(ordered)
    BY <1>3
  <2>1. i \in Nat /\ i <= Len(ordered) /\ k \in Nat /\ 1 <= k /\ k <= i - 1
    BY <1>1, <1>7, <2>0
  <2>2. k \in 1..Len(ordered) /\ k < i
    BY <1>1, <2>1
  <2> QED
    BY <1>5, <1>7, <2>2
<1> QED
  BY <1>4, <1>8

\* What is placed in order is in the order of the plugins.
LEMMA AllPlacedWellOrdered == LoadTypes /\ AllPlaced => Load!WellOrdered(ordered)
<1> SUFFICES ASSUME LoadTypes, AllPlaced PROVE Load!WellOrdered(ordered)
  OBVIOUS
<1>1. Load!Range(ordered) = Load!Loadable /\ Len(ordered) = Load!Cardinality(Load!Loadable)
  BY LoadCardinality DEF AllPlaced
<1>2. ASSUME NEW i \in 1..Len(ordered)
      PROVE  LET placed == {ordered[k] : k \in 1..i - 1}
             IN  ordered[i] = Load!Min({d \in Load!Loadable \ placed : Load!Dependencies(d) \subseteq placed})
  <2>1. ComesNext(ordered[i], Before(i))
    BY DEF AllPlaced, PlacedInOrder
  <2>2. Candidates(Before(i)) \subseteq Nat
    BY LoadSets, LoadConstants DEF Candidates
  <2>3. ordered[i] = Load!Min(Candidates(Before(i)))
    <3>1. PICK C : C = Candidates(Before(i))
      OBVIOUS
    <3>2. ordered[i] \in C /\ C \subseteq Nat /\ \A e \in C : ordered[i] <= e
      BY <2>1, <2>2, <3>1 DEF ComesNext
    <3>3. Load!Min(C) \in C /\ \A e \in C : Load!Min(C) <= e
      BY <3>2 DEF Load!Min
    <3>4. ordered[i] <= Load!Min(C) /\ Load!Min(C) <= ordered[i] /\ ordered[i] \in Nat /\ Load!Min(C) \in Nat
      BY <3>2, <3>3
    <3> QED
      BY <3>1, <3>4
  <2> QED
    BY <2>3 DEF Before, Candidates
<1> QED
  BY <1>1, <1>2 DEF Load!WellOrdered

\* A load ends with the plugins that count, in the order of their dependencies and
\* names, or it fails, and never leaves a private copy or a half written catalog
\* behind (orderDescriptors, SyncPluginRuntimes and the deferred removal in
\* LoadSourcesContextWithOptions).
THEOREM LoadsInOrder == Spec => [](part = "load" => Load!InOrder)
<1>1. LoadInv => Load!InOrder
  <2> SUFFICES ASSUME LoadInv PROVE Load!InOrder
    OBVIOUS
  <2>1. phase = "loaded" => /\ Load!WellOrdered(ordered) /\ loadRan = ordered
                            /\ snapshot = Load!Shared /\ catalog = Load!Rows
    BY AllPlacedWellOrdered DEF LoadInv
  <2>2. phase \in {"versions", "sync", "emit"} => ~Load!Cyclic
    BY AllPlacedNotCyclic DEF LoadInv
  <2>3. phase = "failed" => snapshot = {}
    BY DEF LoadInv
  <2>4. catalog \in {Load!Rows, [n \in LoadNames |-> "old"]}
    BY DEF LoadInv, LoadTypes
  <2> QED
    BY <2>1, <2>2, <2>3, <2>4 DEF Load!InOrder
<1> QED
  BY <1>1, LoadCorrect, PTL

LEMMA LoadTypesHold == Spec => [](part = "load" => Load!TypeOK)
<1>1. LoadInv => Load!TypeOK
  <2>1. Load!Rows \in [LoadNames -> {"none", "missing", "disabled", "ready"}]
    BY DEF Load!Rows
  <2>2. LoadTypes => catalog \in [LoadNames -> {"none", "missing", "disabled", "ready", "old"}]
    BY <2>1 DEF LoadTypes
  <2> QED
    BY <2>2 DEF LoadInv, LoadTypes, Load!TypeOK
<1> QED
  BY <1>1, LoadCorrect, PTL

-----------------------------------------------------------------------------
(* Versions: what semver.go compares and parses is what versions mean.      *)

\* The order of compareSemVersion.
ReleaseLess(v, w) ==
  \/ v.major < w.major
  \/ v.major = w.major /\ v.minor < w.minor
  \/ v.major = w.major /\ v.minor = w.minor /\ v.patch < w.patch
SameRelease(v, w) == v.major = w.major /\ v.minor = w.minor /\ v.patch = w.patch
PreLess(s, t) == Load!SeqLess(s, t, Load!IdentifierLess)
VersionLess(v, w) ==
  ReleaseLess(v, w) \/ (SameRelease(v, w) /\ v.pre # <<>> /\ (w.pre = <<>> \/ PreLess(v.pre, w.pre)))

LEMMA ReleasesCompared ==
  ASSUME NEW v \in Load!SemVersions, NEW w \in Load!SemVersions
  PROVE  /\ Load!SeqLess(Load!Release(v), Load!Release(w), Load!NumberLess) <=> ReleaseLess(v, w)
         /\ Load!Release(v) = Load!Release(w) <=> SameRelease(v, w)
<1>1. v.major \in Nat /\ v.minor \in Nat /\ v.patch \in Nat
      /\ w.major \in Nat /\ w.minor \in Nat /\ w.patch \in Nat
  BY DEF Load!SemVersions
<1>2. Load!Release(v) = Load!Release(w) <=> SameRelease(v, w)
  BY DEF Load!Release, SameRelease
<1>3. Load!SeqLess(Load!Release(v), Load!Release(w), Load!NumberLess) <=>
        \E k \in 1..3 : /\ Load!Release(v)[k] < Load!Release(w)[k]
                        /\ \A j \in 1..k - 1 : ~(Load!Release(v)[j] < Load!Release(w)[j])
                                               /\ ~(Load!Release(w)[j] < Load!Release(v)[j])
  <2>1. PICK s, t : s = Load!Release(v) /\ t = Load!Release(w)
    OBVIOUS
  <2>2. Len(s) = 3 /\ Len(t) = 3
    BY <2>1 DEF Load!Release
  <2>3. Load!SeqLess(s, t, Load!NumberLess) <=>
          \E k \in 1..3 : /\ k <= 3 /\ s[k] < t[k]
                          /\ \A j \in 1..k - 1 : ~(s[j] < t[j]) /\ ~(t[j] < s[j])
    BY <2>2 DEF Load!SeqLess, Load!NumberLess
  <2> QED
    BY <2>1, <2>3
<1> QED
  BY <1>1, <1>2, <1>3 DEF Load!Release, ReleaseLess

LEMMA VersionsCompared ==
  ASSUME NEW v \in Load!SemVersions, NEW w \in Load!SemVersions
  PROVE  Load!CompareSemVersion(v, w) =
           IF VersionLess(v, w) THEN -1 ELSE IF VersionLess(w, v) THEN 1 ELSE 0
  BY ReleasesCompared DEF Load!CompareSemVersion, VersionLess, PreLess, SameRelease

\* The letters a version is spelt with.
LetterOf(a) == <<IF a.numeric THEN 1 ELSE 2, a.value>>
LastLetter(v) == <<IF v.pre = <<>> THEN 3 ELSE 0, 0>>

LEMMA IdentifiersCompared ==
  ASSUME NEW a \in Load!SemIdentifiers, NEW b \in Load!SemIdentifiers
  PROVE  /\ Load!LetterBefore(LetterOf(a), LetterOf(b)) <=> Load!IdentifierLess(a, b)
         /\ LetterOf(a) = LetterOf(b) <=> ~Load!IdentifierLess(a, b) /\ ~Load!IdentifierLess(b, a)
<1>1. a.value \in Nat /\ b.value \in Nat /\ a.numeric \in BOOLEAN /\ b.numeric \in BOOLEAN
  BY DEF Load!SemIdentifiers
<1>2. PICK k, l : k = (IF a.numeric THEN 1 ELSE 2) /\ l = (IF b.numeric THEN 1 ELSE 2)
  OBVIOUS
<1>3. LetterOf(a) = <<k, a.value>> /\ LetterOf(b) = <<l, b.value>>
  BY <1>2 DEF LetterOf
<1>4. k \in {1, 2} /\ l \in {1, 2} /\ (k = 1 <=> a.numeric) /\ (l = 1 <=> b.numeric)
  BY <1>1, <1>2
<1>5. /\ Load!IdentifierLess(a, b) <=> k < l \/ (k = l /\ a.value < b.value)
      /\ Load!IdentifierLess(b, a) <=> l < k \/ (k = l /\ b.value < a.value)
  <2>1. CASE a.numeric = b.numeric
    BY <1>4, <2>1 DEF Load!IdentifierLess
  <2>2. CASE a.numeric # b.numeric
    BY <1>1, <1>4, <2>2 DEF Load!IdentifierLess
  <2> QED
    BY <2>1, <2>2
<1> QED
  BY <1>1, <1>3, <1>4, <1>5 DEF Load!LetterBefore

LEMMA Spelling ==
  ASSUME NEW v \in Load!SemVersions
  PROVE  /\ v.major \in Nat /\ v.minor \in Nat /\ v.patch \in Nat
         /\ Len(v.pre) \in Nat /\ (v.pre = <<>> <=> Len(v.pre) = 0)
         /\ Load!Letter(v, 1) = <<0, v.major>> /\ Load!Letter(v, 2) = <<0, v.minor>>
         /\ Load!Letter(v, 3) = <<0, v.patch>>
         /\ \A m \in 1..Len(v.pre) :
              v.pre[m] \in Load!SemIdentifiers /\ Load!Letter(v, m + 3) = LetterOf(v.pre[m])
         /\ \A m \in Nat : m > Len(v.pre) => Load!Letter(v, m + 3) = LastLetter(v)
<1>1. v.major \in Nat /\ v.minor \in Nat /\ v.patch \in Nat /\ v.pre \in Seq(Load!SemIdentifiers)
  BY DEF Load!SemVersions
<1>2. Len(v.pre) \in Nat /\ (v.pre = <<>> <=> Len(v.pre) = 0)
  BY <1>1, EmptySeq, LenProperties
<1>3. Load!Letter(v, 1) = <<0, v.major>> /\ Load!Letter(v, 2) = <<0, v.minor>>
      /\ Load!Letter(v, 3) = <<0, v.patch>>
  BY DEF Load!Letter, Load!Release
<1>4. ASSUME NEW m \in 1..Len(v.pre)
      PROVE  v.pre[m] \in Load!SemIdentifiers /\ Load!Letter(v, m + 3) = LetterOf(v.pre[m])
  <2>1. m + 3 > 3 /\ (m + 3) - 3 = m /\ ~(m + 3 <= 3) /\ m <= Len(v.pre)
    BY <1>2
  <2> QED
    BY <1>1, <2>1 DEF Load!Letter, LetterOf
<1>5. ASSUME NEW m \in Nat, m > Len(v.pre) PROVE Load!Letter(v, m + 3) = LastLetter(v)
  <2>1. ~(m + 3 <= 3) /\ (m + 3) - 3 = m /\ ~(m <= Len(v.pre))
    BY <1>2, <1>5
  <2> QED
    BY <2>1 DEF Load!Letter, LastLetter
<1> QED
  BY <1>1, <1>2, <1>3, <1>4, <1>5

LEMMA LessPrecedes ==
  ASSUME NEW v \in Load!SemVersions, NEW w \in Load!SemVersions, VersionLess(v, w)
  PROVE  Load!Precedes(v, w)
<1>1. CASE ReleaseLess(v, w)
  <2>1. PICK k \in 1..3 : /\ Load!LetterBefore(Load!Letter(v, k), Load!Letter(w, k))
                          /\ \A j \in 1..k - 1 : Load!Letter(v, j) = Load!Letter(w, j)
    <3>1. CASE v.major < w.major
      BY <3>1, Spelling DEF Load!LetterBefore
    <3>2. CASE v.major = w.major /\ v.minor < w.minor
      BY <3>2, Spelling DEF Load!LetterBefore
    <3>3. CASE v.major = w.major /\ v.minor = w.minor /\ v.patch < w.patch
      <4>1. /\ Load!LetterBefore(Load!Letter(v, 3), Load!Letter(w, 3))
            /\ Load!Letter(v, 1) = Load!Letter(w, 1) /\ Load!Letter(v, 2) = Load!Letter(w, 2)
        <5>1. /\ Load!Letter(v, 1) = <<0, v.major>> /\ Load!Letter(w, 1) = <<0, w.major>>
              /\ Load!Letter(v, 2) = <<0, v.minor>> /\ Load!Letter(w, 2) = <<0, w.minor>>
              /\ Load!Letter(v, 3) = <<0, v.patch>> /\ Load!Letter(w, 3) = <<0, w.patch>>
          BY Spelling
        <5>2. Load!LetterBefore(<<0, v.patch>>, <<0, w.patch>>)
          BY <3>3 DEF Load!LetterBefore
        <5> QED
          BY <3>3, <5>1, <5>2
      <4>2. \A j \in 1..3 - 1 : j = 1 \/ j = 2
        OBVIOUS
      <4> QED
        BY <4>1, <4>2
    <3> QED
      BY <1>1, <3>1, <3>2, <3>3 DEF ReleaseLess
  <2>2. k \in 1..Len(v.pre) + 4
    BY Spelling
  <2> QED
    BY <2>1, <2>2 DEF Load!Precedes
<1>2. ASSUME SameRelease(v, w), NEW m \in 1..Len(v.pre) + 1,
             Load!LetterBefore(Load!Letter(v, m + 3), Load!Letter(w, m + 3)),
             \A j \in 1..m - 1 : Load!Letter(v, j + 3) = Load!Letter(w, j + 3)
      PROVE  Load!Precedes(v, w)
  <2>1. PICK n \in Nat : n = Len(v.pre)
    BY Spelling
  <2>2. m + 3 \in 1..n + 4
    BY <2>1
  <2>3. ASSUME NEW j \in 1..(m + 3) - 1 PROVE Load!Letter(v, j) = Load!Letter(w, j)
    <3>1. CASE j \in 1..3
      <4>1. j = 1 \/ j = 2 \/ j = 3
        BY <3>1
      <4> QED
        BY <1>2, <4>1, Spelling DEF SameRelease
    <3>2. CASE j \notin 1..3
      <4>1. j - 3 \in 1..m - 1 /\ (j - 3) + 3 = j
        BY <2>1, <3>2
      <4> QED
        BY <1>2, <4>1
    <3> QED
      BY <3>1, <3>2
  <2> QED
    BY <1>2, <2>1, <2>2, <2>3 DEF Load!Precedes
<1>3. CASE SameRelease(v, w) /\ v.pre # <<>> /\ w.pre = <<>>
  <2>1. Load!Letter(w, 1 + 3) = <<3, 0>> /\ 1 \in 1..Len(v.pre) /\ 1 \in 1..Len(v.pre) + 1
    BY <1>3, Spelling DEF LastLetter
  <2>2. Load!Letter(v, 1 + 3) = LetterOf(v.pre[1])
    BY <2>1, Spelling
  <2>3. Load!LetterBefore(Load!Letter(v, 1 + 3), Load!Letter(w, 1 + 3))
    BY <2>1, <2>2 DEF LetterOf, Load!LetterBefore
  <2> QED
    BY <1>2, <1>3, <2>1, <2>3
<1>4. CASE SameRelease(v, w) /\ v.pre # <<>> /\ w.pre # <<>> /\ PreLess(v.pre, w.pre)
  <2>1. PICK n \in Nat, p \in Nat : n = Len(v.pre) /\ p = Len(w.pre) /\ n # 0 /\ p # 0
    BY <1>4, Spelling
  <2>2. ASSUME NEW j \in 1..n, j <= p, ~Load!IdentifierLess(v.pre[j], w.pre[j]),
               ~Load!IdentifierLess(w.pre[j], v.pre[j])
        PROVE  Load!Letter(v, j + 3) = Load!Letter(w, j + 3)
    <3>1. j \in 1..Len(v.pre) /\ j \in 1..Len(w.pre)
      BY <2>1, <2>2
    <3> QED
      BY <2>2, <3>1, Spelling, IdentifiersCompared
  <2>3. CASE \E k \in 1..p : /\ k <= n /\ Load!IdentifierLess(v.pre[k], w.pre[k])
                             /\ \A j \in 1..k - 1 : ~Load!IdentifierLess(v.pre[j], w.pre[j])
                                                    /\ ~Load!IdentifierLess(w.pre[j], v.pre[j])
    <3>1. PICK k \in 1..p : /\ k <= n /\ Load!IdentifierLess(v.pre[k], w.pre[k])
                            /\ \A j \in 1..k - 1 : ~Load!IdentifierLess(v.pre[j], w.pre[j])
                                                   /\ ~Load!IdentifierLess(w.pre[j], v.pre[j])
      BY <2>3
    <3>2. k \in 1..Len(v.pre) /\ k \in 1..Len(w.pre) /\ k \in 1..Len(v.pre) + 1
      BY <2>1, <3>1
    <3>3. Load!LetterBefore(Load!Letter(v, k + 3), Load!Letter(w, k + 3))
      BY <3>1, <3>2, Spelling, IdentifiersCompared
    <3>4. \A j \in 1..k - 1 : Load!Letter(v, j + 3) = Load!Letter(w, j + 3)
      <4> SUFFICES ASSUME NEW j \in 1..k - 1 PROVE Load!Letter(v, j + 3) = Load!Letter(w, j + 3)
        OBVIOUS
      <4>1. j \in 1..n /\ j <= p
        BY <2>1, <3>1
      <4> QED
        BY <2>2, <3>1, <4>1
    <3> QED
      BY <1>2, <1>4, <3>2, <3>3, <3>4
  <2>4. CASE n < p /\ \A j \in 1..n : ~Load!IdentifierLess(v.pre[j], w.pre[j])
                                      /\ ~Load!IdentifierLess(w.pre[j], v.pre[j])
    <3>1. n + 1 \in 1..Len(w.pre) /\ n + 1 \in 1..Len(v.pre) + 1 /\ n + 1 > Len(v.pre) /\ n + 1 \in Nat
      BY <2>1, <2>4
    <3>2. Load!Letter(v, (n + 1) + 3) = <<0, 0>>
      BY <1>4, <3>1, Spelling DEF LastLetter
    <3>3. Load!Letter(w, (n + 1) + 3) = LetterOf(w.pre[n + 1])
      BY <3>1, Spelling
    <3>4. Load!LetterBefore(Load!Letter(v, (n + 1) + 3), Load!Letter(w, (n + 1) + 3))
      BY <3>2, <3>3 DEF LetterOf, Load!LetterBefore
    <3>5. \A j \in 1..(n + 1) - 1 : Load!Letter(v, j + 3) = Load!Letter(w, j + 3)
      <4> SUFFICES ASSUME NEW j \in 1..(n + 1) - 1 PROVE Load!Letter(v, j + 3) = Load!Letter(w, j + 3)
        OBVIOUS
      <4>1. j \in 1..n /\ j <= p
        BY <2>1, <2>4
      <4> QED
        BY <2>2, <2>4, <4>1
    <3> QED
      BY <1>2, <1>4, <3>1, <3>4, <3>5
  <2> QED
    BY <1>4, <2>1, <2>3, <2>4 DEF PreLess, Load!SeqLess
<1> QED
  BY <1>1, <1>3, <1>4 DEF VersionLess

LEMMA PrecedesLess ==
  ASSUME NEW v \in Load!SemVersions, NEW w \in Load!SemVersions, Load!Precedes(v, w)
  PROVE  VersionLess(v, w)
<1>1. PICK n \in Nat, p \in Nat : n = Len(v.pre) /\ p = Len(w.pre)
  BY Spelling
<1>2. PICK i \in 1..n + 4 : /\ Load!LetterBefore(Load!Letter(v, i), Load!Letter(w, i))
                            /\ \A j \in 1..i - 1 : Load!Letter(v, j) = Load!Letter(w, j)
  BY <1>1 DEF Load!Precedes
<1>3. CASE i \in 1..3
  <2>1. CASE i = 1
    BY <1>2, <2>1, Spelling DEF Load!LetterBefore, VersionLess, ReleaseLess
  <2>2. CASE i = 2
    <3>1. 1 \in 1..i - 1
      BY <2>2
    <3> QED
      BY <1>2, <2>2, <3>1, Spelling DEF Load!LetterBefore, VersionLess, ReleaseLess
  <2>3. CASE i = 3
    <3>1. 1 \in 1..i - 1 /\ 2 \in 1..i - 1
      BY <2>3
    <3> QED
      BY <1>2, <2>3, <3>1, Spelling DEF Load!LetterBefore, VersionLess, ReleaseLess
  <2> QED
    BY <1>3, <2>1, <2>2, <2>3
<1>4. CASE i \notin 1..3
  <2>1. PICK m \in 1..n + 1 : i = m + 3
    <3>1. i - 3 \in 1..n + 1 /\ i = (i - 3) + 3
      BY <1>1, <1>4
    <3> QED
      BY <3>1
  <2>2. SameRelease(v, w)
    <3>1. 1 \in 1..i - 1 /\ 2 \in 1..i - 1 /\ 3 \in 1..i - 1
      BY <1>1, <1>4
    <3> QED
      BY <1>2, <3>1, Spelling DEF SameRelease
  <2>3. Load!LetterBefore(Load!Letter(v, m + 3), Load!Letter(w, m + 3))
    BY <1>2, <2>1
  <2>4. ASSUME NEW j \in 1..m - 1 PROVE Load!Letter(v, j + 3) = Load!Letter(w, j + 3)
    <3>1. j + 3 \in 1..i - 1
      BY <1>1, <2>1
    <3> QED
      BY <1>2, <3>1
  <2>5. ASSUME NEW j \in 1..m - 1, j <= n, j <= p
        PROVE  ~Load!IdentifierLess(v.pre[j], w.pre[j]) /\ ~Load!IdentifierLess(w.pre[j], v.pre[j])
    <3>1. j \in 1..Len(v.pre) /\ j \in 1..Len(w.pre)
      BY <1>1, <2>5
    <3> QED
      BY <2>4, <3>1, Spelling, IdentifiersCompared
  <2>6. CASE w.pre = <<>>
    <3>1. m \in Nat /\ m > Len(w.pre)
      BY <1>1, <2>6, Spelling
    <3>2. Load!Letter(w, m + 3) = <<3, 0>>
      BY <2>6, <3>1, Spelling DEF LastLetter
    <3>3. v.pre # <<>>
      <4> SUFFICES ASSUME v.pre = <<>> PROVE FALSE
        OBVIOUS
      <4>1. Load!Letter(v, m + 3) = <<3, 0>>
        BY <3>1, Spelling DEF LastLetter
      <4> QED
        BY <2>3, <3>2, <4>1 DEF Load!LetterBefore
    <3> QED
      BY <2>2, <2>6, <3>3 DEF VersionLess
  <2>7. CASE w.pre # <<>> /\ m <= n
    <3>1. m \in 1..Len(v.pre) /\ Load!Letter(v, m + 3) = LetterOf(v.pre[m])
      BY <1>1, <2>7, Spelling
    <3>2. m <= p
      <4> SUFFICES ASSUME ~(m <= p) PROVE FALSE
        OBVIOUS
      <4>1. m \in Nat /\ m > Len(w.pre)
        BY <1>1
      <4>2. Load!Letter(w, m + 3) = <<0, 0>>
        BY <2>7, <4>1, Spelling DEF LastLetter
      <4> QED
        BY <2>3, <3>1, <4>2 DEF Load!LetterBefore, LetterOf
    <3>3. m \in 1..Len(w.pre) /\ Load!IdentifierLess(v.pre[m], w.pre[m])
      <4>1. m \in 1..Len(w.pre)
        BY <1>1, <3>2
      <4> QED
        BY <2>3, <3>1, <4>1, Spelling, IdentifiersCompared
    <3>4. \A j \in 1..m - 1 : ~Load!IdentifierLess(v.pre[j], w.pre[j])
                              /\ ~Load!IdentifierLess(w.pre[j], v.pre[j])
      <4> SUFFICES ASSUME NEW j \in 1..m - 1
                   PROVE  ~Load!IdentifierLess(v.pre[j], w.pre[j]) /\ ~Load!IdentifierLess(w.pre[j], v.pre[j])
        OBVIOUS
      <4>1. j <= n /\ j <= p
        BY <1>1, <2>7, <3>2
      <4> QED
        BY <2>5, <4>1
    <3>5. PreLess(v.pre, w.pre)
      BY <1>1, <2>7, <3>3, <3>4 DEF PreLess, Load!SeqLess
    <3>6. v.pre # <<>>
      BY <3>1, Spelling
    <3> QED
      BY <2>2, <3>5, <3>6 DEF VersionLess
  <2>8. CASE w.pre # <<>> /\ m = n + 1
    <3>1. m \in Nat /\ m > Len(v.pre)
      BY <1>1, <2>8
    <3>2. v.pre # <<>>
      <4> SUFFICES ASSUME v.pre = <<>> PROVE FALSE
        OBVIOUS
      <4>1. Load!Letter(v, m + 3) = <<3, 0>>
        BY <3>1, Spelling DEF LastLetter
      <4>2. CASE m \in 1..Len(w.pre)
        <5>1. Load!Letter(w, m + 3) = LetterOf(w.pre[m])
          BY <4>2, Spelling
        <5> QED
          BY <2>3, <4>1, <5>1 DEF Load!LetterBefore, LetterOf
      <4>3. CASE m \notin 1..Len(w.pre)
        <5>1. m > Len(w.pre)
          BY <1>1, <4>3
        <5>2. Load!Letter(w, m + 3) = <<0, 0>>
          BY <2>8, <3>1, <5>1, Spelling DEF LastLetter
        <5> QED
          BY <2>3, <4>1, <5>2 DEF Load!LetterBefore
      <4> QED
        BY <4>2, <4>3
    <3>3. Load!Letter(v, m + 3) = <<0, 0>>
      BY <3>1, <3>2, Spelling DEF LastLetter
    <3>4. n < p
      <4> SUFFICES ASSUME ~(n < p) PROVE FALSE
        OBVIOUS
      <4>1. m > Len(w.pre)
        BY <1>1, <2>8
      <4>2. Load!Letter(w, m + 3) = <<0, 0>>
        BY <2>8, <3>1, <4>1, Spelling DEF LastLetter
      <4> QED
        BY <2>3, <3>3, <4>2 DEF Load!LetterBefore
    <3>5. \A j \in 1..n : ~Load!IdentifierLess(v.pre[j], w.pre[j])
                          /\ ~Load!IdentifierLess(w.pre[j], v.pre[j])
      <4> SUFFICES ASSUME NEW j \in 1..n
                   PROVE  ~Load!IdentifierLess(v.pre[j], w.pre[j]) /\ ~Load!IdentifierLess(w.pre[j], v.pre[j])
        OBVIOUS
      <4>1. j \in 1..m - 1 /\ j <= n /\ j <= p
        BY <1>1, <2>8, <3>4
      <4> QED
        BY <2>5, <4>1
    <3>6. PreLess(v.pre, w.pre)
      BY <1>1, <3>4, <3>5 DEF PreLess, Load!SeqLess
    <3> QED
      BY <2>2, <3>2, <3>6 DEF VersionLess
  <2> QED
    BY <1>1, <2>6, <2>7, <2>8
<1> QED
  BY <1>3, <1>4

LEMMA LettersArePairs ==
  ASSUME NEW v \in Load!SemVersions, NEW m \in Nat \ {0}
  PROVE  \E x, y \in Nat : Load!Letter(v, m) = <<x, y>>
<1>1. CASE m \in 1..3
  <2>1. m = 1 \/ m = 2 \/ m = 3
    BY <1>1
  <2> QED
    BY <2>1, Spelling
<1>2. CASE m - 3 \in 1..Len(v.pre)
  <2>1. PICK k \in 1..Len(v.pre) : m = k + 3
    BY <1>2
  <2>2. v.pre[k] \in Load!SemIdentifiers /\ Load!Letter(v, m) = LetterOf(v.pre[k])
    BY <2>1, Spelling
  <2>3. v.pre[k].value \in Nat
    BY <2>2 DEF Load!SemIdentifiers
  <2> QED
    BY <2>2, <2>3 DEF LetterOf
<1>3. CASE m > 3 /\ m - 3 > Len(v.pre)
  <2>1. PICK k \in Nat : m = k + 3 /\ k > Len(v.pre)
    <3>1. m - 3 \in Nat /\ m = (m - 3) + 3
      BY <1>3
    <3> QED
      BY <1>3, <3>1
  <2> QED
    BY <2>1, Spelling DEF LastLetter
<1>4. Len(v.pre) \in Nat
  BY Spelling
<1> QED
  BY <1>1, <1>2, <1>3, <1>4

LEMMA SameIdentifiers ==
  ASSUME NEW a \in Load!SemIdentifiers, NEW b \in Load!SemIdentifiers, LetterOf(a) = LetterOf(b)
  PROVE  a = b
<1>1. a.numeric \in BOOLEAN /\ b.numeric \in BOOLEAN
  BY DEF Load!SemIdentifiers
<1>2. a.value = b.value /\ (IF a.numeric THEN 1 ELSE 2) = (IF b.numeric THEN 1 ELSE 2)
  BY DEF LetterOf
<1>3. a.numeric = b.numeric
  BY <1>1, <1>2
<1> QED
  BY <1>2, <1>3 DEF Load!SemIdentifiers

\* An identifier is never spelt like an end.
LEMMA EndsDiffer ==
  ASSUME NEW v \in Load!SemVersions, NEW w \in Load!SemVersions, NEW m \in Nat,
         m > Len(v.pre), m \in 1..Len(w.pre)
  PROVE  Load!Letter(v, m + 3) # Load!Letter(w, m + 3)
<1>1. Load!Letter(v, m + 3) = LastLetter(v) /\ Load!Letter(w, m + 3) = LetterOf(w.pre[m])
  BY Spelling
<1>2. LastLetter(v)[1] \in {0, 3} /\ LetterOf(w.pre[m])[1] \in {1, 2}
  BY DEF LastLetter, LetterOf
<1> QED
  BY <1>1, <1>2

LEMMA SameLastPlace ==
  ASSUME NEW v \in Load!SemVersions, NEW w \in Load!SemVersions,
         \A m \in Nat \ {0} : Load!Letter(v, m) = Load!Letter(w, m)
  PROVE  ~(Len(v.pre) < Len(w.pre))
<1> SUFFICES ASSUME Len(v.pre) < Len(w.pre) PROVE FALSE
  OBVIOUS
<1>1. PICK m \in Nat : m = Len(v.pre) + 1
  BY Spelling
<1>2. m > Len(v.pre) /\ m \in 1..Len(w.pre) /\ m + 3 \in Nat \ {0}
  BY <1>1, Spelling
<1> QED
  BY <1>2, EndsDiffer

\* The first difference comes no later than either end.
LEMMA DifferenceIsInside ==
  ASSUME NEW v \in Load!SemVersions, NEW w \in Load!SemVersions, NEW i \in Nat \ {0},
         Load!Letter(v, i) # Load!Letter(w, i),
         \A j \in 1..i - 1 : Load!Letter(v, j) = Load!Letter(w, j)
  PROVE  i <= Len(v.pre) + 4
<1>1. PICK n \in Nat, p \in Nat : n = Len(v.pre) /\ p = Len(w.pre)
  BY Spelling
<1> SUFFICES ASSUME i > n + 4 PROVE FALSE
  BY <1>1
<1>2. (n + 1) + 3 \in 1..i - 1 /\ n + 1 \in Nat /\ n + 1 > Len(v.pre)
  BY <1>1
<1>3. Load!Letter(v, (n + 1) + 3) = Load!Letter(w, (n + 1) + 3)
  BY <1>2
<1>4. n + 1 > p
  <2> SUFFICES ASSUME ~(n + 1 > p) PROVE FALSE
    OBVIOUS
  <2>1. n + 1 \in 1..Len(w.pre)
    BY <1>1
  <2> QED
    BY <1>2, <1>3, <2>1, EndsDiffer
<1>5. LastLetter(v) = LastLetter(w)
  <2>1. Load!Letter(v, (n + 1) + 3) = LastLetter(v)
    BY <1>2, Spelling
  <2>2. Load!Letter(w, (n + 1) + 3) = LastLetter(w)
    BY <1>1, <1>2, <1>4, Spelling
  <2> QED
    BY <1>3, <2>1, <2>2
<1>6. PICK m \in Nat : i = m + 3 /\ m > Len(v.pre) /\ m > Len(w.pre)
  <2>1. i - 3 \in Nat /\ i = (i - 3) + 3 /\ i - 3 > n /\ i - 3 > p
    BY <1>4
  <2> QED
    BY <1>1, <2>1
<1>7. Load!Letter(v, i) = LastLetter(v) /\ Load!Letter(w, i) = LastLetter(w)
  BY <1>6, Spelling
<1> QED
  BY <1>5, <1>7

LEMMA PrecedesIsOrder ==
  ASSUME NEW v \in Load!SemVersions, NEW w \in Load!SemVersions
  PROVE  /\ ~(Load!Precedes(v, w) /\ Load!Precedes(w, v))
         /\ v = w \/ Load!Precedes(v, w) \/ Load!Precedes(w, v)
<1>0. PICK n \in Nat, p \in Nat : n = Len(v.pre) /\ p = Len(w.pre)
  BY Spelling
<1>1. ~(Load!Precedes(v, w) /\ Load!Precedes(w, v))
  <2> SUFFICES ASSUME Load!Precedes(v, w), Load!Precedes(w, v) PROVE FALSE
    OBVIOUS
  <2>1. PICK i \in 1..n + 4 : /\ Load!LetterBefore(Load!Letter(v, i), Load!Letter(w, i))
                              /\ \A j \in 1..i - 1 : Load!Letter(v, j) = Load!Letter(w, j)
    BY <1>0 DEF Load!Precedes
  <2>2. PICK k \in 1..p + 4 : /\ Load!LetterBefore(Load!Letter(w, k), Load!Letter(v, k))
                              /\ \A j \in 1..k - 1 : Load!Letter(w, j) = Load!Letter(v, j)
    BY <1>0 DEF Load!Precedes
  <2>3. \A m \in Nat \ {0} : \E x, y \in Nat : Load!Letter(v, m) = <<x, y>>
    BY LettersArePairs
  <2>4. \A m \in Nat \ {0} : \E x, y \in Nat : Load!Letter(w, m) = <<x, y>>
    BY LettersArePairs
  <2>5. i \in Nat \ {0} /\ k \in Nat \ {0}
    BY <1>0
  <2>6. i = k
    <3>1. ~(i < k)
      <4> SUFFICES ASSUME i < k PROVE FALSE
        OBVIOUS
      <4>1. i \in 1..k - 1
        BY <2>5
      <4>2. Load!Letter(w, i) = Load!Letter(v, i)
        BY <2>2, <4>1
      <4>3. PICK x, y \in Nat : Load!Letter(v, i) = <<x, y>>
        BY <2>3, <2>5
      <4> QED
        BY <2>1, <4>2, <4>3 DEF Load!LetterBefore
    <3>2. ~(k < i)
      <4> SUFFICES ASSUME k < i PROVE FALSE
        OBVIOUS
      <4>1. k \in 1..i - 1
        BY <2>5
      <4>2. Load!Letter(w, k) = Load!Letter(v, k)
        BY <2>1, <4>1
      <4>3. PICK x, y \in Nat : Load!Letter(v, k) = <<x, y>>
        BY <2>3, <2>5
      <4> QED
        BY <2>2, <4>2, <4>3 DEF Load!LetterBefore
    <3> QED
      BY <2>5, <3>1, <3>2
  <2>7. PICK x, y \in Nat : Load!Letter(v, i) = <<x, y>>
    BY <2>3, <2>5
  <2>8. PICK a, b \in Nat : Load!Letter(w, i) = <<a, b>>
    BY <2>4, <2>5
  <2> QED
    BY <2>1, <2>2, <2>6, <2>7, <2>8 DEF Load!LetterBefore
<1>2. ASSUME v # w PROVE Load!Precedes(v, w) \/ Load!Precedes(w, v)
  <2> DEFINE D == {m \in Nat : m # 0 /\ Load!Letter(v, m) # Load!Letter(w, m)}
  <2>1. D # {}
    <3> SUFFICES ASSUME \A m \in Nat \ {0} : Load!Letter(v, m) = Load!Letter(w, m) PROVE v = w
      BY <1>2
    <3> HIDE DEF D
    <3>1. v.major = w.major /\ v.minor = w.minor /\ v.patch = w.patch
      BY Spelling
    <3>2. ~(n < p)
      BY <1>0, SameLastPlace
    <3>3. ~(p < n)
      BY <1>0, SameLastPlace
    <3>4. \A m \in 1..n : v.pre[m] = w.pre[m]
      <4> SUFFICES ASSUME NEW m \in 1..n PROVE v.pre[m] = w.pre[m]
        OBVIOUS
      <4>1. m \in 1..Len(v.pre) /\ m \in 1..Len(w.pre) /\ m + 3 \in Nat \ {0}
        BY <1>0, <3>2, <3>3
      <4>2. LetterOf(v.pre[m]) = LetterOf(w.pre[m])
        BY <4>1, Spelling
      <4>3. v.pre[m] \in Load!SemIdentifiers /\ w.pre[m] \in Load!SemIdentifiers
        BY <4>1, Spelling
      <4> QED
        BY <4>2, <4>3, SameIdentifiers
    <3>5. v.pre \in Seq(Load!SemIdentifiers) /\ w.pre \in Seq(Load!SemIdentifiers) /\ Len(v.pre) = Len(w.pre)
      BY <1>0, <3>2, <3>3 DEF Load!SemVersions
    <3>6. v.pre = w.pre
      BY <1>0, <3>4, <3>5, SeqEqual
    <3> QED
      BY <3>1, <3>6 DEF Load!SemVersions
  <2>2. PICK i \in D : \A m \in D : i <= m
    <3> HIDE DEF D
    <3>1. D \subseteq Nat
      BY DEF D
    <3>2. PICK i \in D : \A m \in D : ~(<<m, i>> \in OpToRel(<, Nat))
      BY <2>1, <3>1, NatLessThanWellFounded, WFMin
    <3>3. \A m \in D : ~(m < i)
      BY <3>1, <3>2 DEF OpToRel
    <3>4. \A m \in D : i <= m
      <4> SUFFICES ASSUME NEW m \in D PROVE i <= m
        OBVIOUS
      <4>1. m \in Nat /\ i \in Nat /\ ~(m < i)
        BY <3>1, <3>3
      <4> QED
        BY <4>1
    <3> QED
      BY <3>4
  <2>3. i \in Nat \ {0} /\ Load!Letter(v, i) # Load!Letter(w, i)
    OBVIOUS
  <2>4. \A j \in 1..i - 1 : Load!Letter(v, j) = Load!Letter(w, j)
    <3> SUFFICES ASSUME NEW j \in 1..i - 1, Load!Letter(v, j) # Load!Letter(w, j) PROVE FALSE
      OBVIOUS
    <3>1. j \in Nat /\ j # 0 /\ j < i
      BY <2>3
    <3> QED
      BY <2>2, <2>3, <3>1
  <2> HIDE DEF D
  <2>5. PICK x, y \in Nat : Load!Letter(v, i) = <<x, y>>
    BY <2>3, LettersArePairs
  <2>6. PICK a, b \in Nat : Load!Letter(w, i) = <<a, b>>
    BY <2>3, LettersArePairs
  <2>7. \/ Load!LetterBefore(Load!Letter(v, i), Load!Letter(w, i))
        \/ Load!LetterBefore(Load!Letter(w, i), Load!Letter(v, i))
    BY <2>3, <2>5, <2>6 DEF Load!LetterBefore
  <2>8. i <= n + 4 /\ i <= p + 4
    <3>1. i <= n + 4
      BY <1>0, <2>3, <2>4, DifferenceIsInside
    <3>2. Load!Letter(w, i) # Load!Letter(v, i) /\ \A j \in 1..i - 1 : Load!Letter(w, j) = Load!Letter(v, j)
      BY <2>3, <2>4
    <3>3. i <= p + 4
      BY <1>0, <2>3, <3>2, DifferenceIsInside
    <3> QED
      BY <3>1, <3>3
  <2>9. i \in 1..n + 4 /\ i \in 1..p + 4
    BY <2>3, <2>8
  <2>10. \A j \in 1..i - 1 : Load!Letter(w, j) = Load!Letter(v, j)
    BY <2>4
  <2> QED
    BY <1>0, <2>4, <2>7, <2>9, <2>10 DEF Load!Precedes
<1> QED
  BY <1>1, <1>2

LEMMA PredicatesMatch ==
  ASSUME NEW v \in Load!SemVersions, NEW w \in Load!SemVersions
  PROVE  /\ Load!Matches(Load!Predicate("=", w), v) <=> v = w
         /\ Load!Matches(Load!Predicate(">", w), v) <=> Load!Precedes(w, v)
         /\ Load!Matches(Load!Predicate(">=", w), v) <=> ~Load!Precedes(v, w)
         /\ Load!Matches(Load!Predicate("<", w), v) <=> Load!Precedes(v, w)
         /\ Load!Matches(Load!Predicate("<=", w), v) <=> ~Load!Precedes(w, v)
<1>1. (VersionLess(v, w) <=> Load!Precedes(v, w)) /\ (VersionLess(w, v) <=> Load!Precedes(w, v))
  BY LessPrecedes, PrecedesLess
<1>2. ~(Load!Precedes(v, w) /\ Load!Precedes(w, v)) /\ (v = w \/ Load!Precedes(v, w) \/ Load!Precedes(w, v))
      /\ (v = w => ~Load!Precedes(v, w) /\ ~Load!Precedes(w, v))
  BY PrecedesIsOrder
<1>3. PICK c \in {-1, 0, 1} : c = Load!CompareSemVersion(v, w)
  BY VersionsCompared
<1>4. (c = -1 <=> Load!Precedes(v, w)) /\ (c = 1 <=> Load!Precedes(w, v)) /\ (c = 0 <=> v = w)
  <2>1. c = IF Load!Precedes(v, w) THEN -1 ELSE IF Load!Precedes(w, v) THEN 1 ELSE 0
    BY <1>1, <1>3, VersionsCompared
  <2> QED
    BY <1>2, <2>1
<1>5. \A op : Load!Matches(Load!Predicate(op, w), v) =
                CASE op = "=" -> c = 0 [] op = ">" -> c > 0 [] op = ">=" -> c >= 0
                  [] op = "<" -> c < 0 [] op = "<=" -> c <= 0
  BY <1>3 DEF Load!Matches, Load!Predicate
<1>6. (c > 0 <=> c = 1) /\ (c < 0 <=> c = -1) /\ (c >= 0 <=> c # -1) /\ (c <= 0 <=> c # 1)
  OBVIOUS
<1> QED
  BY <1>4, <1>5, <1>6

\* A version precedes a release: the numbers are smaller, or it is its prerelease.
LEMMA PrecedesRelease ==
  ASSUME NEW v \in Load!SemVersions, NEW a \in Nat, NEW b \in Nat, NEW c \in Nat
  PROVE  /\ Load!Version(a, b, c) \in Load!SemVersions
         /\ Load!Precedes(v, Load!Version(a, b, c)) <=>
              \/ v.major < a \/ (v.major = a /\ v.minor < b) \/ (v.major = a /\ v.minor = b /\ v.patch < c)
              \/ v.major = a /\ v.minor = b /\ v.patch = c /\ v.pre # <<>>
<1>1. PICK w : w = Load!Version(a, b, c)
  OBVIOUS
<1>2. w.major = a /\ w.minor = b /\ w.patch = c /\ w.pre = <<>>
  BY <1>1 DEF Load!Version
<1>3. w \in Load!SemVersions
  BY <1>1, EmptySeq DEF Load!Version, Load!SemVersions
<1>4. Load!Precedes(v, w) <=> VersionLess(v, w)
  BY <1>3, LessPrecedes, PrecedesLess
<1> QED
  BY <1>1, <1>2, <1>3, <1>4 DEF VersionLess, ReleaseLess, SameRelease

LEMMA NotPrecedesRelease ==
  ASSUME NEW v \in Load!SemVersions, NEW w \in Load!SemVersions, ~Load!Precedes(v, w)
  PROVE  ~ReleaseLess(v, w)
  BY LessPrecedes DEF VersionLess

\* A predicate, or two: what MatchVersion makes of a token.
LEMMA ChainsMatch ==
  ASSUME NEW p, NEW q, NEW v
  PROVE  /\ (\A j \in 1..Len(<<p>>) : Load!Matches(<<p>>[j], v)) <=> Load!Matches(p, v)
         /\ (\A j \in 1..Len(<<p, q>>) : Load!Matches(<<p, q>>[j], v)) <=>
              Load!Matches(p, v) /\ Load!Matches(q, v)
<1>1. Len(<<p>>) = 1 /\ Len(<<p, q>>) = 2 /\ <<p>>[1] = p /\ <<p, q>>[1] = p /\ <<p, q>>[2] = q
  OBVIOUS
<1>2. (\A j \in 1..Len(<<p>>) : j = 1) /\ (\A j \in 1..Len(<<p, q>>) : j = 1 \/ j = 2)
      /\ 1 \in 1..Len(<<p>>) /\ 1 \in 1..Len(<<p, q>>) /\ 2 \in 1..Len(<<p, q>>)
  BY <1>1
<1> QED
  BY <1>1, <1>2

\* What parseVersionConstraint makes of a token admits what the token says: of a
\* range, its versions and the prereleases of the first release beyond it.
LEMMA TokensAdmit ==
  ASSUME NEW token \in Load!Tokens, NEW v \in Load!SemVersions
  PROVE  (\A j \in 1..Len(Load!ParseVersionConstraint(token)) :
            Load!Matches(Load!ParseVersionConstraint(token)[j], v)) <=> Load!Admits(token, v)
<1> DEFINE t == token.version
           All(s) == \A j \in 1..Len(s) : Load!Matches(s[j], v)
<1>1. t \in Load!SemVersions /\ token.op \in Load!Operators
  BY DEF Load!Tokens
<1>2. /\ v.major \in Nat /\ v.minor \in Nat /\ v.patch \in Nat
      /\ t.major \in Nat /\ t.minor \in Nat /\ t.patch \in Nat
  BY <1>1, Spelling
<1>3. ASSUME NEW lower \in Load!SemVersions, NEW a \in Nat, NEW b \in Nat, NEW c \in Nat
      PROVE  All(<<Load!Predicate(">=", lower), Load!Predicate("<", Load!Version(a, b, c))>>) <=>
               /\ ~Load!Precedes(v, lower)
               /\ \/ v.major < a \/ (v.major = a /\ v.minor < b)
                  \/ (v.major = a /\ v.minor = b /\ v.patch < c)
                  \/ v.major = a /\ v.minor = b /\ v.patch = c /\ v.pre # <<>>
  BY ChainsMatch, PredicatesMatch, PrecedesRelease
<1>4. CASE token.op \in {"=", ">", ">=", "<", "<="}
  <2>1. Load!ParseVersionConstraint(token) = <<Load!Predicate(token.op, t)>>
    BY <1>4 DEF Load!ParseVersionConstraint
  <2>2. All(<<Load!Predicate(token.op, t)>>) <=> Load!Matches(Load!Predicate(token.op, t), v)
    BY ChainsMatch
  <2>3. Load!From(token) = t
    BY <1>4 DEF Load!From
  <2>4. CASE token.op = "="
    BY <1>1, <2>1, <2>2, <2>3, <2>4, PredicatesMatch DEF Load!Admits
  <2>5. CASE token.op = ">"
    BY <1>1, <2>1, <2>2, <2>3, <2>5, PredicatesMatch DEF Load!Admits
  <2>6. CASE token.op = ">="
    BY <1>1, <2>1, <2>2, <2>3, <2>6, PredicatesMatch DEF Load!Admits
  <2>7. CASE token.op = "<"
    BY <1>1, <2>1, <2>2, <2>3, <2>7, PredicatesMatch DEF Load!Admits
  <2>8. CASE token.op = "<="
    BY <1>1, <2>1, <2>2, <2>3, <2>8, PredicatesMatch DEF Load!Admits
  <2> QED
    BY <1>4, <2>4, <2>5, <2>6, <2>7, <2>8
<1>5. ASSUME token.op \in {"^", "~", "N.x", "N.N.x"},
             NEW lower \in Load!SemVersions, lower = Load!From(token),
             NEW a \in Nat, NEW b \in Nat, NEW c \in Nat, Load!Beyond(token) = <<a, b, c>>,
             Load!ParseVersionConstraint(token) =
               <<Load!Predicate(">=", lower), Load!Predicate("<", Load!Version(a, b, c))>>,
             ~ReleaseLess(v, lower) =>
               (Load!Keeps(token, v) <=> \/ v.major < a \/ (v.major = a /\ v.minor < b)
                                         \/ (v.major = a /\ v.minor = b /\ v.patch < c))
      PROVE  All(Load!ParseVersionConstraint(token)) <=> Load!Admits(token, v)
  <2>1. Load!Admits(token, v) <=> /\ ~Load!Precedes(v, lower)
                                  /\ \/ Load!Keeps(token, v)
                                     \/ v.pre # <<>> /\ Load!Release(v) = Load!Beyond(token)
    BY <1>5 DEF Load!Admits
  <2>2. Load!Release(v) = Load!Beyond(token) <=> v.major = a /\ v.minor = b /\ v.patch = c
    BY <1>5 DEF Load!Release
  <2> QED
    BY <1>3, <1>5, <2>1, <2>2, NotPrecedesRelease
<1>6. CASE token.op = "^"
  <2>1. Load!From(token) = t /\ Load!ParseVersionConstraint(token) =
          <<Load!Predicate(">=", t), Load!Predicate("<", Load!Caret(t))>>
    BY <1>6 DEF Load!From, Load!ParseVersionConstraint
  <2>2. Load!Keeps(token, v) <=> /\ v.major = t.major
                                 /\ t.major = 0 => v.minor = t.minor
                                 /\ t.major = 0 /\ t.minor = 0 => v.patch = t.patch
    BY <1>6 DEF Load!Keeps
  <2>3. CASE t.major # 0
    <3>1. Load!Caret(t) = Load!Version(t.major + 1, 0, 0) /\ Load!Beyond(token) = <<t.major + 1, 0, 0>>
      BY <1>6, <2>3 DEF Load!Caret, Load!Beyond
    <3>2. ~ReleaseLess(v, t) =>
            (v.major = t.major <=> \/ v.major < t.major + 1 \/ (v.major = t.major + 1 /\ v.minor < 0)
                                   \/ (v.major = t.major + 1 /\ v.minor = 0 /\ v.patch < 0))
      BY <1>2 DEF ReleaseLess
    <3> QED
      BY <1>1, <1>2, <1>5, <1>6, <2>1, <2>2, <2>3, <3>1, <3>2
  <2>4. CASE t.major = 0 /\ t.minor # 0
    <3>1. Load!Caret(t) = Load!Version(0, t.minor + 1, 0) /\ Load!Beyond(token) = <<0, t.minor + 1, 0>>
      BY <1>6, <2>4 DEF Load!Caret, Load!Beyond
    <3>2. ~ReleaseLess(v, t) =>
            (v.major = 0 /\ v.minor = t.minor <=>
               \/ v.major < 0 \/ (v.major = 0 /\ v.minor < t.minor + 1)
               \/ (v.major = 0 /\ v.minor = t.minor + 1 /\ v.patch < 0))
      BY <1>2, <2>4 DEF ReleaseLess
    <3> QED
      BY <1>1, <1>2, <1>5, <1>6, <2>1, <2>2, <2>4, <3>1, <3>2
  <2>5. CASE t.major = 0 /\ t.minor = 0
    <3>1. Load!Caret(t) = Load!Version(0, 0, t.patch + 1) /\ Load!Beyond(token) = <<0, 0, t.patch + 1>>
      BY <1>6, <2>5 DEF Load!Caret, Load!Beyond
    <3>2. ~ReleaseLess(v, t) =>
            (v.major = 0 /\ v.minor = 0 /\ v.patch = t.patch <=>
               \/ v.major < 0 \/ (v.major = 0 /\ v.minor < 0)
               \/ (v.major = 0 /\ v.minor = 0 /\ v.patch < t.patch + 1))
      BY <1>2, <2>5 DEF ReleaseLess
    <3> QED
      BY <1>1, <1>2, <1>5, <1>6, <2>1, <2>2, <2>5, <3>1, <3>2
  <2> QED
    BY <2>3, <2>4, <2>5
<1>7. ASSUME token.op \in {"~", "N.N.x"}, NEW lower \in Load!SemVersions,
             lower.major = t.major, lower.minor = t.minor, lower.patch \in Nat,
             lower = Load!From(token),
             Load!ParseVersionConstraint(token) =
               <<Load!Predicate(">=", lower), Load!Predicate("<", Load!Tilde(t))>>
      PROVE  All(Load!ParseVersionConstraint(token)) <=> Load!Admits(token, v)
  <2>1. Load!Tilde(t) = Load!Version(t.major, t.minor + 1, 0) /\ Load!Beyond(token) = <<t.major, t.minor + 1, 0>>
    BY <1>7 DEF Load!Tilde, Load!Beyond
  <2>2. Load!Keeps(token, v) <=> v.major = t.major /\ v.minor = t.minor
    BY <1>7 DEF Load!Keeps
  <2>3. ~ReleaseLess(v, lower) =>
          (v.major = t.major /\ v.minor = t.minor <=>
             \/ v.major < t.major \/ (v.major = t.major /\ v.minor < t.minor + 1)
             \/ (v.major = t.major /\ v.minor = t.minor + 1 /\ v.patch < 0))
    BY <1>2, <1>7 DEF ReleaseLess
  <2> QED
    BY <1>2, <1>5, <1>7, <2>1, <2>2, <2>3
<1>8. CASE token.op = "~"
  <2>1. Load!From(token) = t /\ Load!ParseVersionConstraint(token) =
          <<Load!Predicate(">=", t), Load!Predicate("<", Load!Tilde(t))>>
    BY <1>8 DEF Load!From, Load!ParseVersionConstraint
  <2> QED
    BY <1>1, <1>2, <1>7, <1>8, <2>1
<1>9. CASE token.op = "N.N.x"
  <2>1. PICK lower : lower = Load!Version(t.major, t.minor, 0)
    OBVIOUS
  <2>2. Load!From(token) = lower /\ Load!ParseVersionConstraint(token) =
          <<Load!Predicate(">=", lower), Load!Predicate("<", Load!Tilde(t))>>
    BY <1>9, <2>1 DEF Load!From, Load!ParseVersionConstraint
  <2>3. lower \in Load!SemVersions /\ lower.major = t.major /\ lower.minor = t.minor /\ lower.patch \in Nat
    <3>1. lower = [major |-> t.major, minor |-> t.minor, patch |-> 0, pre |-> <<>>]
      BY <2>1 DEF Load!Version
    <3>2. lower \in Load!SemVersions
      BY <1>2, <3>1, EmptySeq DEF Load!SemVersions
    <3> QED
      BY <3>1, <3>2
  <2> QED
    BY <1>7, <1>9, <2>2, <2>3
<1>10. CASE token.op = "N.x"
  <2>1. PICK lower : lower = Load!Version(t.major, 0, 0)
    OBVIOUS
  <2>2. /\ Load!From(token) = lower /\ Load!Beyond(token) = <<t.major + 1, 0, 0>>
        /\ Load!ParseVersionConstraint(token) =
             <<Load!Predicate(">=", lower), Load!Predicate("<", Load!Version(t.major + 1, 0, 0))>>
    BY <1>10, <2>1 DEF Load!From, Load!ParseVersionConstraint, Load!Beyond
  <2>3. lower \in Load!SemVersions /\ lower.major = t.major /\ lower.minor = 0 /\ lower.patch = 0
    <3>1. lower \in Load!SemVersions
      BY <1>2, <2>1, PrecedesRelease
    <3> QED
      BY <2>1, <3>1 DEF Load!Version
  <2>4. Load!Keeps(token, v) <=> v.major = t.major
    BY <1>10 DEF Load!Keeps
  <2>5. ~ReleaseLess(v, lower) =>
          (v.major = t.major <=> \/ v.major < t.major + 1 \/ (v.major = t.major + 1 /\ v.minor < 0)
                                 \/ (v.major = t.major + 1 /\ v.minor = 0 /\ v.patch < 0))
    BY <1>2, <2>3 DEF ReleaseLess
  <2> QED
    BY <1>2, <1>5, <1>10, <2>2, <2>3, <2>4, <2>5
<1> QED
  BY <1>1, <1>4, <1>6, <1>8, <1>9, <1>10 DEF Load!Operators

\* So does a chain of tokens.
LEMMA ChainsAdmit ==
  ASSUME NEW tokens \in Seq(Load!Tokens), NEW v \in Load!SemVersions
  PROVE  Load!MatchVersion(tokens, v) <=> \A i \in 1..Len(tokens) : Load!Admits(tokens[i], v)
<1>1. \A i \in 1..Len(tokens) : tokens[i] \in Load!Tokens
  BY ElementOfSeq
<1>2. \A i \in 1..Len(tokens) :
        (\A j \in 1..Len(Load!ParseVersionConstraint(tokens[i])) :
           Load!Matches(Load!ParseVersionConstraint(tokens[i])[j], v)) <=> Load!Admits(tokens[i], v)
  BY <1>1, TokensAdmit
<1> QED
  BY <1>2 DEF Load!MatchVersion

\* What is asked for can be parsed, and was checked where the load went on.
VersionsInv ==
  /\ wanted # Load!NoConstraint =>
       /\ wanted \in Seq(Load!Tokens)
       /\ \A d \in LoadDirs : manifest[d].version \in Load!SemVersions \cup {Load!NoVersion}
  /\ phase \in {"sync", "emit", "loaded"} => ~Load!Mismatched

LEMMA VersionsStart == part = "load" /\ Init => VersionsInv
<1> SUFFICES ASSUME part = "load", Init PROVE VersionsInv
  OBVIOUS
<1>1. Load!Init
  BY DEF Init
<1>2. phase = "start"
  BY <1>1 DEF Load!Init
<1>3. CASE Load!OrderInputs
  BY <1>2, <1>3 DEF Load!OrderInputs, VersionsInv
<1>4. CASE Load!VersionInputs
  <2>1. wanted \in Seq(Load!Tokens)
    BY <1>4, VersionConstants DEF Load!VersionInputs
  <2>2. PICK v \in Versions : manifest = [d \in LoadDirs |->
          Load!Manifest(d, IF d = Load!Bundle THEN {1} ELSE {}, "ok", IF d = 1 THEN v ELSE Load!NoVersion)]
    BY <1>4 DEF Load!VersionInputs
  <2>3. \A d \in LoadDirs : manifest[d].version = v \/ manifest[d].version = Load!NoVersion
    BY <2>2 DEF Load!Manifest
  <2>4. v \in Load!SemVersions \cup {Load!NoVersion}
    BY VersionConstants
  <2> QED
    BY <1>2, <2>1, <2>3, <2>4 DEF VersionsInv
<1> QED
  BY <1>1, <1>3, <1>4 DEF Load!Init

LEMMA VersionsStepKeeps ==
  ASSUME VersionsInv, [Load!Next]_loadVars
  PROVE  VersionsInv'
<1>1. UNCHANGED Load!inputs
  BY DEF loadVars, Load!inputs, Load!Next, Load!Prepare, Load!ReadFails, Load!ReadManifests, Load!Place,
         Load!OrderEnds, Load!CheckVersions, Load!Sync, Load!EmitLoad
<1>2. wanted' = wanted /\ manifest' = manifest
  BY <1>1 DEF Load!inputs
<1>3. Load!Mismatched' <=> Load!Mismatched
  BY <1>1, <1>2, InputsStay DEF Load!Mismatched
<1>4. phase' \in {"sync", "emit", "loaded"} => phase \in {"sync", "emit", "loaded"} \/ ~Load!Mismatched
  BY DEF loadVars, Load!Next, Load!Prepare, Load!ReadFails, Load!ReadManifests, Load!Place,
         Load!OrderEnds, Load!CheckVersions, Load!Sync, Load!EmitLoad, Load!Fail
<1> QED
  BY <1>2, <1>3, <1>4 DEF VersionsInv

LEMMA VersionsInvHolds == Spec => [](part = "load" => VersionsInv)
<1>1. Init => (part = "load" => VersionsInv)
  BY VersionsStart
<1>2. (part = "load" => VersionsInv) /\ [Next]_vars => (part = "load" => VersionsInv)'
  BY LoadMoves, VersionsStepKeeps
<1> QED
  BY <1>1, <1>2, PTL DEF Spec

\* Besides, the plugins that are loaded have the versions that they asked of each
\* other, as caret, tilde, wildcards and the order of versions are meant, and not
\* only as semver.go computes them (MatchVersion).
THEOREM LoadsAreOrdered == Spec => [](part = "load" => Load!LoadIsOrdered)
<1>1. VersionsInv => Load!VersionsAdmitted
  <2> SUFFICES ASSUME VersionsInv, phase = "loaded", wanted # Load!NoConstraint,
                      NEW d \in Load!Loadable, NEW e \in Load!Dependencies(d)
               PROVE  /\ manifest[e].version # Load!NoVersion
                      /\ \A i \in 1..Len(wanted) : Load!Admits(wanted[i], manifest[e].version)
    BY DEF Load!VersionsAdmitted
  <2>1. manifest[e].version # Load!NoVersion /\ Load!MatchVersion(wanted, manifest[e].version)
    BY DEF VersionsInv, Load!Mismatched
  <2>2. e \in LoadDirs
    BY LoadSets
  <2>3. manifest[e].version \in Load!SemVersions /\ wanted \in Seq(Load!Tokens)
    BY <2>1, <2>2 DEF VersionsInv
  <2> QED
    BY <2>1, <2>3, ChainsAdmit
<1> QED
  BY <1>1, LoadsInOrder, VersionsInvHolds, PTL DEF Load!LoadIsOrdered

-----------------------------------------------------------------------------
(* The plugin manager of a running office.                                  *)

LEMMA RuntimeMoves ==
  ASSUME [Next]_vars
  PROVE  Runtime!Next \/ UNCHANGED runtimeVars
  BY DEF Next, vars, Others

RuntimeTypes ==
  /\ task \in [Runtime!Tasks -> Runtime!Stages \cup {"admitted", "over"}]
  /\ at \in [Runtime!Tasks -> Runtime!Plugins]
  /\ queue \in Seq({"event"}) /\ Len(queue) <= AsyncLimit /\ dropped \in Nat
  /\ running \in [Runtime!Plugins -> Nat]
  /\ state \in [Runtime!Plugins -> {"ready", "running", "error"}]
  /\ manualActive \subseteq {1} /\ requested \subseteq Triggers /\ outcomes \subseteq Triggers
  /\ closer \in [Runtime!Closers -> {"idle", "cancelled", "pending", "unload", "done"}]
  /\ manualClosing \in BOOLEAN /\ closed \in BOOLEAN /\ snapshotDir \in BOOLEAN
  /\ unloaded \in Seq(Runtime!Plugins)
  /\ shutdownBy \in {"none", "safe", "office"}
  /\ closing \in {"no", "emitting", "emitted", "cancelled", "joining", "closed"}

\* The tasks a hook of plugin p runs for.
HooksOf(p) == {t \in Runtime!Readers : Runtime!Plugin(t, at[t]) = p}
HooksCounted ==
  \A p \in Runtime!Plugins :
    running[p] = Cardinality(HooksOf(p)) /\ (state[p] = "running" => running[p] > 0)

\* A cron or manual hook is of one plugin; the shutdown event is emitted once.
TasksInStep ==
  /\ \A t \in Runtime!Tasks \ Runtime!Emissions : at[t] = 1
  /\ shutdownBy = "none" => task["shutdown"] = "idle"

\* A recorded trigger is on its way to its outcome, and one is under way while the
\* plugin is taken.
TriggersInStep ==
  /\ \A m \in requested \ outcomes : task[m] \in {"lock", "hook", "outcome"}
  /\ Runtime!Pending = {} => manualActive = {}

\* A close holds new triggers back, waits for those there are, and then for the hooks.
ClosersInStep ==
  /\ \A c \in Runtime!Closers :
       /\ closer[c] # "idle" => manualClosing
       /\ closer[c] \in {"pending", "unload", "done"} => Runtime!Pending = {}
       /\ closer[c] = "unload" => Runtime!Readers = {} /\ ~closed
       /\ closer[c] = "done" => closed
       /\ \A d \in Runtime!Closers : closer[c] = "unload" /\ closer[d] = "unload" => c = d
  /\ closed => /\ Runtime!Readers = {} /\ Len(unloaded) = PluginCount
               /\ \E c \in Runtime!Closers : closer[c] = "done"
  /\ unloaded # <<>> => closed \/ \E c \in Runtime!Closers : closer[c] = "unload"
  /\ snapshotDir <=> ~closed
  /\ Len(unloaded) <= PluginCount
  /\ \A i \in 1..Len(unloaded) : unloaded[i] = PluginCount + 1 - i
  /\ closing = "closed" => closer["run"] = "done"

RuntimeInv == RuntimeTypes /\ HooksCounted /\ TasksInStep /\ TriggersInStep /\ ClosersInStep

LEMMA RuntimeConstants ==
  /\ PluginCount \in Nat /\ PluginCount >= 1 /\ AsyncLimit \in Nat
  /\ IsFiniteSet(Triggers) /\ Triggers \cap (Runtime!Emissions \cup {"cron"}) = {}
  BY HomeConstants DEF Runtime!Emissions, Runtime!Passes

LEMMA TasksFinite == IsFiniteSet(Runtime!Tasks)
<1>1. Runtime!Tasks = {"create", "nested", "async", "startup", "shutdown", "cron"} \cup Triggers
  BY DEF Runtime!Tasks, Runtime!Emissions, Runtime!Passes
<1>2. IsFiniteSet({"create", "nested", "async", "startup", "shutdown", "cron"})
  <2>1. IsFiniteSet({"create"} \cup {"nested"})
    BY FS_Singleton, FS_Union
  <2>2. IsFiniteSet(({"create"} \cup {"nested"}) \cup {"async"})
    BY <2>1, FS_Singleton, FS_Union
  <2>3. IsFiniteSet((({"create"} \cup {"nested"}) \cup {"async"}) \cup {"startup"})
    BY <2>2, FS_Singleton, FS_Union
  <2>4. IsFiniteSet(((({"create"} \cup {"nested"}) \cup {"async"}) \cup {"startup"}) \cup {"shutdown"})
    BY <2>3, FS_Singleton, FS_Union
  <2>5. IsFiniteSet((((({"create"} \cup {"nested"}) \cup {"async"}) \cup {"startup"}) \cup {"shutdown"})
                    \cup {"cron"})
    BY <2>4, FS_Singleton, FS_Union
  <2>6. (((({"create"} \cup {"nested"}) \cup {"async"}) \cup {"startup"}) \cup {"shutdown"}) \cup {"cron"}
        = {"create", "nested", "async", "startup", "shutdown", "cron"}
    OBVIOUS
  <2> QED
    BY <2>5, <2>6
<1> QED
  BY <1>1, <1>2, RuntimeConstants, FS_Union

LEMMA HooksFinite ==
  ASSUME NEW p
  PROVE  IsFiniteSet(HooksOf(p)) /\ Cardinality(HooksOf(p)) \in 0..Cardinality(Runtime!Tasks)
<1>1. HooksOf(p) \in SUBSET Runtime!Tasks
  BY DEF HooksOf, Runtime!Readers
<1> QED
  BY <1>1, TasksFinite, FS_Subset, FS_CardinalityType

LEMMA SameTasks ==
  ASSUME NEW S
  PROVE  Runtime!Cardinality(S) = Cardinality(S)
  BY DEF Runtime!Cardinality, Cardinality

\* What a task does that runs no hook before or after leaves the hooks alone.
LEMMA NoHookMoves ==
  ASSUME RuntimeInv, NEW t \in Runtime!Tasks, NEW stage \in (Runtime!Stages \cup {"admitted", "over"}) \ {"hook"},
         task[t] # "hook", task' = [task EXCEPT ![t] = stage],
         at' = at \/ (at' = [at EXCEPT ![t] = 1]), UNCHANGED <<running, state>>
  PROVE  /\ task' \in [Runtime!Tasks -> Runtime!Stages \cup {"admitted", "over"}]
         /\ at' \in [Runtime!Tasks -> Runtime!Plugins]
         /\ task'[t] = stage /\ \A u \in Runtime!Tasks \ {t} : task'[u] = task[u] /\ at'[u] = at[u]
         /\ \A u \in Runtime!Tasks \ Runtime!Emissions : at'[u] = 1
         /\ Runtime!Readers' = Runtime!Readers /\ HooksCounted'
<1>0. /\ task \in [Runtime!Tasks -> Runtime!Stages \cup {"admitted", "over"}]
      /\ at \in [Runtime!Tasks -> Runtime!Plugins] /\ 1 \in Runtime!Plugins
      /\ \A u \in Runtime!Tasks \ Runtime!Emissions : at[u] = 1
  BY RuntimeConstants DEF RuntimeInv, RuntimeTypes, TasksInStep, Runtime!Plugins
<1>1. /\ task' \in [Runtime!Tasks -> Runtime!Stages \cup {"admitted", "over"}]
      /\ at' \in [Runtime!Tasks -> Runtime!Plugins]
      /\ task'[t] = stage /\ \A u \in Runtime!Tasks \ {t} : task'[u] = task[u] /\ at'[u] = at[u]
      /\ \A u \in Runtime!Tasks \ Runtime!Emissions : at'[u] = 1
  BY <1>0
<1>2. Runtime!Readers' = Runtime!Readers /\ t \notin Runtime!Readers
  BY <1>1 DEF Runtime!Readers
<1>3. \A p : HooksOf(p)' = HooksOf(p)
  <2> SUFFICES ASSUME NEW p, NEW u \in Runtime!Readers
               PROVE  at'[u] = at[u]
    BY <1>2 DEF HooksOf, Runtime!Plugin
  <2> QED
    BY <1>1, <1>2 DEF Runtime!Readers
<1>4. HooksCounted'
  BY <1>3 DEF RuntimeInv, HooksCounted
<1> QED
  BY <1>1, <1>2, <1>4

\* What does not touch a task leaves its part of the invariant alone.
LEMMA TasksStay ==
  ASSUME RuntimeInv, UNCHANGED <<task, at, running, state>>
  PROVE  /\ HooksCounted' /\ Runtime!Readers' = Runtime!Readers
         /\ Runtime!Pending' = Runtime!Pending
         /\ \A t \in Runtime!Tasks \ Runtime!Emissions : at'[t] = 1
         /\ task' \in [Runtime!Tasks -> Runtime!Stages \cup {"admitted", "over"}]
         /\ at' \in [Runtime!Tasks -> Runtime!Plugins]
         /\ running' \in [Runtime!Plugins -> Nat]
         /\ state' \in [Runtime!Plugins -> {"ready", "running", "error"}]
<1>1. \A p : HooksOf(p)' = HooksOf(p)
  BY DEF HooksOf, Runtime!Readers, Runtime!Plugin
<1>2. HooksCounted'
  BY <1>1 DEF RuntimeInv, HooksCounted
<1> QED
  BY <1>2 DEF RuntimeInv, RuntimeTypes, TasksInStep, Runtime!Readers, Runtime!Pending

\* An emission starts, and waits for the lock.
LEMMA EmissionBegins ==
  ASSUME RuntimeInv, NEW t \in Runtime!Emissions \cup {"cron"}, task[t] = "idle",
         task' = [task EXCEPT ![t] = "lock"], at' = [at EXCEPT ![t] = 1],
         UNCHANGED <<running, state, manualActive, manualClosing, requested, outcomes, closer, closed,
                     snapshotDir, unloaded>>,
         queue' \in Seq({"event"}), Len(queue') <= AsyncLimit, dropped' \in Nat,
         shutdownBy' \in {"none", "safe", "office"}, shutdownBy' = "none" => shutdownBy = "none" /\ t # "shutdown",
         closing' \in {"no", "emitting", "emitted", "cancelled", "joining", "closed"},
         closing' = "closed" => closing = "closed"
  PROVE  RuntimeInv'
<1>0. t \in Runtime!Tasks /\ t \notin Triggers /\ "shutdown" \in Runtime!Tasks
  BY RuntimeConstants DEF Runtime!Tasks, Runtime!Emissions, Runtime!Passes
<1>1. /\ task' \in [Runtime!Tasks -> Runtime!Stages \cup {"admitted", "over"}]
      /\ at' \in [Runtime!Tasks -> Runtime!Plugins]
      /\ task'[t] = "lock" /\ \A u \in Runtime!Tasks \ {t} : task'[u] = task[u] /\ at'[u] = at[u]
      /\ \A u \in Runtime!Tasks \ Runtime!Emissions : at'[u] = 1
      /\ Runtime!Readers' = Runtime!Readers /\ HooksCounted'
  BY <1>0, NoHookMoves DEF Runtime!Stages
<1>2. \A m \in Triggers : task'[m] = task[m]
  BY <1>0, <1>1 DEF Runtime!Tasks
<1>3. Runtime!Pending' = Runtime!Pending
  BY <1>2 DEF Runtime!Pending
<1>4. RuntimeTypes'
  BY <1>1 DEF RuntimeInv, RuntimeTypes
<1>5. TasksInStep'
  BY <1>0, <1>1 DEF RuntimeInv, TasksInStep
<1>6. TriggersInStep'
  BY <1>2, <1>3 DEF RuntimeInv, TriggersInStep, RuntimeTypes
<1>7. ClosersInStep'
  BY <1>1, <1>3 DEF RuntimeInv, ClosersInStep
<1> QED
  BY <1>1, <1>4, <1>5, <1>6, <1>7 DEF RuntimeInv

LEMMA EmissionStep ==
  ASSUME RuntimeInv, Runtime!EmissionStarts \/ Runtime!RunTakes
  PROVE  RuntimeInv'
<1>0. /\ queue \in Seq({"event"}) /\ Len(queue) <= AsyncLimit /\ dropped \in Nat
      /\ shutdownBy \in {"none", "safe", "office"}
      /\ closing \in {"no", "emitting", "emitted", "cancelled", "joining", "closed"}
  BY DEF RuntimeInv, RuntimeTypes
<1>1. ASSUME NEW t \in {"create", "nested", "startup", "cron"}, Runtime!Begin(t, "lock"),
             UNCHANGED <<Runtime!runtime, Runtime!status, Runtime!manual, Runtime!ending, Runtime!office>>
      PROVE  RuntimeInv'
  <2>1. /\ task[t] = "idle" /\ task' = [task EXCEPT ![t] = "lock"] /\ at' = [at EXCEPT ![t] = 1]
        /\ UNCHANGED <<running, state, manualActive, manualClosing, requested, outcomes, closer, closed,
                       snapshotDir, unloaded, queue, dropped, shutdownBy, closing>>
    BY <1>1 DEF Runtime!Begin, Runtime!runtime, Runtime!status, Runtime!manual, Runtime!ending,
       Runtime!office
  <2>2. t \in Runtime!Emissions \cup {"cron"} /\ t # "shutdown"
    BY DEF Runtime!Emissions, Runtime!Passes
  <2> QED
    BY <1>0, <2>1, <2>2, EmissionBegins
<1>2. CASE Runtime!EmitAsync
  <2>1. /\ UNCHANGED <<task, at, running, state, manualActive, manualClosing, requested, outcomes,
                       closer, closed, snapshotDir, unloaded, shutdownBy, closing>>
        /\ \/ Len(queue) < AsyncLimit /\ queue' = Append(queue, "event") /\ dropped' = dropped
           \/ queue' = queue /\ dropped' = dropped + 1
    BY <1>2 DEF Runtime!EmitAsync, Runtime!status, Runtime!manual, Runtime!ending, Runtime!office
  <2>2. queue' \in Seq({"event"}) /\ Len(queue') <= AsyncLimit /\ dropped' \in Nat
    BY <1>0, <2>1, RuntimeConstants
  <2> QED
    BY <2>1, <2>2, TasksStay DEF RuntimeInv, RuntimeTypes, TasksInStep, TriggersInStep, ClosersInStep
<1>3. CASE Runtime!RunTakes
  <2>1. /\ task["async"] = "idle" /\ queue # <<>> /\ queue' = Tail(queue) /\ dropped' = dropped
        /\ task' = [task EXCEPT !["async"] = "lock"] /\ at' = [at EXCEPT !["async"] = 1]
        /\ UNCHANGED <<running, state, manualActive, manualClosing, requested, outcomes, closer, closed,
                       snapshotDir, unloaded, shutdownBy, closing>>
    BY <1>3 DEF Runtime!RunTakes, Runtime!status, Runtime!manual, Runtime!ending, Runtime!office
  <2>2. queue' \in Seq({"event"}) /\ Len(queue') <= AsyncLimit
    <3>1. Tail(queue) \in Seq({"event"}) /\ Len(Tail(queue)) = Len(queue) - 1 /\ Len(queue) \in Nat
      BY <1>0, <2>1, HeadTailProperties, LenProperties
    <3> DEFINE n == Len(queue)
               l == Len(Tail(queue))
    <3>2. l <= AsyncLimit
      <4>1. l = n - 1 /\ n \in Nat /\ n <= AsyncLimit
        BY <1>0, <3>1
      <4> HIDE DEF n, l
      <4> QED
        BY <4>1, RuntimeConstants
    <3> QED
      BY <2>1, <3>1, <3>2
  <2>3. "async" \in Runtime!Emissions
    BY DEF Runtime!Emissions
  <2> QED
    BY <1>0, <2>1, <2>2, <2>3, EmissionBegins
<1> QED
  BY <1>1, <1>2, <1>3
  DEF Runtime!EmissionStarts, Runtime!CreateJob, Runtime!HookCallsBack, Runtime!Startup, Runtime!CronTicks

\* Where a task goes when its hooks are over.
LEMMA OverIsNoHook ==
  ASSUME NEW t \in Runtime!Tasks
  PROVE  /\ Runtime!Over(t) \in {"outcome", "over", "idle"}
         /\ t \in Triggers => Runtime!Over(t) = "outcome"
         /\ Runtime!Over(t) \in (Runtime!Stages \cup {"admitted", "over"}) \ {"hook"}
  BY DEF Runtime!Over, Runtime!Stages

LEMMA PluginOf ==
  ASSUME NEW t, NEW k \in Runtime!Plugins
  PROVE  Runtime!Plugin(t, k) \in Runtime!Plugins
  BY RuntimeConstants DEF Runtime!Plugin, Runtime!Plugins

\* A trigger that moves between the lock, the hook and the outcome stays under way.
LEMMA TriggersStay ==
  ASSUME RuntimeInv, NEW t \in Runtime!Tasks, task[t] \in {"lock", "hook"},
         t \in Triggers => task'[t] \in {"lock", "hook", "outcome"},
         \A u \in Runtime!Tasks \ {t} : task'[u] = task[u],
         UNCHANGED <<manualActive, requested, outcomes>>
  PROVE  TriggersInStep' /\ Runtime!Pending' = Runtime!Pending
<1>1. Runtime!Pending' = Runtime!Pending
  BY DEF Runtime!Pending, Runtime!Tasks
<1>2. requested \subseteq Runtime!Tasks /\ requested \subseteq Triggers
  BY DEF RuntimeInv, RuntimeTypes, Runtime!Tasks
<1> QED
  BY <1>1, <1>2 DEF RuntimeInv, TriggersInStep

\* A task takes the lock, or is told that the plugins are gone.
LEMMA LockStep ==
  ASSUME RuntimeInv, NEW t \in Runtime!Tasks, Runtime!TakeLock(t)
  PROVE  RuntimeInv'
<1>0. /\ task \in [Runtime!Tasks -> Runtime!Stages \cup {"admitted", "over"}] /\ task[t] = "lock"
      /\ at \in [Runtime!Tasks -> Runtime!Plugins] /\ running \in [Runtime!Plugins -> Nat]
      /\ state \in [Runtime!Plugins -> {"ready", "running", "error"}]
      /\ Runtime!MayRead /\ "shutdown" \in Runtime!Tasks
  BY DEF RuntimeInv, RuntimeTypes, Runtime!TakeLock, Runtime!Tasks, Runtime!Emissions, Runtime!Passes
<1>1. UNCHANGED <<at, queue, dropped, manualActive, manualClosing, requested, outcomes, closer, closed,
                  snapshotDir, unloaded, shutdownBy, closing, pluginEvents>>
  BY DEF Runtime!TakeLock, Runtime!runtime, Runtime!manual, Runtime!ending, Runtime!office
<1>2. shutdownBy = "none" => t # "shutdown"
  BY <1>0 DEF RuntimeInv, TasksInStep
<1>3. CASE closed
  <2>1. task' = [task EXCEPT ![t] = Runtime!Over(t)] /\ UNCHANGED <<running, state>>
    BY <1>3 DEF Runtime!TakeLock, Runtime!status
  <2>2. /\ task' \in [Runtime!Tasks -> Runtime!Stages \cup {"admitted", "over"}]
        /\ at' \in [Runtime!Tasks -> Runtime!Plugins]
        /\ task'[t] = Runtime!Over(t) /\ \A u \in Runtime!Tasks \ {t} : task'[u] = task[u] /\ at'[u] = at[u]
        /\ \A u \in Runtime!Tasks \ Runtime!Emissions : at'[u] = 1
        /\ Runtime!Readers' = Runtime!Readers /\ HooksCounted'
    BY <1>0, <1>1, <2>1, OverIsNoHook, NoHookMoves
  <2>3. TriggersInStep' /\ Runtime!Pending' = Runtime!Pending
    BY <1>0, <1>1, <2>2, OverIsNoHook, TriggersStay
  <2>4. RuntimeTypes' /\ TasksInStep'
    BY <1>0, <1>1, <1>2, <2>1, <2>2 DEF RuntimeInv, RuntimeTypes, TasksInStep
  <2>5. ClosersInStep'
    BY <1>1, <2>2, <2>3 DEF RuntimeInv, ClosersInStep
  <2> QED
    BY <2>2, <2>3, <2>4, <2>5 DEF RuntimeInv
<1>4. CASE ~closed
  <2>1. PICK p \in Runtime!Plugins : p = Runtime!Plugin(t, at[t])
    BY <1>0, PluginOf
  <2>2. /\ task' = [task EXCEPT ![t] = "hook"] /\ running' = [running EXCEPT ![p] = @ + 1]
        /\ state' = [state EXCEPT ![p] = "running"]
    BY <1>4, <2>1 DEF Runtime!TakeLock
  <2>3. /\ task' \in [Runtime!Tasks -> Runtime!Stages \cup {"admitted", "over"}]
        /\ task'[t] = "hook" /\ \A u \in Runtime!Tasks \ {t} : task'[u] = task[u]
    BY <1>0, <2>2 DEF Runtime!Stages
  <2>4. Runtime!Readers' = Runtime!Readers \cup {t} /\ t \notin Runtime!Readers
    BY <1>0, <2>3 DEF Runtime!Readers
  <2>5. HooksOf(p)' = HooksOf(p) \cup {t} /\ t \notin HooksOf(p)
        /\ \A q \in Runtime!Plugins \ {p} : HooksOf(q)' = HooksOf(q)
    BY <1>1, <2>1, <2>4 DEF HooksOf, Runtime!Plugin
  <2>6. HooksCounted'
    <3> SUFFICES ASSUME NEW q \in Runtime!Plugins
                 PROVE  running'[q] = Cardinality(HooksOf(q)') /\ (state'[q] = "running" => running'[q] > 0)
      BY DEF HooksCounted
    <3>1. CASE q = p
      <4>1. Cardinality(HooksOf(p)') = Cardinality(HooksOf(p)) + 1
        BY <2>5, HooksFinite, FS_AddElement
      <4>2. running[p] = Cardinality(HooksOf(p)) /\ running[p] \in Nat /\ running'[p] = running[p] + 1
        BY <1>0, <2>2 DEF RuntimeInv, HooksCounted
      <4> QED
        BY <3>1, <4>1, <4>2
    <3>2. CASE q # p
      BY <1>0, <2>2, <2>5, <3>2 DEF RuntimeInv, HooksCounted
    <3> QED
      BY <3>1, <3>2
  <2>7. TriggersInStep' /\ Runtime!Pending' = Runtime!Pending
    BY <1>0, <1>1, <2>3, TriggersStay
  <2>8. running' \in [Runtime!Plugins -> Nat] /\ state' \in [Runtime!Plugins -> {"ready", "running", "error"}]
    BY <1>0, <2>2
  <2>9. RuntimeTypes' /\ TasksInStep'
    BY <1>0, <1>1, <1>2, <2>3, <2>8 DEF RuntimeInv, RuntimeTypes, TasksInStep
  <2>10. ClosersInStep'
    BY <1>0, <1>1, <1>4, <2>7 DEF RuntimeInv, ClosersInStep, Runtime!MayRead
  <2> QED
    BY <2>6, <2>7, <2>9, <2>10 DEF RuntimeInv
<1> QED
  BY <1>3, <1>4

LEMMA FinishedHook ==
  ASSUME NEW p \in Runtime!Plugins, NEW err \in BOOLEAN,
         state \in [Runtime!Plugins -> {"ready", "running", "error"}], running \in [Runtime!Plugins -> Nat]
  PROVE  /\ Runtime!SetHookFinished(p, err) \in [Runtime!Plugins -> {"ready", "running", "error"}]
         /\ Runtime!SetHookFinished(p, err)[p] = "running" => running[p] > 1
         /\ \A q \in Runtime!Plugins \ {p} : Runtime!SetHookFinished(p, err)[q] = state[q]
  BY DEF Runtime!SetHookFinished

\* A hook ends, by itself or by its timeout.
LEMMA HookStep ==
  ASSUME RuntimeInv, NEW t \in Runtime!Tasks, NEW err \in BOOLEAN, Runtime!HookEnds(t, err)
  PROVE  RuntimeInv'
<1>0. /\ task \in [Runtime!Tasks -> Runtime!Stages \cup {"admitted", "over"}] /\ task[t] = "hook"
      /\ at \in [Runtime!Tasks -> Runtime!Plugins] /\ running \in [Runtime!Plugins -> Nat]
      /\ state \in [Runtime!Plugins -> {"ready", "running", "error"}]
      /\ t \in Runtime!Readers /\ "shutdown" \in Runtime!Tasks
      /\ \A u \in Runtime!Tasks \ Runtime!Emissions : at[u] = 1
  BY DEF RuntimeInv, RuntimeTypes, TasksInStep, Runtime!HookEnds, Runtime!Readers, Runtime!Tasks,
     Runtime!Emissions, Runtime!Passes
<1>1. UNCHANGED <<queue, dropped, manualActive, manualClosing, requested, outcomes, closer, closed,
                  snapshotDir, unloaded, shutdownBy, closing, pluginEvents>>
  BY DEF Runtime!HookEnds, Runtime!runtime, Runtime!manual, Runtime!ending, Runtime!office
<1>2. PICK p \in Runtime!Plugins : p = Runtime!Plugin(t, at[t])
  BY <1>0, PluginOf
<1>3. PICK fin : fin = [running EXCEPT ![p] = @ - 1]
  OBVIOUS
<1>4. PICK st : st = Runtime!SetHookFinished(p, err)
  OBVIOUS
<1>5. /\ running[p] = Cardinality(HooksOf(p)) /\ t \in HooksOf(p)
      /\ Cardinality(HooksOf(p) \ {t}) = running[p] - 1 /\ running[p] >= 1
  <2>1. running[p] = Cardinality(HooksOf(p)) /\ t \in HooksOf(p)
    BY <1>0, <1>2 DEF RuntimeInv, HooksCounted, HooksOf
  <2>2. Cardinality(HooksOf(p) \ {t}) = Cardinality(HooksOf(p)) - 1
    BY <2>1, HooksFinite, FS_RemoveElement
  <2>3. Cardinality(HooksOf(p) \ {t}) \in Nat
    BY HooksFinite, FS_Difference, FS_CardinalityType
  <2> QED
    BY <1>0, <2>1, <2>2, <2>3
<1>6. /\ fin \in [Runtime!Plugins -> Nat] /\ fin[p] = running[p] - 1
      /\ \A q \in Runtime!Plugins \ {p} : fin[q] = running[q]
  BY <1>0, <1>3, <1>5
<1>7. /\ st \in [Runtime!Plugins -> {"ready", "running", "error"}]
      /\ st[p] = "running" => running[p] > 1
      /\ \A q \in Runtime!Plugins \ {p} : st[q] = state[q]
  BY <1>0, <1>4, FinishedHook
<1>8. ASSUME task' \in [Runtime!Tasks -> Runtime!Stages \cup {"admitted", "over"}],
             at' \in [Runtime!Tasks -> Runtime!Plugins],
             \A u \in Runtime!Tasks \ {t} : task'[u] = task[u] /\ at'[u] = at[u],
             t \in Triggers => task'[t] \in {"lock", "hook", "outcome"},
             \A u \in Runtime!Tasks \ Runtime!Emissions : at'[u] = 1,
             running' \in [Runtime!Plugins -> Nat],
             state' \in [Runtime!Plugins -> {"ready", "running", "error"}], HooksCounted'
      PROVE  RuntimeInv'
  <2>1. TriggersInStep' /\ Runtime!Pending' = Runtime!Pending
    BY <1>0, <1>1, <1>8, TriggersStay
  <2>2. Runtime!Readers' \subseteq Runtime!Readers
    BY <1>0, <1>8 DEF Runtime!Readers
  <2>3. RuntimeTypes'
    BY <1>1, <1>8 DEF RuntimeInv, RuntimeTypes
  <2>4. TasksInStep'
    <3>1. shutdownBy = "none" => t # "shutdown"
      BY <1>0 DEF RuntimeInv, TasksInStep
    <3> QED
      BY <1>0, <1>1, <1>8, <3>1 DEF RuntimeInv, TasksInStep
  <2>5. ClosersInStep'
    BY <1>1, <2>1, <2>2 DEF RuntimeInv, ClosersInStep
  <2> QED
    BY <1>8, <2>1, <2>3, <2>4, <2>5 DEF RuntimeInv
<1>9. ASSUME Runtime!Readers' = Runtime!Readers \ {t}, running' = fin, state' = st,
             \A u \in Runtime!Tasks \ {t} : at'[u] = at[u]
      PROVE  HooksCounted'
  <2>1. HooksOf(p)' = HooksOf(p) \ {t} /\ \A q \in Runtime!Plugins \ {p} : HooksOf(q)' = HooksOf(q)
    BY <1>2, <1>9 DEF HooksOf, Runtime!Plugin, Runtime!Readers
  <2> SUFFICES ASSUME NEW q \in Runtime!Plugins
               PROVE  running'[q] = Cardinality(HooksOf(q)') /\ (state'[q] = "running" => running'[q] > 0)
    BY DEF HooksCounted
  <2>2. CASE q = p
    <3>1. HooksOf(q)' = HooksOf(p) \ {t} /\ running'[q] = running[p] - 1 /\ state'[q] = st[p]
      BY <1>6, <1>9, <2>1, <2>2
    <3>2. Cardinality(HooksOf(q)') = running[p] - 1
      BY <1>5, <3>1
    <3>3. running[p] \in Nat /\ (state'[q] = "running" => running[p] > 1)
      BY <1>0, <1>7, <3>1
    <3> QED
      BY <3>1, <3>2, <3>3
  <2>3. CASE q # p
    BY <1>6, <1>7, <1>9, <2>1, <2>3 DEF RuntimeInv, HooksCounted
  <2> QED
    BY <2>2, <2>3
<1>10. CASE at[t] = Runtime!LastOf(t)
  <2>1. task' = [task EXCEPT ![t] = Runtime!Over(t)] /\ at' = at /\ running' = fin /\ state' = st
    BY <1>2, <1>3, <1>4, <1>10 DEF Runtime!HookEnds
  <2>2. /\ task' \in [Runtime!Tasks -> Runtime!Stages \cup {"admitted", "over"}]
        /\ task'[t] = Runtime!Over(t) /\ \A u \in Runtime!Tasks \ {t} : task'[u] = task[u]
    BY <1>0, <2>1, OverIsNoHook
  <2>3. Runtime!Readers' = Runtime!Readers \ {t}
    BY <2>2, OverIsNoHook DEF Runtime!Readers
  <2> QED
    BY <1>0, <1>6, <1>7, <1>8, <1>9, <2>1, <2>2, <2>3, OverIsNoHook
<1>11. CASE at[t] # Runtime!LastOf(t)
  <2>1. t \in Runtime!Emissions /\ at[t] < PluginCount /\ at[t] \in Nat
    BY <1>0, <1>11, RuntimeConstants DEF Runtime!LastOf, Runtime!Plugins
  <2>2. PICK k \in Runtime!Plugins : k = at[t] + 1
    BY <1>0, <2>1, RuntimeConstants DEF Runtime!Plugins
  <2>3. PICK next \in Runtime!Plugins : next = Runtime!Plugin(t, k) /\ next # p
    BY <1>2, <2>1, <2>2, PluginOf, RuntimeConstants DEF Runtime!Plugin
  <2>4. at' = [at EXCEPT ![t] = k]
    BY <1>11, <2>2 DEF Runtime!HookEnds
  <2>5. /\ at' \in [Runtime!Tasks -> Runtime!Plugins] /\ at'[t] = k
        /\ \A u \in Runtime!Tasks \ {t} : at'[u] = at[u]
        /\ \A u \in Runtime!Tasks \ Runtime!Emissions : at'[u] = 1
    BY <1>0, <2>1, <2>2, <2>4
  <2>6. t \notin Triggers
    BY <2>1, RuntimeConstants
  <2>7. CASE t \in Runtime!Passes
    <3>1. /\ task' = task /\ running' = [fin EXCEPT ![next] = @ + 1]
          /\ state' = [st EXCEPT ![next] = "running"]
      BY <1>2, <1>3, <1>4, <1>11, <2>2, <2>3, <2>7 DEF Runtime!HookEnds
    <3>2. running' \in [Runtime!Plugins -> Nat] /\ state' \in [Runtime!Plugins -> {"ready", "running", "error"}]
      BY <1>6, <1>7, <3>1
    <3>3. Runtime!Readers' = Runtime!Readers
      BY <3>1 DEF Runtime!Readers
    <3>4. /\ HooksOf(p)' = HooksOf(p) \ {t} /\ HooksOf(next)' = HooksOf(next) \cup {t}
          /\ t \notin HooksOf(next)
          /\ \A q \in Runtime!Plugins \ {p, next} : HooksOf(q)' = HooksOf(q)
      BY <1>0, <1>2, <2>3, <2>5, <3>3 DEF HooksOf, Runtime!Plugin, Runtime!Readers
    <3>5. ASSUME NEW q \in Runtime!Plugins
          PROVE  running'[q] = Cardinality(HooksOf(q)') /\ (state'[q] = "running" => running'[q] > 0)
      <4>1. CASE q = p
        <5>1. /\ HooksOf(q)' = HooksOf(p) \ {t} /\ running'[q] = running[p] - 1
              /\ state'[q] = st[p]
          BY <1>6, <1>7, <2>3, <3>1, <3>4, <4>1
        <5>2. Cardinality(HooksOf(q)') = running[p] - 1
          BY <1>5, <5>1
        <5>3. running[p] \in Nat /\ (state'[q] = "running" => running[p] > 1)
          BY <1>0, <1>7, <5>1
        <5> QED
          BY <5>1, <5>2, <5>3
      <4>2. CASE q = next
        <5>1. Cardinality(HooksOf(next)') = Cardinality(HooksOf(next)) + 1
          BY <3>4, HooksFinite, FS_AddElement
        <5>2. running[next] = Cardinality(HooksOf(next)) /\ running[next] \in Nat
              /\ running'[next] = running[next] + 1
          BY <1>0, <1>6, <2>3, <3>1 DEF RuntimeInv, HooksCounted
        <5> QED
          BY <4>2, <5>1, <5>2
      <4>3. CASE q \notin {p, next}
        BY <1>6, <1>7, <3>1, <3>4, <4>3 DEF RuntimeInv, HooksCounted
      <4> QED
        BY <4>1, <4>2, <4>3
    <3>6. HooksCounted'
      BY <3>5 DEF HooksCounted
    <3> QED
      BY <1>0, <1>8, <2>5, <2>6, <3>1, <3>2, <3>6
  <2>8. CASE t \notin Runtime!Passes
    <3>1. task' = [task EXCEPT ![t] = "lock"] /\ running' = fin /\ state' = st
      BY <1>2, <1>3, <1>4, <1>11, <2>8 DEF Runtime!HookEnds
    <3>2. /\ task' \in [Runtime!Tasks -> Runtime!Stages \cup {"admitted", "over"}]
          /\ task'[t] = "lock" /\ \A u \in Runtime!Tasks \ {t} : task'[u] = task[u]
      BY <1>0, <3>1 DEF Runtime!Stages
    <3>3. Runtime!Readers' = Runtime!Readers \ {t}
      BY <3>2 DEF Runtime!Readers
    <3> QED
      BY <1>6, <1>7, <1>8, <1>9, <2>5, <2>6, <3>1, <3>2, <3>3
  <2> QED
    BY <2>7, <2>8
<1> QED
  BY <1>10, <1>11

\* A trigger is admitted, recorded, its outcome recorded, and it is released.
LEMMA TriggerStep ==
  ASSUME RuntimeInv, NEW m \in Triggers,
         \/ Runtime!Admit(m) \/ Runtime!RecordRequest(m) \/ Runtime!RecordOutcome(m)
         \/ Runtime!ReleaseManual(m)
  PROVE  RuntimeInv'
<1>0. m \in Runtime!Tasks /\ m \notin Runtime!Emissions /\ "shutdown" \in Runtime!Tasks /\ m # "shutdown"
      /\ task[m] # "hook" /\ requested \subseteq Triggers /\ Triggers \subseteq Runtime!Tasks
  BY RuntimeConstants DEF Runtime!Tasks, Runtime!Emissions, Runtime!Passes, Runtime!Admit,
     Runtime!RecordRequest, Runtime!RecordOutcome, Runtime!ReleaseManual, RuntimeInv, RuntimeTypes
<1>1. UNCHANGED <<at, queue, dropped, running, state, manualClosing, closer, closed, snapshotDir,
                  unloaded, shutdownBy, closing>>
  BY DEF Runtime!Admit, Runtime!RecordRequest, Runtime!RecordOutcome, Runtime!ReleaseManual,
     Runtime!runtime, Runtime!status, Runtime!manual, Runtime!ending, Runtime!office
<1>2. PICK stage \in {"admitted", "lock", "release", "over"} : task' = [task EXCEPT ![m] = stage]
  BY DEF Runtime!Admit, Runtime!RecordRequest, Runtime!RecordOutcome, Runtime!ReleaseManual
<1>3. /\ task' \in [Runtime!Tasks -> Runtime!Stages \cup {"admitted", "over"}]
      /\ at' \in [Runtime!Tasks -> Runtime!Plugins]
      /\ task'[m] = stage /\ \A u \in Runtime!Tasks \ {m} : task'[u] = task[u] /\ at'[u] = at[u]
      /\ \A u \in Runtime!Tasks \ Runtime!Emissions : at'[u] = 1
      /\ Runtime!Readers' = Runtime!Readers /\ HooksCounted'
  <2>1. stage \in (Runtime!Stages \cup {"admitted", "over"}) \ {"hook"}
    BY DEF Runtime!Stages
  <2> QED
    BY <1>0, <1>1, <1>2, <2>1, NoHookMoves
<1>4. /\ manualActive' \subseteq {1} /\ requested' \subseteq Triggers /\ outcomes' \subseteq Triggers
  BY DEF Runtime!Admit, Runtime!RecordRequest, Runtime!RecordOutcome, Runtime!ReleaseManual,
     RuntimeInv, RuntimeTypes
<1>5. RuntimeTypes' /\ TasksInStep'
  BY <1>0, <1>1, <1>3, <1>4 DEF RuntimeInv, RuntimeTypes, TasksInStep
<1>6. TriggersInStep'
  <2>1. CASE Runtime!Admit(m)
    <3>1. m \in Runtime!Pending' /\ requested' = requested /\ outcomes' = outcomes
          /\ m \notin requested \ outcomes
      BY <1>2, <1>3, <2>1 DEF Runtime!Admit, Runtime!Pending, RuntimeInv, TriggersInStep
    <3> QED
      BY <1>0, <1>3, <3>1 DEF RuntimeInv, TriggersInStep
  <2>2. CASE Runtime!RecordRequest(m)
    <3>1. m \in Runtime!Pending' /\ outcomes' = outcomes /\ task[m] = "admitted"
          /\ (requested' = requested \/ (requested' = requested \cup {m} /\ task'[m] = "lock"))
      BY <1>0, <1>3, <2>2 DEF Runtime!RecordRequest, Runtime!Pending, RuntimeInv, RuntimeTypes
    <3>2. m \notin requested \ outcomes
      BY <3>1 DEF RuntimeInv, TriggersInStep
    <3> QED
      BY <1>0, <1>3, <3>1, <3>2 DEF RuntimeInv, TriggersInStep
  <2>3. CASE Runtime!RecordOutcome(m)
    <3>1. m \in Runtime!Pending' /\ outcomes' = outcomes \cup {m} /\ requested' = requested
      BY <1>0, <1>3, <2>3 DEF Runtime!RecordOutcome, Runtime!Pending, RuntimeInv, RuntimeTypes
    <3> QED
      BY <1>0, <1>3, <3>1 DEF RuntimeInv, TriggersInStep
  <2>4. CASE Runtime!ReleaseManual(m)
    <3>1. task[m] = "release" /\ manualActive' = {} /\ requested' = requested /\ outcomes' = outcomes
      BY <2>4 DEF Runtime!ReleaseManual, RuntimeInv, RuntimeTypes
    <3>2. m \notin requested \ outcomes
      BY <3>1 DEF RuntimeInv, TriggersInStep
    <3> QED
      BY <1>0, <1>3, <3>1, <3>2 DEF RuntimeInv, TriggersInStep
  <2> QED
    BY <2>1, <2>2, <2>3, <2>4
<1>7. \A c \in Runtime!Closers : closer[c] \in {"pending", "unload", "done"} => Runtime!Pending' = {}
  <2> SUFFICES ASSUME NEW c \in Runtime!Closers, closer[c] \in {"pending", "unload", "done"}
               PROVE  FALSE
    OBVIOUS
  <2>1. m \notin Runtime!Pending /\ manualClosing
    BY DEF RuntimeInv, ClosersInStep
  <2> QED
    BY <2>1 DEF Runtime!Pending, Runtime!Admit, Runtime!RecordRequest, Runtime!RecordOutcome,
       Runtime!ReleaseManual
<1>8. ClosersInStep'
  BY <1>1, <1>3, <1>7 DEF RuntimeInv, ClosersInStep
<1> QED
  BY <1>3, <1>5, <1>6, <1>8 DEF RuntimeInv

\* The manager is closed, by Run or by the office.
LEMMA ClosesStep ==
  ASSUME RuntimeInv, NEW c \in Runtime!Closers,
         \/ Runtime!CloseBegins(c) \/ Runtime!WaitForTriggers(c) \/ Runtime!LockForUnload(c)
         \/ Runtime!Unload(c)
  PROVE  RuntimeInv'
<1>0. /\ closer \in [Runtime!Closers -> {"idle", "cancelled", "pending", "unload", "done"}]
      /\ unloaded \in Seq(Runtime!Plugins) /\ Len(unloaded) \in Nat /\ Len(unloaded) <= PluginCount
      /\ manualClosing \in BOOLEAN /\ closed \in BOOLEAN /\ snapshotDir \in BOOLEAN
      /\ \A i \in 1..Len(unloaded) : unloaded[i] = PluginCount + 1 - i
      /\ ClosersInStep /\ "run" \in Runtime!Closers
  BY LenProperties DEF RuntimeInv, RuntimeTypes, ClosersInStep, Runtime!Closers
<1>1. UNCHANGED <<task, at, queue, dropped, running, state, manualActive, requested, outcomes,
                  shutdownBy, closing>>
  BY DEF Runtime!CloseBegins, Runtime!WaitForTriggers, Runtime!LockForUnload, Runtime!Unload,
     Runtime!runtime, Runtime!status, Runtime!manual, Runtime!office
<1>2. /\ HooksCounted' /\ Runtime!Readers' = Runtime!Readers /\ Runtime!Pending' = Runtime!Pending
      /\ \A t \in Runtime!Tasks \ Runtime!Emissions : at'[t] = 1
  BY <1>1, TasksStay
<1>3. TasksInStep' /\ TriggersInStep'
  BY <1>1, <1>2 DEF RuntimeInv, TasksInStep, TriggersInStep
<1>4. ASSUME manualClosing' \in BOOLEAN, closed' \in BOOLEAN, snapshotDir' \in BOOLEAN,
             closer' \in [Runtime!Closers -> {"idle", "cancelled", "pending", "unload", "done"}],
             unloaded' \in Seq(Runtime!Plugins), ClosersInStep'
      PROVE  RuntimeInv'
  <2>1. RuntimeTypes'
    BY <1>1, <1>4 DEF RuntimeInv, RuntimeTypes
  <2> QED
    BY <1>2, <1>3, <1>4, <2>1 DEF RuntimeInv
<1>5. ASSUME NEW step \in {"cancelled", "pending", "unload", "done"},
             closer' = [closer EXCEPT ![c] = step]
      PROVE  /\ closer' \in [Runtime!Closers -> {"idle", "cancelled", "pending", "unload", "done"}]
             /\ closer'[c] = step /\ \A d \in Runtime!Closers \ {c} : closer'[d] = closer[d]
  BY <1>0, <1>5
<1>6. CASE Runtime!CloseBegins(c)
  <2>1. /\ closer' = [closer EXCEPT ![c] = "cancelled"] /\ closer[c] = "idle" /\ manualClosing' = TRUE
        /\ UNCHANGED <<closed, snapshotDir, unloaded>>
    BY <1>6 DEF Runtime!CloseBegins
  <2>2. ClosersInStep'
    BY <1>0, <1>1, <1>2, <1>5, <2>1 DEF ClosersInStep
  <2> QED
    BY <1>0, <1>4, <1>5, <2>1, <2>2
<1>7. CASE Runtime!WaitForTriggers(c)
  <2>1. /\ closer' = [closer EXCEPT ![c] = "pending"] /\ closer[c] = "cancelled" /\ Runtime!Pending = {}
        /\ UNCHANGED <<manualClosing, closed, snapshotDir, unloaded>>
    BY <1>7 DEF Runtime!WaitForTriggers, Runtime!manual
  <2>2. ClosersInStep'
    BY <1>0, <1>1, <1>2, <1>5, <2>1 DEF ClosersInStep
  <2> QED
    BY <1>0, <1>4, <1>5, <2>1, <2>2
<1>8. CASE Runtime!LockForUnload(c)
  <2>1. PICK step \in {"unload", "done"} : step = IF closed THEN "done" ELSE "unload"
    OBVIOUS
  <2>2. /\ closer' = [closer EXCEPT ![c] = step] /\ closer[c] = "pending" /\ Runtime!MayWrite(c)
        /\ UNCHANGED <<manualClosing, closed, snapshotDir, unloaded>>
    BY <1>8, <2>1 DEF Runtime!LockForUnload, Runtime!manual
  <2>3. Runtime!Readers = {} /\ \A d \in Runtime!Closers \ {c} : closer[d] # "unload"
    BY <2>2 DEF Runtime!MayWrite
  <2>4. ClosersInStep'
    BY <1>0, <1>1, <1>2, <1>5, <2>1, <2>2, <2>3 DEF ClosersInStep
  <2> QED
    BY <1>0, <1>4, <1>5, <2>1, <2>2, <2>4
<1>9. CASE Runtime!Unload(c)
  <2>0. closer[c] = "unload" /\ ~closed /\ manualClosing' = manualClosing
    BY <1>0, <1>9 DEF Runtime!Unload, ClosersInStep, Runtime!manual
  <2>1. CASE Len(unloaded) < PluginCount
    <3> DEFINE n == Len(unloaded)
               p == PluginCount - n
    <3>1. unloaded' = Append(unloaded, p) /\ UNCHANGED <<closer, closed, snapshotDir>>
      BY <1>9, <2>1 DEF Runtime!Unload
    <3>2. p \in Runtime!Plugins /\ n \in Nat
      BY <1>0, <2>1, RuntimeConstants DEF Runtime!Plugins
    <3> HIDE DEF p
    <3>3. /\ Append(unloaded, p) \in Seq(Runtime!Plugins) /\ Len(Append(unloaded, p)) = n + 1
          /\ \A i \in 1..n : Append(unloaded, p)[i] = unloaded[i]
          /\ Append(unloaded, p)[n + 1] = p
      BY <1>0, <3>2, AppendProperties
    <3>4. \A i \in 1..n + 1 : Append(unloaded, p)[i] = PluginCount + 1 - i
      <4> SUFFICES ASSUME NEW i \in 1..n + 1 PROVE Append(unloaded, p)[i] = PluginCount + 1 - i
        OBVIOUS
      <4>1. CASE i = n + 1
        <5>1. p = PluginCount + 1 - i
          BY <1>0, <4>1, RuntimeConstants DEF p
        <5> QED
          BY <3>3, <4>1, <5>1
      <4>2. CASE i # n + 1
        <5>1. i \in 1..n
          BY <3>2, <4>2
        <5> QED
          BY <1>0, <3>3, <5>1
      <4> QED
        BY <4>1, <4>2
    <3>5. n + 1 <= PluginCount
      BY <1>0, <2>1, RuntimeConstants
    <3>6. unloaded' \in Seq(Runtime!Plugins) /\ Len(unloaded') <= PluginCount
          /\ \A i \in 1..Len(unloaded') : unloaded'[i] = PluginCount + 1 - i
      BY <3>1, <3>3, <3>4, <3>5
    <3>7. ClosersInStep'
      <4>1. \A d \in Runtime!Closers : closer'[d] = closer[d]
        BY <3>1
      <4> HIDE DEF n
      <4> QED
        BY <1>0, <1>1, <1>2, <2>0, <3>1, <3>6, <4>1 DEF ClosersInStep
    <3> QED
      BY <1>0, <1>4, <2>0, <3>1, <3>6, <3>7
  <2>2. CASE ~(Len(unloaded) < PluginCount)
    <3>1. /\ closed' = TRUE /\ snapshotDir' = FALSE /\ closer' = [closer EXCEPT ![c] = "done"]
          /\ unloaded' = unloaded
      BY <1>9, <2>2 DEF Runtime!Unload
    <3>2. Len(unloaded) = PluginCount
      BY <1>0, <2>2, RuntimeConstants
    <3>3. \A d \in Runtime!Closers \ {c} : closer[d] # "unload"
      BY <1>0, <2>0 DEF ClosersInStep
    <3>4. Runtime!Readers = {} /\ Runtime!Pending = {}
      BY <1>0, <2>0 DEF ClosersInStep
    <3>5. ClosersInStep'
      BY <1>0, <1>1, <1>2, <1>5, <2>0, <3>1, <3>2, <3>3, <3>4 DEF ClosersInStep
    <3> QED
      BY <1>0, <1>4, <1>5, <2>0, <3>1, <3>5
  <2> QED
    BY <2>1, <2>2
<1> QED
  BY <1>6, <1>7, <1>8, <1>9

\* The office stops.
LEMMA OfficeEnds ==
  ASSUME RuntimeInv, Runtime!OfficeStops
  PROVE  RuntimeInv'
<1>0. /\ queue \in Seq({"event"}) /\ Len(queue) <= AsyncLimit /\ dropped \in Nat
      /\ shutdownBy \in {"none", "safe", "office"}
      /\ closing \in {"no", "emitting", "emitted", "cancelled", "joining", "closed"}
  BY DEF RuntimeInv, RuntimeTypes
<1>1. UNCHANGED <<queue, dropped, running, state, manualActive, manualClosing, requested, outcomes, closer,
                  closed, snapshotDir, unloaded>>
  BY DEF Runtime!OfficeStops, Runtime!SafeShutdown, Runtime!OfficeCloses, Runtime!OfficeStep,
     Runtime!runtime, Runtime!status, Runtime!manual, Runtime!ending
<1>2. ASSUME NEW by \in {"safe", "office"}, Runtime!EmitShutdown(by), shutdownBy = "none",
             closing' \in {closing, "emitting"}
      PROVE  RuntimeInv'
  <2>1. /\ shutdownBy' = by /\ task' = [task EXCEPT !["shutdown"] = "lock"]
        /\ at' = [at EXCEPT !["shutdown"] = 1]
    BY <1>2 DEF Runtime!EmitShutdown
  <2>2. task["shutdown"] = "idle" /\ "shutdown" \in Runtime!Emissions
    BY <1>2 DEF RuntimeInv, TasksInStep, Runtime!Emissions, Runtime!Passes
  <2> QED
    BY <1>0, <1>1, <1>2, <2>1, <2>2, EmissionBegins
<1>3. ASSUME UNCHANGED <<task, at, shutdownBy>>,
             closing' \in {"no", "emitting", "emitted", "cancelled", "joining", "closed"},
             closing' = "closed" => closer["run"] = "done"
      PROVE  RuntimeInv'
  <2>1. RuntimeTypes' /\ TasksInStep' /\ HooksCounted'
    BY <1>0, <1>1, <1>3, TasksStay DEF RuntimeInv, RuntimeTypes, TasksInStep
  <2>2. TriggersInStep' /\ ClosersInStep'
    BY <1>1, <1>3, TasksStay DEF RuntimeInv, TriggersInStep, ClosersInStep
  <2> QED
    BY <2>1, <2>2 DEF RuntimeInv
<1>4. CASE Runtime!SafeShutdown
  BY <1>2, <1>4 DEF Runtime!SafeShutdown
<1>5. CASE Runtime!OfficeCloses
  <2>1. CASE shutdownBy = "none"
    BY <1>2, <1>5, <2>1 DEF Runtime!OfficeCloses
  <2>2. CASE shutdownBy # "none"
    BY <1>3, <1>5, <2>2 DEF Runtime!OfficeCloses
  <2> QED
    BY <2>1, <2>2
<1>6. CASE Runtime!OfficeStep
  BY <1>3, <1>6 DEF Runtime!OfficeStep
<1> QED
  BY <1>4, <1>5, <1>6 DEF Runtime!OfficeStops

LEMMA RuntimeStep ==
  ASSUME RuntimeInv, Runtime!Next
  PROVE  RuntimeInv'
<1>1. ASSUME NEW t \in Runtime!Tasks, Runtime!HookReturns(t) \/ Runtime!HookTimesOut(t)
      PROVE  RuntimeInv'
  BY <1>1, HookStep DEF Runtime!HookReturns, Runtime!HookTimesOut
<1> QED
  BY <1>1, EmissionStep, LockStep, TriggerStep, ClosesStep, OfficeEnds
  DEF Runtime!Next, Runtime!LockStep, Runtime!HookStep, Runtime!TriggerStep, Runtime!CloseStep

\* RuntimeInv holds in every state.
LEMMA RuntimeCorrect == Spec => []RuntimeInv
<1>1. Init => RuntimeInv
  <2> SUFFICES ASSUME Init PROVE RuntimeInv
    OBVIOUS
  <2>1. Runtime!Init
    BY DEF Init
  <2>2. 1 \in Runtime!Plugins /\ "shutdown" \in Runtime!Tasks /\ "run" \in Runtime!Closers
    BY RuntimeConstants DEF Runtime!Plugins, Runtime!Tasks, Runtime!Emissions, Runtime!Passes,
       Runtime!Closers
  <2>3. queue = <<>> /\ unloaded = <<>> /\ Len(queue) = 0 /\ Len(unloaded) = 0
    BY <2>1 DEF Runtime!Init
  <2>4. RuntimeTypes
    <3>1. <<>> \in Seq({"event"}) /\ <<>> \in Seq(Runtime!Plugins)
      OBVIOUS
    <3>2. Len(queue) <= AsyncLimit
      BY <2>3, RuntimeConstants
    <3> QED
      BY <2>1, <2>2, <2>3, <3>1, <3>2 DEF Runtime!Init, RuntimeTypes, Runtime!Stages
  <2>5. Runtime!Readers = {} /\ Runtime!Pending = {}
    BY <2>1 DEF Runtime!Init, Runtime!Readers, Runtime!Pending, Runtime!Tasks
  <2>6. HooksCounted
    <3>1. \A p : HooksOf(p) = {}
      BY <2>5 DEF HooksOf
    <3> QED
      BY <2>1, <3>1, FS_EmptySet DEF Runtime!Init, HooksCounted
  <2>7. TasksInStep /\ TriggersInStep
    BY <2>1, <2>2, <2>5 DEF Runtime!Init, TasksInStep, TriggersInStep
  <2>8. ClosersInStep
    BY <2>1, <2>2, <2>3, <2>5, RuntimeConstants DEF Runtime!Init, ClosersInStep
  <2> QED
    BY <2>4, <2>6, <2>7, <2>8 DEF RuntimeInv
<1>2. ASSUME RuntimeInv, UNCHANGED runtimeVars PROVE RuntimeInv'
  <2>1. UNCHANGED <<task, at, queue, dropped, running, state, manualActive, manualClosing, requested,
                    outcomes, closer, closed, snapshotDir, unloaded, shutdownBy, closing>>
    BY <1>2 DEF runtimeVars
  <2> QED
    BY <1>2, <2>1, TasksStay DEF RuntimeInv, RuntimeTypes, TasksInStep, TriggersInStep, ClosersInStep
<1>3. RuntimeInv /\ [Next]_vars => RuntimeInv'
  BY <1>2, RuntimeMoves, RuntimeStep
<1> QED
  BY <1>1, <1>3, PTL DEF Spec

LEMMA RuntimeTypesHold == Spec => []Runtime!TypeOK
<1>1. RuntimeInv => Runtime!TypeOK
  <2> SUFFICES ASSUME RuntimeInv PROVE Runtime!TypeOK
    OBVIOUS
  <2>1. \A p \in Runtime!Plugins : running[p] \in 0..Runtime!Cardinality(Runtime!Tasks)
    BY HooksFinite, SameTasks DEF RuntimeInv, HooksCounted
  <2>2. running \in [Runtime!Plugins -> 0..Runtime!Cardinality(Runtime!Tasks)]
    BY <2>1 DEF RuntimeInv, RuntimeTypes
  <2>3. manualActive \subseteq Runtime!Plugins
    BY RuntimeConstants DEF RuntimeInv, RuntimeTypes, Runtime!Plugins
  <2> QED
    BY <2>2, <2>3 DEF RuntimeInv, RuntimeTypes, Runtime!TypeOK
<1> QED
  BY <1>1, RuntimeCorrect, PTL

\* However hooks, triggers and the two closes overlap: plugins are unloaded last, once
\* and in reverse order, with no hook running and every recorded trigger's outcome
\* recorded; a plugin none of whose hooks runs is not listed as running (plugins.go,
\* manual.go).
THEOREM PluginsEndInOrder == Spec => [](part = "runtime" => Runtime!PluginsUnloadLast)
<1>1. RuntimeInv => Runtime!PluginsUnloadLast
  <2> SUFFICES ASSUME RuntimeInv PROVE Runtime!PluginsUnloadLast
    OBVIOUS
  <2>1. Runtime!Pending = {} => requested \subseteq outcomes /\ manualActive = {}
    BY DEF RuntimeInv, RuntimeTypes, TriggersInStep, Runtime!Pending
  <2>2. (closed \/ unloaded # <<>>) => Runtime!Readers = {} /\ Runtime!Pending = {}
    BY DEF RuntimeInv, ClosersInStep
  <2>3. closing = "closed" => closed
    BY DEF RuntimeInv, ClosersInStep, Runtime!Closers
  <2>4. \A p \in Runtime!Plugins :
          /\ running[p] = Runtime!Cardinality({t \in Runtime!Readers : Runtime!Plugin(t, at[t]) = p})
          /\ state[p] = "running" => running[p] > 0
    BY SameTasks DEF RuntimeInv, HooksCounted, HooksOf
  <2>5. /\ \A i \in 1..Len(unloaded) : unloaded[i] = PluginCount + 1 - i
        /\ ~snapshotDir => closed /\ Len(unloaded) = PluginCount
    BY DEF RuntimeInv, ClosersInStep
  <2> QED
    BY <2>1, <2>2, <2>3, <2>4, <2>5 DEF Runtime!PluginsUnloadLast
<1> QED
  BY <1>1, RuntimeCorrect, PTL

-----------------------------------------------------------------------------
(* The files of a plugin for the browser.                                   *)

LEMMA WebMoves ==
  [Next]_vars => (part' = part /\ (part = "web" => [Web!Next]_webVars))
  BY DEF Next, vars, Do, Others

LEMMA TailIs ==
  ASSUME NEW S, NEW s \in Seq(S), s # <<>>
  PROVE  /\ Len(s) \in Nat \ {0} /\ Head(s) = s[1] /\ Head(s) \in S
         /\ Tail(s) \in Seq(S) /\ Len(Tail(s)) = Len(s) - 1
         /\ \A i \in 1..Len(s) - 1 : Tail(s)[i] = s[i + 1]
  OBVIOUS

\* f says how much of the path the first parts of the pattern take.
Takes(f, pattern, path) ==
  /\ f \in [0..Len(pattern) -> 0..Len(path)]
  /\ f[0] = 0 /\ f[Len(pattern)] = Len(path)
  /\ \A i \in 1..Len(pattern) :
       IF pattern[i] = "**" THEN f[i - 1] <= f[i]
       ELSE f[i] = f[i - 1] + 1 /\ pattern[i] \in {"*", path[f[i]]}

LEMMA StandsIs ==
  ASSUME NEW pattern, NEW path
  PROVE  Web!Stands(pattern, path) <=> \E f : Takes(f, pattern, path)
<1>1. Web!Stands(pattern, path) <=>
        \E f \in [0..Len(pattern) -> 0..Len(path)] : Takes(f, pattern, path)
  BY Zenon DEF Web!Stands, Takes
<1> QED
  BY <1>1 DEF Takes

\* Once some of the path is taken, it stays taken.
LEMMA TakenStays ==
  ASSUME NEW pattern \in Seq(Web!Parts), NEW path \in Seq(WebNames), NEW f, Takes(f, pattern, path),
         pattern # <<>>, f[1] # 0
  PROVE  \A i \in 1..Len(pattern) : f[i] # 0
<1> DEFINE Zeros == {i \in Nat : i \in 1..Len(pattern) /\ f[i] = 0}
<1> SUFFICES ASSUME Zeros # {} PROVE FALSE
  OBVIOUS
<1>1. PICK i \in Zeros : \A j \in Zeros : ~(<<j, i>> \in OpToRel(<, Nat))
  BY NatLessThanWellFounded, WFMin
<1>2. \A j \in Zeros : ~(j < i)
  BY <1>1 DEF OpToRel
<1>3. i \in 1..Len(pattern) /\ f[i] = 0 /\ i # 1 /\ i \in Nat
  OBVIOUS
<1>4. i - 1 \in 1..Len(pattern) /\ i - 1 \in Nat /\ i - 1 < i
  BY <1>3
<1>5. f[i - 1] # 0
  BY <1>2, <1>4
<1>6. f[i] # 0
  <2>1. f[i - 1] \in 0..Len(path) /\ Len(path) \in Nat
    <3>1. i - 1 \in 0..Len(pattern) /\ Len(path) \in Nat
      BY <1>3, <1>4
    <3> QED
      BY <3>1 DEF Takes
  <2>2. f[i - 1] <= f[i] \/ f[i] = f[i - 1] + 1
    BY <1>3 DEF Takes
  <2> QED
    BY <1>3, <1>5, <2>1, <2>2
<1> QED
  BY <1>3, <1>6

LEMMA StandsForNothing ==
  ASSUME NEW path \in Seq(WebNames)
  PROVE  Web!Stands(<<>>, path) <=> path = <<>>
<1>1. ASSUME NEW f, Takes(f, <<>>, path) PROVE path = <<>>
  BY <1>1 DEF Takes
<1>2. Takes([i \in 0..0 |-> 0], <<>>, <<>>)
  BY DEF Takes
<1> QED
  BY <1>1, <1>2, StandsIs

\* A part takes nothing, and what follows takes the whole path.
LEMMA TakesNothing ==
  ASSUME NEW pattern \in Seq(Web!Parts), NEW path \in Seq(WebNames), pattern # <<>>, Head(pattern) = "**"
  PROVE  /\ \A f : Takes(f, pattern, path) /\ f[1] = 0 =>
                     Takes([i \in 0..Len(pattern) - 1 |-> f[i + 1]], Tail(pattern), path)
         /\ \A f : Takes(f, Tail(pattern), path) =>
                     Takes([i \in 0..Len(pattern) |-> IF i = 0 THEN 0 ELSE f[i - 1]], pattern, path)
<1>0. /\ Len(pattern) \in Nat \ {0} /\ pattern[1] = "**" /\ Len(Tail(pattern)) = Len(pattern) - 1
      /\ \A i \in 1..Len(pattern) - 1 : Tail(pattern)[i] = pattern[i + 1]
  BY TailIs
<1>1. Len(path) \in Nat
  OBVIOUS
<1>2. ASSUME NEW f, Takes(f, pattern, path), f[1] = 0
      PROVE  Takes([i \in 0..Len(pattern) - 1 |-> f[i + 1]], Tail(pattern), path)
  <2>1. PICK n, p : n \in Nat \ {0} /\ n = Len(pattern) /\ p = Tail(pattern) /\ Len(p) = n - 1
    BY <1>0
  <2>2. PICK g : g = [i \in 0..n - 1 |-> f[i + 1]]
    OBVIOUS
  <2>3. g \in [0..n - 1 -> 0..Len(path)] /\ g[0] = 0 /\ g[n - 1] = Len(path)
    BY <1>0, <1>1, <1>2, <2>1, <2>2 DEF Takes
  <2>4. ASSUME NEW i \in 1..n - 1
        PROVE  IF p[i] = "**" THEN g[i - 1] <= g[i]
               ELSE g[i] = g[i - 1] + 1 /\ p[i] \in {"*", path[g[i]]}
    <3>1. i + 1 \in 1..n /\ p[i] = pattern[i + 1] /\ g[i] = f[i + 1] /\ g[i - 1] = f[(i + 1) - 1]
      BY <1>0, <2>1, <2>2
    <3> QED
      BY <1>2, <2>1, <3>1 DEF Takes
  <2> QED
    BY <2>1, <2>2, <2>3, <2>4 DEF Takes
<1>3. ASSUME NEW f, Takes(f, Tail(pattern), path)
      PROVE  Takes([i \in 0..Len(pattern) |-> IF i = 0 THEN 0 ELSE f[i - 1]], pattern, path)
  <2>1. PICK n, p : n \in Nat \ {0} /\ n = Len(pattern) /\ p = Tail(pattern) /\ Len(p) = n - 1
    BY <1>0
  <2>2. PICK g : g = [i \in 0..n |-> IF i = 0 THEN 0 ELSE f[i - 1]]
    OBVIOUS
  <2>3. g \in [0..n -> 0..Len(path)] /\ g[0] = 0 /\ g[n] = Len(path)
    BY <1>0, <1>1, <1>3, <2>1, <2>2 DEF Takes
  <2>4. ASSUME NEW i \in 1..n
        PROVE  IF pattern[i] = "**" THEN g[i - 1] <= g[i]
               ELSE g[i] = g[i - 1] + 1 /\ pattern[i] \in {"*", path[g[i]]}
    <3>1. CASE i = 1
      BY <1>0, <1>3, <2>1, <2>2, <3>1 DEF Takes
    <3>2. CASE i # 1
      <4>1. /\ i - 1 \in 1..n - 1 /\ pattern[i] = p[i - 1] /\ g[i] = f[i - 1]
            /\ g[i - 1] = f[(i - 1) - 1]
        BY <1>0, <2>1, <2>2, <3>2
      <4> QED
        BY <1>3, <2>1, <4>1 DEF Takes
    <3> QED
      BY <3>1, <3>2
  <2>5. Takes(g, pattern, path)
    BY <2>1, <2>3, <2>4 DEF Takes
  <2> QED
    BY <2>1, <2>2, <2>5
<1> QED
  BY <1>2, <1>3

\* A part takes the first name, and perhaps some more.
LEMMA TakesFirst ==
  ASSUME NEW pattern \in Seq(Web!Parts), NEW path \in Seq(WebNames), pattern # <<>>, path # <<>>
  PROVE  /\ \A f : Takes(f, pattern, path) /\ f[1] # 0 /\ pattern[1] = "**" =>
                     Takes([i \in 0..Len(pattern) |-> IF i = 0 THEN 0 ELSE f[i] - 1], pattern, Tail(path))
         /\ \A f : Takes(f, pattern, Tail(path)) /\ pattern[1] = "**" =>
                     Takes([i \in 0..Len(pattern) |-> IF i = 0 THEN 0 ELSE f[i] + 1], pattern, path)
         /\ \A f : Takes(f, pattern, path) /\ pattern[1] # "**" =>
                     Takes([i \in 0..Len(pattern) - 1 |-> f[i + 1] - 1], Tail(pattern), Tail(path))
         /\ \A f : (Takes(f, Tail(pattern), Tail(path)) /\ pattern[1] # "**" /\ Web!Fits(pattern[1], path[1])) =>
                     Takes([i \in 0..Len(pattern) |-> IF i = 0 THEN 0 ELSE f[i - 1] + 1], pattern, path)
<1>a. PICK n \in Nat \ {0} : n = Len(pattern)
  BY TailIs
<1>b. PICK m \in Nat \ {0} : m = Len(path)
  BY TailIs
<1>c. PICK p, q : p = Tail(pattern) /\ q = Tail(path)
  OBVIOUS
<1>0. /\ n \in Nat \ {0} /\ n = Len(pattern) /\ p = Tail(pattern) /\ Len(p) = n - 1
      /\ m \in Nat \ {0} /\ m = Len(path) /\ q = Tail(path) /\ Len(q) = m - 1
      /\ \A i \in 1..n - 1 : p[i] = pattern[i + 1]
      /\ \A i \in 1..m - 1 : q[i] = path[i + 1]
  BY <1>a, <1>b, <1>c, TailIs
<1>1. ASSUME NEW f, Takes(f, pattern, path), f[1] # 0, pattern[1] = "**"
      PROVE  Takes([i \in 0..n |-> IF i = 0 THEN 0 ELSE f[i] - 1], pattern, q)
  <2>1. \A i \in 1..n : f[i] \in 1..m
    <3>1. \A i \in 1..n : f[i] # 0
      BY <1>0, <1>1, TakenStays
    <3>2. f \in [0..n -> 0..m]
      BY <1>0, <1>1 DEF Takes
    <3> QED
      BY <3>1, <3>2
  <2>2. PICK g : g = [i \in 0..n |-> IF i = 0 THEN 0 ELSE f[i] - 1]
    OBVIOUS
  <2>3. g \in [0..n -> 0..m - 1] /\ g[0] = 0 /\ g[n] = m - 1
    BY <1>0, <1>1, <2>1, <2>2 DEF Takes
  <2>4. ASSUME NEW i \in 1..n
        PROVE  IF pattern[i] = "**" THEN g[i - 1] <= g[i]
               ELSE g[i] = g[i - 1] + 1 /\ pattern[i] \in {"*", q[g[i]]}
    <3>1. CASE i = 1
      BY <1>1, <2>1, <2>2, <3>1
    <3>2. CASE i # 1
      <4>1. /\ f[i] \in 1..m /\ f[i - 1] \in 1..m /\ g[i] = f[i] - 1 /\ g[i - 1] = f[i - 1] - 1
        BY <2>1, <2>2, <3>2
      <4>2. CASE pattern[i] = "**"
        BY <1>0, <1>1, <4>1, <4>2 DEF Takes
      <4>3. CASE pattern[i] # "**"
        <5>1. f[i] = f[i - 1] + 1 /\ pattern[i] \in {"*", path[f[i]]}
          BY <1>0, <1>1, <4>3 DEF Takes
        <5>2. g[i] \in 1..m - 1 /\ g[i] + 1 = f[i]
          BY <4>1, <5>1
        <5>3. q[g[i]] = path[f[i]]
          BY <1>0, <5>2
        <5> QED
          BY <4>1, <4>3, <5>1, <5>3
      <4> QED
        BY <4>2, <4>3
    <3> QED
      BY <3>1, <3>2
  <2>5. Takes(g, pattern, q)
    BY <1>0, <2>3, <2>4 DEF Takes
  <2> QED
    BY <2>2, <2>5
<1>2. ASSUME NEW f, Takes(f, pattern, q), pattern[1] = "**"
      PROVE  Takes([i \in 0..n |-> IF i = 0 THEN 0 ELSE f[i] + 1], pattern, path)
  <2>1. f \in [0..n -> 0..m - 1] /\ f[0] = 0 /\ f[n] = m - 1
    BY <1>0, <1>2 DEF Takes
  <2>2. PICK g : g = [i \in 0..n |-> IF i = 0 THEN 0 ELSE f[i] + 1]
    OBVIOUS
  <2>3. g \in [0..n -> 0..m] /\ g[0] = 0 /\ g[n] = m
    BY <2>1, <2>2
  <2>4. ASSUME NEW i \in 1..n
        PROVE  IF pattern[i] = "**" THEN g[i - 1] <= g[i]
               ELSE g[i] = g[i - 1] + 1 /\ pattern[i] \in {"*", path[g[i]]}
    <3>1. CASE i = 1
      BY <1>2, <2>1, <2>2, <3>1
    <3>2. CASE i # 1
      <4>1. /\ f[i] \in 0..m - 1 /\ f[i - 1] \in 0..m - 1 /\ g[i] = f[i] + 1
            /\ g[i - 1] = f[i - 1] + 1
        BY <2>1, <2>2, <3>2
      <4>2. CASE pattern[i] = "**"
        BY <1>0, <1>2, <4>1, <4>2 DEF Takes
      <4>3. CASE pattern[i] # "**"
        <5>1. f[i] = f[i - 1] + 1 /\ pattern[i] \in {"*", q[f[i]]}
          BY <1>0, <1>2, <4>3 DEF Takes
        <5>2. f[i] \in 1..m - 1
          BY <4>1, <5>1
        <5>3. path[g[i]] = q[f[i]]
          BY <1>0, <4>1, <5>2
        <5> QED
          BY <4>1, <4>3, <5>1, <5>3
      <4> QED
        BY <4>2, <4>3
    <3> QED
      BY <3>1, <3>2
  <2>5. Takes(g, pattern, path)
    BY <1>0, <2>3, <2>4 DEF Takes
  <2> QED
    BY <2>2, <2>5
<1>3. ASSUME NEW f, Takes(f, pattern, path), pattern[1] # "**"
      PROVE  Takes([i \in 0..n - 1 |-> f[i + 1] - 1], p, q)
  <2>0. f[0] = 0 /\ f[1] = f[0] + 1
    BY <1>0, <1>3 DEF Takes
  <2>1. (\A i \in 1..n : f[i] \in 1..m) /\ f[n] = m
    <3>1. f[1] # 0
      BY <2>0
    <3>2. \A i \in 1..n : f[i] # 0
      BY <1>0, <1>3, <3>1, TakenStays
    <3>3. f \in [0..n -> 0..m] /\ f[n] = m
      BY <1>0, <1>3 DEF Takes
    <3> QED
      BY <3>2, <3>3
  <2>2. PICK g : g = [i \in 0..n - 1 |-> f[i + 1] - 1]
    OBVIOUS
  <2>3. g \in [0..n - 1 -> 0..m - 1] /\ g[0] = 0 /\ g[n - 1] = m - 1
    BY <2>0, <2>1, <2>2
  <2>4. ASSUME NEW i \in 1..n - 1
        PROVE  IF p[i] = "**" THEN g[i - 1] <= g[i]
               ELSE g[i] = g[i - 1] + 1 /\ p[i] \in {"*", q[g[i]]}
    <3>1. /\ i + 1 \in 1..n /\ (i + 1) - 1 = i /\ i \in 1..n /\ p[i] = pattern[i + 1]
          /\ g[i] = f[i + 1] - 1 /\ g[i - 1] = f[i] - 1 /\ f[i] \in 1..m /\ f[i + 1] \in 1..m
      BY <1>0, <2>1, <2>2
    <3>2. CASE p[i] = "**"
      <4>1. f[i] <= f[i + 1]
        BY <1>0, <1>3, <3>1, <3>2 DEF Takes
      <4> QED
        BY <3>1, <3>2, <4>1
    <3>3. CASE p[i] # "**"
      <4>1. f[i + 1] = f[i] + 1 /\ p[i] \in {"*", path[f[i + 1]]}
        BY <1>0, <1>3, <3>1, <3>3 DEF Takes
      <4>2. g[i] \in 1..m - 1 /\ g[i] + 1 = f[i + 1]
        BY <3>1, <4>1
      <4>3. q[g[i]] = path[f[i + 1]]
        BY <1>0, <4>2
      <4> QED
        BY <3>1, <3>3, <4>1, <4>3
    <3> QED
      BY <3>2, <3>3
  <2>5. Takes(g, p, q)
    BY <1>0, <2>3, <2>4 DEF Takes
  <2> QED
    BY <2>2, <2>5
<1>4. ASSUME NEW f, Takes(f, p, q), pattern[1] # "**", Web!Fits(pattern[1], path[1])
      PROVE  Takes([i \in 0..n |-> IF i = 0 THEN 0 ELSE f[i - 1] + 1], pattern, path)
  <2>1. f \in [0..n - 1 -> 0..m - 1] /\ f[0] = 0 /\ f[n - 1] = m - 1
    BY <1>0, <1>4 DEF Takes
  <2>2. PICK g : g = [i \in 0..n |-> IF i = 0 THEN 0 ELSE f[i - 1] + 1]
    OBVIOUS
  <2>3. g \in [0..n -> 0..m] /\ g[0] = 0 /\ g[n] = m
    BY <2>1, <2>2
  <2>4. ASSUME NEW i \in 1..n
        PROVE  IF pattern[i] = "**" THEN g[i - 1] <= g[i]
               ELSE g[i] = g[i - 1] + 1 /\ pattern[i] \in {"*", path[g[i]]}
    <3>1. CASE i = 1
      <4>1. g[1] = 1 /\ g[0] = 0
        BY <2>1, <2>2
      <4> QED
        BY <1>4, <3>1, <4>1 DEF Web!Fits
    <3>2. CASE i # 1
      <4>1. PICK j \in 1..n - 1 : i = j + 1 /\ i - 1 = j
        BY <3>2
      <4>2. /\ pattern[i] = p[j] /\ g[i] = f[j] + 1 /\ g[i - 1] = f[j - 1] + 1
            /\ f[j] \in 0..m - 1 /\ f[j - 1] \in 0..m - 1
        <5>1. j \in 0..n - 1 /\ j - 1 \in 0..n - 1 /\ j # 0 /\ i # 0 /\ j \in 0..n
          BY <4>1
        <5>2. g[i] = f[i - 1] + 1 /\ g[j] = f[j - 1] + 1
          BY <2>2, <5>1
        <5> QED
          BY <1>0, <2>1, <4>1, <5>1, <5>2
      <4>3. CASE p[j] = "**"
        <5>1. f[j - 1] <= f[j]
          BY <1>0, <1>4, <4>3 DEF Takes
        <5> QED
          BY <4>2, <4>3, <5>1
      <4>4. CASE p[j] # "**"
        <5>1. f[j] = f[j - 1] + 1 /\ p[j] \in {"*", q[f[j]]}
          BY <1>0, <1>4, <4>4 DEF Takes
        <5>2. f[j] \in 1..m - 1
          BY <4>2, <5>1
        <5>3. path[g[i]] = q[f[j]]
          BY <1>0, <4>2, <5>2
        <5> QED
          BY <4>2, <4>4, <5>1, <5>3
      <4> QED
        BY <4>3, <4>4
    <3> QED
      BY <3>1, <3>2
  <2>5. Takes(g, pattern, path)
    BY <1>0, <2>3, <2>4 DEF Takes
  <2> QED
    BY <2>2, <2>5
<1>5. \A f : Takes(f, pattern, path) /\ f[1] # 0 /\ pattern[1] = "**" =>
              Takes([i \in 0..Len(pattern) |-> IF i = 0 THEN 0 ELSE f[i] - 1], pattern, Tail(path))
  BY <1>0, <1>1
<1>6. \A f : Takes(f, pattern, Tail(path)) /\ pattern[1] = "**" =>
              Takes([i \in 0..Len(pattern) |-> IF i = 0 THEN 0 ELSE f[i] + 1], pattern, path)
  BY <1>0, <1>2
<1>7. \A f : Takes(f, pattern, path) /\ pattern[1] # "**" =>
              Takes([i \in 0..Len(pattern) - 1 |-> f[i + 1] - 1], Tail(pattern), Tail(path))
  BY <1>0, <1>3
<1>8. \A f : (Takes(f, Tail(pattern), Tail(path)) /\ pattern[1] # "**" /\ Web!Fits(pattern[1], path[1])) =>
              Takes([i \in 0..Len(pattern) |-> IF i = 0 THEN 0 ELSE f[i - 1] + 1], pattern, path)
  BY <1>0, <1>4
<1> QED
  BY <1>5, <1>6, <1>7, <1>8

LEMMA StandsForMany ==
  ASSUME NEW pattern \in Seq(Web!Parts), NEW path \in Seq(WebNames), pattern # <<>>, Head(pattern) = "**"
  PROVE  Web!Stands(pattern, path) <=>
           Web!Stands(Tail(pattern), path) \/ (path # <<>> /\ Web!Stands(pattern, Tail(path)))
<1>0. pattern[1] = "**" /\ Len(pattern) \in Nat \ {0}
  BY TailIs
<1>1. ASSUME NEW f, Takes(f, pattern, path)
      PROVE  Web!Stands(Tail(pattern), path) \/ (path # <<>> /\ Web!Stands(pattern, Tail(path)))
  <2>1. CASE f[1] = 0
    BY <1>1, <2>1, TakesNothing, StandsIs
  <2>2. CASE f[1] # 0
    <3>1. path # <<>>
      BY <1>0, <1>1, <2>2 DEF Takes
    <3> QED
      BY <1>0, <1>1, <2>2, <3>1, TakesFirst, StandsIs
  <2> QED
    BY <2>1, <2>2
<1>2. ASSUME Web!Stands(Tail(pattern), path) PROVE Web!Stands(pattern, path)
  <2>1. PICK f : Takes(f, Tail(pattern), path)
    BY <1>2, StandsIs
  <2> QED
    BY <2>1, TakesNothing, StandsIs
<1>3. ASSUME path # <<>>, Web!Stands(pattern, Tail(path)) PROVE Web!Stands(pattern, path)
  <2>1. PICK f : Takes(f, pattern, Tail(path))
    BY <1>3, StandsIs
  <2> QED
    BY <1>0, <1>3, <2>1, TakesFirst, StandsIs
<1>4. Web!Stands(pattern, path) =>
        Web!Stands(Tail(pattern), path) \/ (path # <<>> /\ Web!Stands(pattern, Tail(path)))
  BY <1>1, StandsIs
<1> QED
  BY <1>2, <1>3, <1>4, StandsIs

LEMMA StandsForOne ==
  ASSUME NEW pattern \in Seq(Web!Parts), NEW path \in Seq(WebNames), pattern # <<>>, Head(pattern) # "**"
  PROVE  Web!Stands(pattern, path) <=>
           path # <<>> /\ Web!Fits(Head(pattern), Head(path)) /\ Web!Stands(Tail(pattern), Tail(path))
<1>0. pattern[1] = Head(pattern) /\ Len(pattern) \in Nat \ {0}
  BY TailIs
<1>1. ASSUME NEW f, Takes(f, pattern, path)
      PROVE  /\ path # <<>> /\ Web!Fits(Head(pattern), Head(path))
             /\ Web!Stands(Tail(pattern), Tail(path))
  <2>1. f[0] = 0 /\ f[1] = f[0] + 1 /\ f[1] \in 0..Len(path) /\ pattern[1] \in {"*", path[f[1]]}
    BY <1>0, <1>1 DEF Takes
  <2>2. path # <<>>
    BY <2>1
  <2>3. Web!Fits(Head(pattern), Head(path))
    BY <1>0, <2>1, <2>2, TailIs DEF Web!Fits
  <2> QED
    BY <1>0, <1>1, <2>2, <2>3, TakesFirst, StandsIs
<1>2. ASSUME path # <<>>, Web!Fits(Head(pattern), Head(path)), Web!Stands(Tail(pattern), Tail(path))
      PROVE  Web!Stands(pattern, path)
  <2>1. PICK f : Takes(f, Tail(pattern), Tail(path))
    BY <1>2, StandsIs
  <2>2. path[1] = Head(path)
    BY <1>2, TailIs
  <2> QED
    BY <1>0, <1>2, <2>1, <2>2, TakesFirst, StandsIs
<1> QED
  BY <1>1, <1>2, StandsIs

-----------------------------------------------------------------------------
(* The matchers.                                                            *)

MatchIs(W) ==
  W = [x \in Web!Pairs |->
        IF x[1] = <<>> THEN x[2] = <<>>
        ELSE IF Head(x[1]) = "**" THEN \/ W[<<Tail(x[1]), x[2]>>]
                                       \/ x[2] # <<>> /\ W[<<x[1], Tail(x[2])>>]
        ELSE /\ x[2] # <<>> /\ Web!Fits(Head(x[1]), Head(x[2]))
             /\ W[<<Tail(x[1]), Tail(x[2])>>]]

LEMMA MatchExists == \E W : MatchIs(W)
<1>1. PICK W : W = [x \in Web!Pairs |-> Web!Stands(x[1], x[2]) = TRUE]
  OBVIOUS
<1>2. ASSUME NEW x \in Web!Pairs
      PROVE  W[x] = IF x[1] = <<>> THEN x[2] = <<>>
                    ELSE IF Head(x[1]) = "**" THEN \/ W[<<Tail(x[1]), x[2]>>]
                                                   \/ x[2] # <<>> /\ W[<<x[1], Tail(x[2])>>]
                    ELSE /\ x[2] # <<>> /\ Web!Fits(Head(x[1]), Head(x[2]))
                         /\ W[<<Tail(x[1]), Tail(x[2])>>]
  <2>1. PICK pattern \in Seq(Web!Parts), path \in Seq(WebNames) : x = <<pattern, path>>
    BY DEF Web!Pairs
  <2>2. \A s \in Seq(Web!Parts), p \in Seq(WebNames) : W[<<s, p>>] = (Web!Stands(s, p) = TRUE)
    BY <1>1 DEF Web!Pairs
  <2>3. CASE pattern = <<>>
    BY <2>1, <2>2, <2>3, StandsForNothing
  <2>4. CASE pattern # <<>> /\ Head(pattern) = "**"
    <3>1. Tail(pattern) \in Seq(Web!Parts) /\ (path # <<>> => Tail(path) \in Seq(WebNames))
      BY <2>4, TailIs
    <3>2. /\ W[<<pattern, path>>] = (Web!Stands(pattern, path) = TRUE)
          /\ W[<<Tail(pattern), path>>] = (Web!Stands(Tail(pattern), path) = TRUE)
          /\ path # <<>> => W[<<pattern, Tail(path)>>] = (Web!Stands(pattern, Tail(path)) = TRUE)
      BY <2>2, <3>1
    <3>3. Web!Stands(pattern, path) <=>
            Web!Stands(Tail(pattern), path) \/ (path # <<>> /\ Web!Stands(pattern, Tail(path)))
      BY <2>4, StandsForMany
    <3> QED
      BY <2>1, <2>4, <3>2, <3>3
  <2>5. CASE pattern # <<>> /\ Head(pattern) # "**"
    BY <2>1, <2>2, <2>5, StandsForOne, TailIs
  <2> QED
    BY <2>3, <2>4, <2>5
<1>3. MatchIs(W)
  BY <1>1, <1>2 DEF MatchIs
<1> QED
  BY <1>3

LEMMA MatchEquation == MatchIs(Web!PatternMatch)
  BY MatchExists, Zenon DEF Web!PatternMatch, MatchIs

LEMMA MatchStep ==
  ASSUME NEW pattern \in Seq(Web!Parts), NEW path \in Seq(WebNames)
  PROVE  LET matches(s, p) == Web!PatternMatch[<<s, p>>]
         IN  /\ pattern = <<>> => matches(pattern, path) = (path = <<>>)
             /\ pattern # <<>> /\ Head(pattern) = "**" =>
                  matches(pattern, path) = (matches(Tail(pattern), path)
                                            \/ (path # <<>> /\ matches(pattern, Tail(path))))
             /\ pattern # <<>> /\ Head(pattern) # "**" =>
                  matches(pattern, path) = (path # <<>> /\ Web!Fits(Head(pattern), Head(path))
                                            /\ matches(Tail(pattern), Tail(path)))
<1>1. PICK W : W = Web!PatternMatch
  OBVIOUS
<1>2. PICK x : x = <<pattern, path>>
  OBVIOUS
<1>4. x \in Web!Pairs /\ x[1] = pattern /\ x[2] = path
  BY <1>2 DEF Web!Pairs
<1>3. W[x] = IF x[1] = <<>> THEN x[2] = <<>>
             ELSE IF Head(x[1]) = "**" THEN \/ W[<<Tail(x[1]), x[2]>>]
                                            \/ x[2] # <<>> /\ W[<<x[1], Tail(x[2])>>]
             ELSE /\ x[2] # <<>> /\ Web!Fits(Head(x[1]), Head(x[2]))
                  /\ W[<<Tail(x[1]), Tail(x[2])>>]
  BY <1>1, <1>4, MatchEquation DEF MatchIs
<1> QED
  BY <1>1, <1>2, <1>3, <1>4

\* companyPatternMatch decides what a pattern stands for.
LEMMA MatchIsRight ==
  ASSUME NEW pattern \in Seq(Web!Parts), NEW path \in Seq(WebNames)
  PROVE  Web!Match(pattern, path) <=> Web!Stands(pattern, path)
<1> DEFINE Wrong(n) == \E s \in Seq(Web!Parts), p \in Seq(WebNames) :
             Len(s) + Len(p) = n /\ ~(Web!PatternMatch[<<s, p>>] <=> Web!Stands(s, p))
           Sizes == {n \in Nat : Wrong(n)}
<1>1. SUFFICES ASSUME Sizes # {} PROVE FALSE
  <2>1. Len(pattern) + Len(path) \in Nat
    OBVIOUS
  <2> QED
    BY <2>1 DEF Web!Match
<1>2. PICK n \in Sizes : \A k \in Sizes : ~(<<k, n>> \in OpToRel(<, Nat))
  BY <1>1, NatLessThanWellFounded, WFMin
<1>3. \A k \in Nat : k < n => ~Wrong(k)
  BY <1>2 DEF OpToRel
<1>4. PICK s \in Seq(Web!Parts), p \in Seq(WebNames) :
        Len(s) + Len(p) = n /\ ~(Web!PatternMatch[<<s, p>>] <=> Web!Stands(s, p))
  BY <1>2
<1>5. ASSUME NEW t \in Seq(Web!Parts), NEW q \in Seq(WebNames), Len(t) + Len(q) < n
      PROVE  Web!PatternMatch[<<t, q>>] <=> Web!Stands(t, q)
  <2>1. Len(t) + Len(q) \in Nat
    OBVIOUS
  <2> QED
    BY <1>3, <1>5, <2>1
<1> HIDE DEF Wrong, Sizes
<1>6. CASE s = <<>>
  BY <1>4, <1>6, MatchStep, StandsForNothing
<1>7. CASE s # <<>>
  <2>1. Tail(s) \in Seq(Web!Parts) /\ Len(Tail(s)) = Len(s) - 1 /\ Len(s) \in Nat /\ Len(p) \in Nat
    BY <1>7, TailIs
  <2>2. p # <<>> => Tail(p) \in Seq(WebNames) /\ Len(Tail(p)) = Len(p) - 1
    BY TailIs
  <2>a. Len(Tail(s)) + Len(p) < n /\ (p # <<>> => /\ Len(s) + Len(Tail(p)) < n
                                                 /\ Len(Tail(s)) + Len(Tail(p)) < n)
    BY <1>4, <2>1, <2>2
  <2>3. Web!PatternMatch[<<Tail(s), p>>] <=> Web!Stands(Tail(s), p)
    BY <1>5, <2>1, <2>a
  <2>4. p # <<>> => /\ Web!PatternMatch[<<s, Tail(p)>>] <=> Web!Stands(s, Tail(p))
                    /\ Web!PatternMatch[<<Tail(s), Tail(p)>>] <=> Web!Stands(Tail(s), Tail(p))
    BY <1>5, <2>1, <2>2, <2>a
  <2>5. CASE Head(s) = "**"
    <3>1. Web!PatternMatch[<<s, p>>] = (Web!PatternMatch[<<Tail(s), p>>]
                                        \/ (p # <<>> /\ Web!PatternMatch[<<s, Tail(p)>>]))
      BY <1>7, <2>5, MatchStep
    <3>2. Web!Stands(s, p) <=> Web!Stands(Tail(s), p) \/ (p # <<>> /\ Web!Stands(s, Tail(p)))
      BY <1>7, <2>5, StandsForMany
    <3> QED
      BY <1>4, <2>3, <2>4, <3>1, <3>2
  <2>6. CASE Head(s) # "**"
    <3>1. Web!PatternMatch[<<s, p>>] = (p # <<>> /\ Web!Fits(Head(s), Head(p))
                                        /\ Web!PatternMatch[<<Tail(s), Tail(p)>>])
      BY <1>7, <2>6, MatchStep
    <3>2. Web!Stands(s, p) <=>
            p # <<>> /\ Web!Fits(Head(s), Head(p)) /\ Web!Stands(Tail(s), Tail(p))
      BY <1>7, <2>6, StandsForOne
    <3> QED
      BY <1>4, <2>4, <3>1, <3>2
  <2> QED
    BY <2>5, <2>6
<1> QED
  BY <1>6, <1>7

\* The first parts of the pattern stand for the path.
Begins(pattern, path) == \E k \in 0..Len(pattern) : Web!Stands(SubSeq(pattern, 1, k), path)

LEMMA FirstParts ==
  ASSUME NEW pattern \in Seq(Web!Parts), pattern # <<>>, NEW k \in 1..Len(pattern)
  PROVE  LET first == SubSeq(pattern, 1, k)
         IN  /\ first \in Seq(Web!Parts) /\ first # <<>> /\ Head(first) = Head(pattern)
             /\ Tail(first) = SubSeq(Tail(pattern), 1, k - 1) /\ k - 1 \in 0..Len(Tail(pattern))
<1>0. PICK n \in Nat \ {0} : n = Len(pattern)
  BY TailIs
<1>1. PICK p : p = Tail(pattern)
  OBVIOUS
<1>2. p \in Seq(Web!Parts) /\ Len(p) = n - 1 /\ \A i \in 1..n - 1 : p[i] = pattern[i + 1]
  BY <1>0, <1>1, TailIs
<1>3. PICK first : first = SubSeq(pattern, 1, k)
  OBVIOUS
<1>4. /\ first \in Seq(Web!Parts) /\ Len(first) = k /\ first # <<>>
      /\ \A i \in 1..k : first[i] = pattern[i]
  BY <1>0, <1>3
<1>5. PICK rest : rest = Tail(first)
  OBVIOUS
<1>6. rest \in Seq(Web!Parts) /\ Len(rest) = k - 1 /\ (\A i \in 1..k - 1 : rest[i] = first[i + 1])
      /\ Head(first) = first[1] /\ Head(pattern) = pattern[1]
  BY <1>4, <1>5, TailIs
<1>7. PICK q : q = SubSeq(p, 1, k - 1)
  OBVIOUS
<1>8. q \in Seq(Web!Parts) /\ Len(q) = k - 1 /\ \A i \in 1..k - 1 : q[i] = p[i]
  BY <1>0, <1>2, <1>7
<1>9. rest = q
  <2>1. \A i \in 1..k - 1 : rest[i] = q[i]
    BY <1>0, <1>2, <1>4, <1>6, <1>8
  <2> QED
    BY <1>6, <1>8, <2>1, SeqEqual
<1> QED
  <2>1. Head(first) = Head(pattern)
    BY <1>4, <1>6
  <2>2. Tail(first) = SubSeq(Tail(pattern), 1, k - 1)
    BY <1>1, <1>5, <1>7, <1>9
  <2>3. k - 1 \in 0..Len(Tail(pattern))
    BY <1>0, <1>1, <1>2
  <2> QED
    BY <1>3, <1>4, <2>1, <2>2, <2>3

LEMMA BeginsAnywhere ==
  ASSUME NEW pattern \in Seq(Web!Parts), NEW path \in Seq(WebNames)
  PROVE  /\ path = <<>> => Begins(pattern, path)
         /\ pattern = <<>> /\ path # <<>> => ~Begins(pattern, path)
<1>1. path = <<>> => Begins(pattern, path)
  <2>1. 0 \in 0..Len(pattern) /\ SubSeq(pattern, 1, 0) = <<>>
    OBVIOUS
  <2>2. Web!Stands(<<>>, <<>>)
    <3>1. PICK none \in Seq(WebNames) : none = <<>>
      BY EmptySeq
    <3> QED
      BY <3>1, StandsForNothing
  <2> QED
    BY <2>1, <2>2 DEF Begins
<1>2. ASSUME pattern = <<>>, path # <<>>, NEW k \in 0..Len(pattern), Web!Stands(SubSeq(pattern, 1, k), path)
      PROVE  FALSE
  <2>1. SubSeq(pattern, 1, k) = <<>>
    BY <1>2
  <2> QED
    BY <1>2, <2>1, StandsForNothing
<1> QED
  BY <1>1, <1>2 DEF Begins

LEMMA BeginsAfterMany ==
  ASSUME NEW pattern \in Seq(Web!Parts), NEW path \in Seq(WebNames), pattern # <<>>, path # <<>>,
         Head(pattern) = "**"
  PROVE  Begins(pattern, path) <=> Begins(Tail(pattern), path) \/ Begins(pattern, Tail(path))
<1>0. /\ Tail(pattern) \in Seq(Web!Parts) /\ Len(Tail(pattern)) = Len(pattern) - 1
      /\ Len(pattern) \in Nat \ {0} /\ Tail(path) \in Seq(WebNames)
  BY TailIs
<1>1. ASSUME NEW k \in 0..Len(pattern), Web!Stands(SubSeq(pattern, 1, k), path)
      PROVE  Begins(Tail(pattern), path) \/ Begins(pattern, Tail(path))
  <2>1. k # 0
    <3>1. k = 0 => SubSeq(pattern, 1, k) = <<>>
      OBVIOUS
    <3> QED
      BY <1>1, <3>1, StandsForNothing
  <2>2. k \in 1..Len(pattern)
    BY <1>0, <2>1
  <2>3. PICK first \in Seq(Web!Parts) :
          /\ first = SubSeq(pattern, 1, k) /\ first # <<>> /\ Head(first) = Head(pattern)
          /\ Tail(first) = SubSeq(Tail(pattern), 1, k - 1) /\ k - 1 \in 0..Len(Tail(pattern))
    BY <2>2, FirstParts
  <2>4. Web!Stands(Tail(first), path) \/ Web!Stands(first, Tail(path))
    BY <1>1, <2>3, StandsForMany
  <2> QED
    BY <2>3, <2>4 DEF Begins
<1>2. ASSUME NEW k \in 0..Len(Tail(pattern)), Web!Stands(SubSeq(Tail(pattern), 1, k), path)
      PROVE  Begins(pattern, path)
  <2>1. PICK j \in 1..Len(pattern) : j - 1 = k /\ j \in 0..Len(pattern)
    <3>1. k + 1 \in 1..Len(pattern) /\ (k + 1) - 1 = k /\ k + 1 \in 0..Len(pattern)
      BY <1>0
    <3> QED
      BY <3>1
  <2>2. PICK first \in Seq(Web!Parts) :
          /\ first = SubSeq(pattern, 1, j) /\ first # <<>> /\ Head(first) = Head(pattern)
          /\ Tail(first) = SubSeq(Tail(pattern), 1, k)
    BY <2>1, FirstParts
  <2>3. Web!Stands(first, path)
    BY <1>2, <2>2, StandsForMany
  <2> QED
    BY <2>1, <2>2, <2>3 DEF Begins
<1>3. ASSUME NEW k \in 1..Len(pattern), Web!Stands(SubSeq(pattern, 1, k), Tail(path))
      PROVE  Begins(pattern, path)
  <2>1. PICK first \in Seq(Web!Parts) :
          first = SubSeq(pattern, 1, k) /\ first # <<>> /\ Head(first) = Head(pattern)
    BY FirstParts
  <2>2. Web!Stands(first, path)
    BY <1>3, <2>1, StandsForMany
  <2>3. k \in 0..Len(pattern)
    BY <1>0
  <2> QED
    BY <2>1, <2>2, <2>3 DEF Begins
<1>4. ASSUME Web!Stands(SubSeq(pattern, 1, 0), Tail(path)) PROVE Begins(pattern, path)
  <2>1. Tail(path) = <<>> /\ Web!Stands(<<>>, <<>>)
    <3>1. SubSeq(pattern, 1, 0) = <<>> /\ <<>> \in Seq(WebNames)
      OBVIOUS
    <3> QED
      BY <1>0, <1>4, <3>1, StandsForNothing
  <2>2. PICK first \in Seq(Web!Parts) :
          /\ first = SubSeq(pattern, 1, 1) /\ first # <<>> /\ Head(first) = Head(pattern)
          /\ Tail(first) = SubSeq(Tail(pattern), 1, 0)
    <3>1. 1 \in 1..Len(pattern) /\ 1 - 1 = 0
      BY <1>0
    <3> QED
      BY <3>1, FirstParts
  <2>3. Tail(first) = <<>>
    BY <1>0, <2>2
  <2>4. Web!Stands(first, <<>>)
    <3>1. PICK none \in Seq(WebNames) : none = <<>>
      BY EmptySeq
    <3> QED
      BY <2>1, <2>2, <2>3, <3>1, StandsForMany
  <2>5. Web!Stands(first, path)
    BY <2>1, <2>2, <2>4, StandsForMany
  <2>6. 1 \in 0..Len(pattern)
    BY <1>0
  <2> QED
    BY <2>2, <2>5, <2>6 DEF Begins
<1>5. Begins(pattern, path) => Begins(Tail(pattern), path) \/ Begins(pattern, Tail(path))
  BY <1>1 DEF Begins
<1>6. Begins(Tail(pattern), path) => Begins(pattern, path)
  BY <1>2 DEF Begins
<1>7. Begins(pattern, Tail(path)) => Begins(pattern, path)
  <2> SUFFICES ASSUME NEW k \in 0..Len(pattern), Web!Stands(SubSeq(pattern, 1, k), Tail(path))
               PROVE  Begins(pattern, path)
    BY DEF Begins
  <2>1. k = 0 \/ k \in 1..Len(pattern)
    BY <1>0
  <2> QED
    BY <1>3, <1>4, <2>1
<1> QED
  BY <1>5, <1>6, <1>7 DEF Begins

LEMMA BeginsAfterOne ==
  ASSUME NEW pattern \in Seq(Web!Parts), NEW path \in Seq(WebNames), pattern # <<>>, path # <<>>,
         Head(pattern) # "**"
  PROVE  Begins(pattern, path) <=>
           Web!Fits(Head(pattern), Head(path)) /\ Begins(Tail(pattern), Tail(path))
<1>0. /\ Tail(pattern) \in Seq(Web!Parts) /\ Len(Tail(pattern)) = Len(pattern) - 1
      /\ Len(pattern) \in Nat \ {0} /\ Tail(path) \in Seq(WebNames)
  BY TailIs
<1>1. ASSUME NEW k \in 0..Len(pattern), Web!Stands(SubSeq(pattern, 1, k), path)
      PROVE  Web!Fits(Head(pattern), Head(path)) /\ Begins(Tail(pattern), Tail(path))
  <2>1. k # 0
    <3>1. k = 0 => SubSeq(pattern, 1, k) = <<>>
      OBVIOUS
    <3> QED
      BY <1>1, <3>1, StandsForNothing
  <2>2. k \in 1..Len(pattern)
    BY <1>0, <2>1
  <2>3. PICK first \in Seq(Web!Parts) :
          /\ first = SubSeq(pattern, 1, k) /\ first # <<>> /\ Head(first) = Head(pattern)
          /\ Tail(first) = SubSeq(Tail(pattern), 1, k - 1) /\ k - 1 \in 0..Len(Tail(pattern))
    BY <2>2, FirstParts
  <2>4. Web!Fits(Head(pattern), Head(path)) /\ Web!Stands(Tail(first), Tail(path))
    BY <1>1, <2>3, StandsForOne
  <2> QED
    BY <2>3, <2>4 DEF Begins
<1>2. ASSUME Web!Fits(Head(pattern), Head(path)), NEW k \in 0..Len(Tail(pattern)),
             Web!Stands(SubSeq(Tail(pattern), 1, k), Tail(path))
      PROVE  Begins(pattern, path)
  <2>1. PICK j \in 1..Len(pattern) : j - 1 = k /\ j \in 0..Len(pattern)
    <3>1. k + 1 \in 1..Len(pattern) /\ (k + 1) - 1 = k /\ k + 1 \in 0..Len(pattern)
      BY <1>0
    <3> QED
      BY <3>1
  <2>2. PICK first \in Seq(Web!Parts) :
          /\ first = SubSeq(pattern, 1, j) /\ first # <<>> /\ Head(first) = Head(pattern)
          /\ Tail(first) = SubSeq(Tail(pattern), 1, k)
    BY <2>1, FirstParts
  <2>3. Web!Stands(first, path)
    BY <1>2, <2>2, StandsForOne
  <2> QED
    BY <2>1, <2>2, <2>3 DEF Begins
<1> QED
  BY <1>1, <1>2 DEF Begins

PrefixIs(W) ==
  W = [x \in Web!Pairs |->
        IF x[2] = <<>> THEN TRUE
        ELSE IF x[1] = <<>> THEN FALSE
        ELSE IF Head(x[1]) = "**" THEN W[<<Tail(x[1]), x[2]>>] \/ W[<<x[1], Tail(x[2])>>]
        ELSE Web!Fits(Head(x[1]), Head(x[2])) /\ W[<<Tail(x[1]), Tail(x[2])>>]]

LEMMA PrefixExists == \E W : PrefixIs(W)
<1>1. PICK W : W = [x \in Web!Pairs |-> Begins(x[1], x[2]) = TRUE]
  OBVIOUS
<1>2. ASSUME NEW x \in Web!Pairs
      PROVE  W[x] = IF x[2] = <<>> THEN TRUE
                    ELSE IF x[1] = <<>> THEN FALSE
                    ELSE IF Head(x[1]) = "**" THEN W[<<Tail(x[1]), x[2]>>] \/ W[<<x[1], Tail(x[2])>>]
                    ELSE Web!Fits(Head(x[1]), Head(x[2])) /\ W[<<Tail(x[1]), Tail(x[2])>>]
  <2>1. PICK pattern \in Seq(Web!Parts), path \in Seq(WebNames) : x = <<pattern, path>>
    BY DEF Web!Pairs
  <2>2. \A s \in Seq(Web!Parts), p \in Seq(WebNames) :
          W[<<s, p>>] = (Begins(s, p) = TRUE) /\ (Begins(s, p) \in BOOLEAN)
    BY <1>1 DEF Web!Pairs, Begins
  <2>3. CASE path = <<>>
    BY <2>1, <2>2, <2>3, BeginsAnywhere
  <2>4. CASE path # <<>> /\ pattern = <<>>
    BY <2>1, <2>2, <2>4, BeginsAnywhere
  <2>5. ASSUME path # <<>>, pattern # <<>>
        PROVE  /\ Tail(pattern) \in Seq(Web!Parts) /\ Tail(path) \in Seq(WebNames)
               /\ W[<<pattern, path>>] = (Begins(pattern, path) = TRUE)
               /\ W[<<Tail(pattern), path>>] = (Begins(Tail(pattern), path) = TRUE)
               /\ W[<<pattern, Tail(path)>>] = (Begins(pattern, Tail(path)) = TRUE)
               /\ W[<<Tail(pattern), Tail(path)>>] = (Begins(Tail(pattern), Tail(path)) = TRUE)
    <3>1. Tail(pattern) \in Seq(Web!Parts) /\ Tail(path) \in Seq(WebNames)
      BY <2>5, TailIs
    <3> QED
      BY <2>2, <3>1
  <2>6. CASE path # <<>> /\ pattern # <<>> /\ Head(pattern) = "**"
    <3>1. Begins(pattern, path) <=> Begins(Tail(pattern), path) \/ Begins(pattern, Tail(path))
      BY <2>6, BeginsAfterMany
    <3> QED
      BY <2>1, <2>5, <2>6, <3>1
  <2>7. CASE path # <<>> /\ pattern # <<>> /\ Head(pattern) # "**"
    <3>1. Begins(pattern, path) <=>
            Web!Fits(Head(pattern), Head(path)) /\ Begins(Tail(pattern), Tail(path))
      BY <2>7, BeginsAfterOne
    <3> QED
      BY <2>1, <2>5, <2>7, <3>1
  <2> QED
    BY <2>3, <2>4, <2>6, <2>7
<1>3. PrefixIs(W)
  BY <1>1, <1>2 DEF PrefixIs
<1> QED
  BY <1>3

LEMMA PrefixEquation == PrefixIs(Web!PrefixMatch)
  BY PrefixExists, Zenon DEF Web!PrefixMatch, PrefixIs

LEMMA PrefixStep ==
  ASSUME NEW pattern \in Seq(Web!Parts), NEW path \in Seq(WebNames)
  PROVE  LET may(s, p) == Web!PrefixMatch[<<s, p>>]
         IN  /\ path = <<>> => may(pattern, path) = TRUE
             /\ path # <<>> /\ pattern # <<>> /\ Head(pattern) = "**" =>
                  may(pattern, path) = (may(Tail(pattern), path) \/ may(pattern, Tail(path)))
             /\ path # <<>> /\ pattern # <<>> /\ Head(pattern) # "**" =>
                  may(pattern, path) = (Web!Fits(Head(pattern), Head(path))
                                        /\ may(Tail(pattern), Tail(path)))
<1>1. PICK W : W = Web!PrefixMatch
  OBVIOUS
<1>2. PICK x : x = <<pattern, path>>
  OBVIOUS
<1>3. x \in Web!Pairs /\ x[1] = pattern /\ x[2] = path
  BY <1>2 DEF Web!Pairs
<1>4. W[x] = IF x[2] = <<>> THEN TRUE
             ELSE IF x[1] = <<>> THEN FALSE
             ELSE IF Head(x[1]) = "**" THEN W[<<Tail(x[1]), x[2]>>] \/ W[<<x[1], Tail(x[2])>>]
             ELSE Web!Fits(Head(x[1]), Head(x[2])) /\ W[<<Tail(x[1]), Tail(x[2])>>]
  BY <1>1, <1>3, PrefixEquation DEF PrefixIs
<1> QED
  BY <1>1, <1>2, <1>3, <1>4

\* What the pattern matches below a directory, it may match below that directory.
LEMMA PrefixOfMatch ==
  ASSUME NEW pattern \in Seq(Web!Parts), NEW path \in Seq(WebNames), NEW name \in WebNames,
         Web!Match(pattern, Append(path, name))
  PROVE  Web!CanMatchPrefix(pattern, path)
<1> DEFINE Wrong(n) == \E s \in Seq(Web!Parts), p \in Seq(WebNames) :
             /\ Len(s) + Len(p) = n /\ Web!PatternMatch[<<s, Append(p, name)>>]
             /\ ~Web!PrefixMatch[<<s, p>>]
           Sizes == {n \in Nat : Wrong(n)}
<1>1. SUFFICES ASSUME Sizes # {} PROVE FALSE
  <2>1. Len(pattern) + Len(path) \in Nat
    OBVIOUS
  <2> QED
    BY <2>1 DEF Web!Match, Web!CanMatchPrefix
<1>2. PICK n \in Sizes : \A k \in Sizes : ~(<<k, n>> \in OpToRel(<, Nat))
  BY <1>1, NatLessThanWellFounded, WFMin
<1>3. n \in Nat /\ \A k \in Nat : k < n => ~Wrong(k)
  BY <1>2 DEF OpToRel
<1>4. PICK s \in Seq(Web!Parts), p \in Seq(WebNames) :
        /\ Len(s) + Len(p) = n /\ Web!PatternMatch[<<s, Append(p, name)>>]
        /\ ~Web!PrefixMatch[<<s, p>>]
  BY <1>2
<1>5. ASSUME NEW t \in Seq(Web!Parts), NEW q \in Seq(WebNames), Len(t) + Len(q) < n,
             Web!PatternMatch[<<t, Append(q, name)>>]
      PROVE  Web!PrefixMatch[<<t, q>>]
  <2>1. Len(t) + Len(q) \in Nat
    OBVIOUS
  <2> QED
    BY <1>3, <1>5, <2>1
<1> HIDE DEF Wrong, Sizes
<1>a. Append(p, name) \in Seq(WebNames) /\ Append(p, name) # <<>>
  BY AppendProperties
<1>6. PICK longer \in Seq(WebNames) : longer = Append(p, name) /\ longer # <<>>
  BY <1>a
<1>7. p # <<>>
  BY <1>4, PrefixStep
<1>8. s # <<>>
  BY <1>4, <1>6, MatchStep
<1>9. /\ Tail(s) \in Seq(Web!Parts) /\ Len(Tail(s)) = Len(s) - 1 /\ Len(s) \in Nat \ {0}
      /\ Tail(p) \in Seq(WebNames) /\ Len(Tail(p)) = Len(p) - 1 /\ Len(p) \in Nat \ {0}
  BY <1>7, <1>8, TailIs
<1>10. /\ Len(Tail(s)) + Len(p) < n /\ Len(s) + Len(Tail(p)) < n /\ Len(Tail(s)) + Len(Tail(p)) < n
  BY <1>3, <1>4, <1>9
<1>11. Head(longer) = Head(p) /\ Tail(longer) = Append(Tail(p), name)
  BY <1>6, <1>7
<1>12. CASE Head(s) = "**"
  <2>1. Web!PatternMatch[<<Tail(s), longer>>] \/ Web!PatternMatch[<<s, Tail(longer)>>]
    BY <1>4, <1>6, <1>8, <1>12, MatchStep
  <2>2. Web!PrefixMatch[<<Tail(s), p>>] \/ Web!PrefixMatch[<<s, Tail(p)>>]
    BY <1>5, <1>6, <1>9, <1>10, <1>11, <2>1
  <2> QED
    BY <1>4, <1>7, <1>8, <1>12, <2>2, PrefixStep
<1>13. CASE Head(s) # "**"
  <2>1. Web!Fits(Head(s), Head(longer)) /\ Web!PatternMatch[<<Tail(s), Tail(longer)>>]
    BY <1>4, <1>6, <1>8, <1>13, MatchStep
  <2>2. Web!PrefixMatch[<<Tail(s), Tail(p)>>]
    BY <1>5, <1>9, <1>10, <1>11, <2>1
  <2> QED
    BY <1>4, <1>7, <1>8, <1>11, <1>13, <2>1, <2>2, PrefixStep
<1> QED
  BY <1>12, <1>13

-----------------------------------------------------------------------------
(* The plugin's files.                                                      *)

Accepted == export \notin {Web!None, Web!Rejected}

\* Until the directory changes, what load accepted is still so.
WebInv == Web!TypeOK /\ (Accepted /\ ~edited => Web!ExportIsValid(export))

LEMMA PathsAre ==
  /\ Web!Paths \subseteq Seq(WebNames) /\ Web!Patterns \subseteq Seq(Web!Parts)
  /\ \A p \in Web!Paths :
       \/ \E n \in WebNames : p = <<n>> /\ Len(p) = 1
       \/ \E n \in WebDirs, m \in WebNames : p = <<n, m>> /\ Len(p) = 2 /\ p[1] = n /\ <<n>> \in Web!Paths
  /\ \A p \in Web!Patterns : p # <<>> /\ Len(p) \in {1, 2}
<1>1. WebDirs \subseteq WebNames
  BY HomeConstants
<1>2. \A n \in WebNames : <<n>> \in Seq(WebNames) /\ Len(<<n>>) = 1 /\ <<n>> \in Web!Paths
  BY DEF Web!Paths, Web!Tops
<1>3. \A n \in WebDirs, m \in WebNames : <<n, m>> \in Seq(WebNames) /\ Len(<<n, m>>) = 2 /\ <<n, m>>[1] = n
  BY <1>1
<1>4. \A p \in Web!Paths : \/ \E n \in WebNames : p = <<n>>
                           \/ \E n \in WebDirs, m \in WebNames : p = <<n, m>>
  BY DEF Web!Paths, Web!Tops
<1>5. \A p \in Web!Patterns : p \in Seq(Web!Parts) /\ p # <<>> /\ Len(p) \in {1, 2}
  <2>1. \A a \in Web!Parts : <<a>> \in Seq(Web!Parts) /\ <<a>> # <<>> /\ Len(<<a>>) = 1
    OBVIOUS
  <2>2. \A a, b \in Web!Parts : <<a, b>> \in Seq(Web!Parts) /\ <<a, b>> # <<>> /\ Len(<<a, b>>) = 2
    OBVIOUS
  <2>3. \A p \in Web!Patterns : \/ \E a \in Web!Parts : p = <<a>>
                              \/ \E a, b \in Web!Parts : p = <<a, b>>
    BY DEF Web!Patterns
  <2> QED
    BY <2>1, <2>2, <2>3
<1>6. Web!Paths \subseteq Seq(WebNames)
  BY <1>2, <1>3, <1>4
<1>7. ASSUME NEW p \in Web!Paths
      PROVE  \/ \E n \in WebNames : p = <<n>> /\ Len(p) = 1
             \/ \E n \in WebDirs, m \in WebNames :
                  p = <<n, m>> /\ Len(p) = 2 /\ p[1] = n /\ <<n>> \in Web!Paths
  <2>1. CASE \E n \in WebNames : p = <<n>>
    BY <1>2, <2>1
  <2>2. ASSUME NEW n \in WebDirs, NEW m \in WebNames, p = <<n, m>>
        PROVE  Len(p) = 2 /\ p[1] = n /\ <<n>> \in Web!Paths
    BY <1>1, <1>2, <1>3, <2>2
  <2> QED
    BY <1>4, <2>1, <2>2
<1> QED
  BY <1>5, <1>6, <1>7

LEMMA NormalizedIs ==
  ASSUME Web!TypeOK
  PROVE  Web!Normalized \in Web!Exports
  BY DEF Web!TypeOK, Web!Normalized, Web!Exports, Web!Declarations

LEMMA NoneIsNoExport == Web!None \notin Web!Exports /\ Web!Rejected \notin Web!Exports
<1>1. Web!None.pattern = <<>> /\ Web!Rejected.pattern = <<>>
  BY DEF Web!None, Web!Rejected
<1>2. \A e \in Web!Exports : e.pattern # <<>>
  BY PathsAre DEF Web!Exports
<1> QED
  BY <1>1, <1>2

LEMMA WebStepKeeps ==
  ASSUME WebInv, Web!Next
  PROVE  WebInv'
<1>1. CASE Web!LoadHook
  <2>1. PICK e \in Web!Exports : e = Web!Normalized
    BY NormalizedIs DEF WebInv
  <2>2. /\ export' = IF Web!ExportIsValid(e) THEN e ELSE Web!Rejected
        /\ tree' = tree /\ declared' = declared /\ edited' = edited
    BY <1>1, <2>1 DEF Web!LoadHook
  <2>3. Web!TypeOK'
    BY <2>2 DEF WebInv, Web!TypeOK
  <2>4. ASSUME Accepted' PROVE Web!ExportIsValid(export)'
    <3>1. export' = e /\ Web!ExportIsValid(e)
      BY <2>2, <2>4 DEF Accepted
    <3>2. \A p : Web!KindOf(p)' = Web!KindOf(p)
      BY <2>2 DEF Web!KindOf
    <3>3. Web!Walked' = Web!Walked
      BY <3>2 DEF Web!Walked
    <3> QED
      BY <3>1, <3>2, <3>3 DEF Web!ExportIsValid, Web!GlobIsValid, Web!TreeIsValid
  <2> QED
    BY <2>3, <2>4 DEF WebInv
<1>2. CASE Web!EditPlugin
  <2>1. /\ tree' \in Web!Trees /\ edited' = TRUE /\ UNCHANGED <<declared, export>>
    BY <1>2 DEF Web!EditPlugin
  <2> QED
    BY <2>1 DEF WebInv, Web!TypeOK
<1> QED
  BY <1>1, <1>2 DEF Web!Next, Web!WebStep

LEMMA WebCorrect == Spec => [](part = "web" => WebInv)
<1>1. Init => (part = "web" => WebInv)
  BY DEF Init, Web!Init, WebInv, Web!TypeOK, Accepted
<1>2. (part = "web" => WebInv) /\ [Next]_vars => (part = "web" => WebInv)'
  <2> SUFFICES ASSUME part = "web" => WebInv, [Next]_vars, part' = "web" PROVE WebInv'
    OBVIOUS
  <2>1. part = "web" /\ [Web!Next]_webVars
    BY WebMoves
  <2>2. CASE Web!Next
    BY <2>1, <2>2, WebStepKeeps
  <2>3. CASE UNCHANGED webVars
    BY <2>1, <2>3 DEF webVars, WebInv, Web!TypeOK, Accepted, Web!ExportIsValid, Web!GlobIsValid,
       Web!TreeIsValid, Web!Walked, Web!KindOf
  <2> QED
    BY <2>1, <2>2, <2>3
<1> QED
  BY <1>1, <1>2, PTL DEF Spec

LEMMA WebTypesHold == Spec => [](part = "web" => Web!TypeOK)
<1>1. (part = "web" => WebInv) => (part = "web" => Web!TypeOK)
  BY DEF WebInv
<1> QED
  BY <1>1, WebCorrect, PTL

\* What the declaration names is there without a link on the way.
LEMMA NamedIsReached ==
  ASSUME WebInv, Accepted, ~(export.glob /\ export.directory), ~edited,
         NEW p \in Web!Paths, Web!Named(p), tree[p] = "file"
  PROVE  Web!KindOf(p) = "file"
<1>0. export \in Web!Exports /\ export.pattern \in Web!Patterns /\ tree \in Web!Trees
      /\ Web!ExportIsValid(export)
  BY DEF WebInv, Web!TypeOK, Accepted, Web!Exports
<1>1. CASE Len(p) # 2
  BY <1>1 DEF Web!KindOf
<1>2. ASSUME NEW n \in WebDirs, NEW m \in WebNames, p = <<n, m>>, Len(p) = 2, p[1] = n, <<n>> \in Web!Paths
      PROVE  Web!KindOf(p) = "file"
  <2>1. tree[<<n>>] \in {"dir", "link"}
    <3>1. p \notin Web!Tops
      BY <1>2 DEF Web!Tops
    <3> QED
      BY <1>0, <1>2, <3>1 DEF Web!Trees
  <2>2. Web!KindOf(<<n>>) = tree[<<n>>]
    BY <1>2 DEF Web!KindOf
  <2>3. SUFFICES tree[<<n>>] # "link"
    BY <1>2, <2>1 DEF Web!KindOf
  <2>4. CASE export.glob
    <3>1. Web!Stands(export.pattern, p) /\ Web!GlobIsValid(export)
      BY <1>0, <2>4 DEF Web!Named, Web!ExportIsValid
    <3>2. PICK path \in Seq(WebNames) : path = <<n>> /\ p = Append(path, m)
      <4>1. PICK path : path = <<n>>
        OBVIOUS
      <4>2. path \in Seq(WebNames)
        BY <1>2, <4>1, PathsAre
      <4>3. p = Append(path, m)
        BY <1>2, <4>1
      <4> QED
        BY <4>1, <4>2, <4>3
    <3>3. Web!Match(export.pattern, p)
      BY <1>0, <3>1, PathsAre, MatchIsRight
    <3>4. Web!CanMatchPrefix(export.pattern, path)
      BY <1>0, <3>2, <3>3, PathsAre, PrefixOfMatch
    <3> QED
      BY <1>2, <2>2, <3>1, <3>2, <3>4 DEF Web!GlobIsValid, Web!Walked
  <2>5. CASE ~export.glob /\ export.directory
    <3>1. Web!IsBelow(export.pattern, p) /\ Web!KindOf(export.pattern) = "dir"
      BY <1>0, <2>5 DEF Web!Named, Web!ExportIsValid
    <3>2. export.pattern = <<n>>
      <4>1. CASE \E a \in Web!Parts : export.pattern = <<a>>
        <5>1. PICK a : export.pattern = <<a>>
          BY <4>1
        <5>2. Len(p) = 2 /\ p \in Seq({n, m}) /\ Len(<<a>>) = 1
          BY <1>2
        <5>3. SubSeq(p, 1, 1) = <<a>>
          BY <3>1, <5>1, <5>2 DEF Web!IsBelow
        <5>4. SubSeq(p, 1, 1)[1] = p[1]
          BY <5>2
        <5>5. <<a>>[1] = a
          OBVIOUS
        <5>6. a = n
          BY <1>2, <5>3, <5>4, <5>5
        <5> QED
          BY <5>1, <5>6
      <4>2. CASE \E a, b \in Web!Parts : export.pattern = <<a, b>>
        BY <1>2, <3>1, <4>2 DEF Web!IsBelow
      <4> QED
        BY <1>0, <4>1, <4>2 DEF Web!Patterns
    <3> QED
      BY <2>2, <3>1, <3>2
  <2>6. CASE ~export.glob /\ ~export.directory
    <3>1. Web!KindOf(p) = "file"
      BY <1>0, <2>6 DEF Web!Named, Web!ExportIsValid
    <3> QED
      BY <1>2, <3>1 DEF Web!KindOf
  <2> QED
    BY <1>0, <2>4, <2>5, <2>6 DEF Web!Exports
<1>3. CASE Len(p) = 2
  <2>0. ~\E n \in WebNames : p = <<n>> /\ Len(p) = 1
    BY <1>3
  <2>1. PICK n \in WebDirs, m \in WebNames : p = <<n, m>> /\ p[1] = n /\ <<n>> \in Web!Paths
    BY <2>0, PathsAre
  <2> QED
    BY <1>2, <1>3, <2>1
<1> QED
  BY <1>1, <1>3

\* A plugin's page gets the files its manifest declares and no others.
THEOREM DeclaredFilesAreServed == Spec => [](part = "web" => Web!DeclaredIsServed)
<1>1. (part = "web" => WebInv) => (part = "web" => Web!DeclaredIsServed)
  <2> SUFFICES ASSUME WebInv, Accepted, ~(export.glob /\ export.directory), NEW p \in Web!Paths
               PROVE  /\ Web!Served(p) <=> Web!Named(p) /\ Web!KindOf(p) = "file"
                      /\ ~edited => (Web!Served(p) <=> Web!Named(p) /\ tree[p] = "file")
    BY DEF Web!DeclaredIsServed, Accepted
  <2>1. export \in Web!Exports /\ export.pattern \in Web!Patterns
    BY DEF WebInv, Web!TypeOK, Accepted, Web!Exports
  <2>2. Web!Match(export.pattern, p) <=> Web!Stands(export.pattern, p)
    BY <2>1, PathsAre, MatchIsRight
  <2>3. Web!Matched(p) <=> Web!Named(p)
    BY <2>1, <2>2 DEF Web!Matched, Web!Named, Web!Exports
  <2>4. Web!Served(p) <=> Web!Named(p) /\ Web!KindOf(p) = "file"
    BY <2>3 DEF Web!Served
  <2>5. Web!KindOf(p) = "file" => tree[p] = "file"
    BY DEF Web!KindOf
  <2> QED
    BY <2>4, <2>5, NamedIsReached
<1> QED
  BY <1>1, WebCorrect, PTL
=============================================================================
