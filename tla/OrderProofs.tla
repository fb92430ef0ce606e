----------------------------- MODULE OrderProofs ------------------------------
(***************************************************************************)
(* A plan directory: what the search for a cycle and the sort of SpecOrder *)
(* compute for every directory, and what an update of FrontMatter does to  *)
(* every tidy file of one.                                                 *)
(*                                                                         *)
(* The search: the names it has returned from form a list in which         *)
(* everything a name depends on is before it, so no name of the list can   *)
(* be in a knot; at the end every name is in it.                           *)
(*                                                                         *)
(* The sort: a name's degree counts the dependencies that are still to     *)
(* come, so what is taken at zero has all of them before it, and without a *)
(* knot something is always at zero.                                       *)
(*                                                                         *)
(* The update: two readers go through the old file and the new one beside  *)
(* each other; the lines of other fields are the same and have the same    *)
(* lines under them, and a line of the field itself changes nothing else   *)
(* the readers hold.                                                       *)
(***************************************************************************)
EXTENDS SpecOrder, FrontMatter, FiniteSetTheorems, SequenceTheorems, WellFoundedInduction, TLAPS

---------------------------------------------------------------------------
(* Least numbers, and occurrences in a list. *)

(* A non-empty set of numbers has a least one, and that is its Least.      *)
LEMMA LeastIsLeast ==
  ASSUME NEW S \in SUBSET Nat, S # {}
  PROVE  Least(S) \in S /\ \A m \in S : Least(S) <= m
<1>1. PICK n \in S : \A m \in S : ~(<<m, n>> \in OpToRel(<, Nat))
  BY WFMin, NatLessThanWellFounded
<1>2. \A m \in S : ~(m < n)
  BY <1>1 DEF OpToRel
<1>3. \A m \in S : n <= m
  BY <1>2
<1> QED BY <1>3 DEF Least

LEMMA OccurrencesAreFinite ==
  ASSUME NEW list \in Seq(Nat), NEW names
  PROVE  IsFiniteSet({i \in 1 .. Len(list) : list[i] \in names})
BY FS_Interval, FS_Subset

LEMMA OccurrencesType ==
  ASSUME NEW list \in Seq(Nat), NEW names
  PROVE  Occurrences(list, names) \in Nat
BY OccurrencesAreFinite, FS_CardinalityType DEF Occurrences

(* A list has no occurrence of names that are not in it.                   *)
LEMMA NoOccurrence ==
  ASSUME NEW list \in Seq(Nat), NEW names
  PROVE  Occurrences(list, names) = 0 <=> ToSet(list) \cap names = {}
<1> DEFINE At0 == {i \in 1 .. Len(list) : list[i] \in names}
<1>1. Occurrences(list, names) = 0 <=> At0 = {}
  BY OccurrencesAreFinite, FS_EmptySet DEF Occurrences
<1>2. At0 = {} <=> ToSet(list) \cap names = {}
  BY DEF ToSet
<1> QED BY <1>1, <1>2

(* The occurrences without one of the names.                               *)
LEMMA OccurrencesWithout ==
  ASSUME NEW list \in Seq(Nat), NEW names, NEW n \in names
  PROVE  Occurrences(list, names \ {n}) = Occurrences(list, names) - Occurrences(list, {n})
<1> DEFINE S == {i \in 1 .. Len(list) : list[i] \in names}
           T == {i \in 1 .. Len(list) : list[i] \in {n}}
<1>1. S \cap T = T /\ S \ T = {i \in 1 .. Len(list) : list[i] \in names \ {n}}
  OBVIOUS
<1>2. IsFiniteSet(S)
  BY OccurrencesAreFinite
<1> HIDE DEF S, T
<1>3. Cardinality(S \ T) = Cardinality(S) - Cardinality(S \cap T)
  BY <1>2, FS_Difference
<1> QED BY <1>1, <1>3 DEF Occurrences, S, T

---------------------------------------------------------------------------
(* The search. *)

OrderTypeOK ==
  /\ dir \in Directories
  /\ phase \in {"search", "refused", "resolved", "sort", "sorted"}
  /\ todo \in SUBSET Given(dir) /\ visited \in SUBSET Nat
  /\ path \in Seq(Nat) /\ pos \in Seq(Nat) /\ Len(pos) = Len(path)
  /\ cycle \in Seq(Nat) /\ finished \in Seq(Nat)
  /\ chosen \in SUBSET Given(dir) /\ queue \in SUBSET chosen
  /\ degree \in [chosen -> Int] /\ sorted \in Seq(chosen)

(* The path is a walk through the directory, with no name twice. *)
PathIsWalk ==
  /\ \A i, j \in 1 .. Len(path) : path[i] = path[j] => i = j
  /\ \A i \in 1 .. Len(path) : path[i] \notin visited
  /\ \A i \in 1 .. Len(path) : pos[i] \in 1 .. Len(DepList(dir, path[i])) + 1
  /\ \A i \in 1 .. Len(path) - 1 :
       pos[i] > 1 /\ path[i + 1] = DepList(dir, path[i])[pos[i] - 1]

(* The dependencies passed have been visited; the last may be on the path. *)
PassedIsVisited ==
  \A i \in 1 .. Len(path) : \A k \in 1 .. pos[i] - 1 :
    \/ DepList(dir, path[i])[k] \in visited
    \/ i < Len(path) /\ k = pos[i] - 1

(* The names dfs has returned from: dependencies first.                    *)
FinishedInOrder ==
  /\ phase # "refused" => ToSet(finished) = visited
  /\ \A k \in 1 .. Len(finished) : \A x \in DepsOf(dir, finished[k]) :
       \E j \in 1 .. k - 1 : finished[j] = x

NothingSkipped ==
  /\ phase = "search" => Given(dir) \subseteq todo \cup visited \cup ToSet(path)
  /\ phase \in {"resolved", "sort", "sorted"} => Given(dir) \subseteq visited

SearchInv ==
  /\ phase = "search" => PathIsWalk /\ PassedIsVisited
  /\ FinishedInOrder
  /\ NothingSkipped

(* What is returned as a cycle is one.                                     *)
CycleIsOne ==
  phase = "refused" =>
    /\ Len(cycle) > 1 /\ cycle[1] = cycle[Len(cycle)]
    /\ \A i \in 1 .. Len(cycle) - 1 : cycle[i + 1] \in DepsOf(dir, cycle[i])

---------------------------------------------------------------------------
(* The sort. *)

DegreeCountsTheRest ==
  \A n \in chosen :
    degree[n] = Occurrences(DepList(dir, n), chosen \ ToSet(sorted))

QueueIsAtZero == queue = {n \in chosen \ ToSet(sorted) : degree[n] = 0}

SortedInOrder ==
  /\ \A i, j \in 1 .. Len(sorted) : sorted[i] = sorted[j] => i = j
  /\ \A i \in 1 .. Len(sorted) : \A x \in DepsOf(dir, sorted[i]) \cap chosen :
       \E j \in 1 .. i - 1 : sorted[j] = x

SortInv ==
  IF phase \in {"sort", "sorted"}
  THEN /\ DegreeCountsTheRest /\ QueueIsAtZero /\ SortedInOrder
       /\ phase = "sorted" => queue = {}
  ELSE sorted = <<>>

OrderInv == OrderTypeOK /\ SearchInv /\ CycleIsOne /\ SortInv

---------------------------------------------------------------------------
(* What a directory holds. *)
LEMMA DirectoryType ==
  ASSUME dir \in Directories
  PROVE  /\ Given(dir) \subseteq Nat
         /\ \A n : DepList(dir, n) \in Seq(Nat)
         /\ \A n : DepsOf(dir, n) \subseteq Nat
<1>1. \A n : DepList(dir, n) \in Seq(Nat)
  BY OrderAssumption DEF Given, DepList, Parsed
<1> QED BY <1>1, OrderAssumption DEF Given, DepsOf, ToSet

(* The first states. *)
LEMMA OrderInvInit == OrderInit => OrderInv
<1> SUFFICES ASSUME OrderInit PROVE OrderInv
  OBVIOUS
<1> USE DEF OrderInit, Starts
<1>1. OrderTypeOK
  BY DEF OrderTypeOK
<1>2. SearchInv /\ CycleIsOne /\ SortInv
  BY DEF SearchInv, PathIsWalk, PassedIsVisited, FinishedInOrder, NothingSkipped,
         CycleIsOne, SortInv, ToSet
<1> QED BY <1>1, <1>2 DEF OrderInv

(* While the search goes on nothing is sorted. *)
LEMMA SortRests ==
  ASSUME OrderInv, phase = "search", phase' \in {"search", "refused", "resolved"},
         UNCHANGED <<dir, sortVars>>
  PROVE  SortInv'
BY DEF OrderInv, SortInv, sortVars

LEMMA BeginStep ==
  ASSUME OrderInv, NextName
  PROVE  OrderInv'
<1> USE DEF OrderInv
<1> DEFINE n == Least(todo)
<1>1. n \in todo /\ n \in Nat /\ Given(dir) \subseteq Nat /\ DepList(dir, n) \in Seq(Nat)
  BY LeastIsLeast, DirectoryType DEF NextName, OrderTypeOK
<1>2. /\ phase = "search" /\ path = <<>> /\ todo' = todo \ {n}
      /\ IF n \in visited THEN UNCHANGED <<path, pos>> ELSE path' = <<n>> /\ pos' = <<1>>
      /\ UNCHANGED <<dir, phase, visited, cycle, finished, sortVars>>
  BY DEF NextName
<1> HIDE DEF n
<1>3. /\ path' \in Seq(Nat) /\ pos' \in Seq(Nat) /\ Len(pos') = Len(path')
      /\ Len(path') = IF n \in visited THEN 0 ELSE 1
      /\ n \notin visited => path'[1] = n /\ pos'[1] = 1
  <2>1. CASE n \in visited
    BY <1>2, <2>1 DEF OrderTypeOK
  <2>2. CASE n \notin visited
    <3>1. path' = <<n>> /\ pos' = <<1>>
      BY <1>2, <2>2
    <3>2. <<n>> \in Seq(Nat) /\ <<1>> \in Seq(Nat) /\ Len(<<n>>) = 1 /\ Len(<<1>>) = 1
      BY <1>1
    <3> QED BY <2>2, <3>1, <3>2
  <2> QED BY <2>1, <2>2
<1>4. OrderTypeOK'
  BY <1>1, <1>2, <1>3 DEF OrderTypeOK, sortVars
<1>5. (PathIsWalk /\ PassedIsVisited)'
  <2>1. CASE n \in visited
    BY <1>3, <2>1 DEF PathIsWalk, PassedIsVisited
  <2>2. CASE n \notin visited
    <3>1. \A i \in 1 .. Len(path') : i = 1 /\ path'[i] = n /\ pos'[i] = 1
      BY <1>3, <2>2
    <3>2. 1 .. Len(path') - 1 = {} /\ \A i \in 1 .. Len(path') : 1 .. pos'[i] - 1 = {}
      BY <1>3, <2>2
    <3>3. 1 \in 1 .. Len(DepList(dir, n)) + 1
      BY <1>1
    <3>4. PathIsWalk'
      BY <1>2, <2>2, <3>1, <3>2, <3>3 DEF PathIsWalk, DepList, Given
    <3>5. PassedIsVisited'
      BY <3>1, <3>2 DEF PassedIsVisited
    <3> QED BY <3>4, <3>5
  <2> QED BY <2>1, <2>2
<1>6. FinishedInOrder' /\ CycleIsOne'
  BY <1>2 DEF SearchInv, FinishedInOrder, CycleIsOne, DepsOf, DepList, Given
<1>7. NothingSkipped'
  <2>1. CASE n \in visited
    BY <1>1, <1>2, <2>1 DEF SearchInv, NothingSkipped
  <2>2. CASE n \notin visited
    <3>1. n \in ToSet(path')
      BY <1>2, <2>2 DEF ToSet
    <3> QED BY <1>2, <3>1 DEF SearchInv, NothingSkipped, ToSet
  <2> QED BY <2>1, <2>2
<1> QED BY <1>2, <1>4, <1>5, <1>6, <1>7, SortRests DEF SearchInv

(* dfs meets a name of its path: the path from there on is a cycle.        *)
LEMMA CycleStep ==
  ASSUME OrderInv, CycleFound
  PROVE  OrderInv'
<1> USE DEF OrderInv
<1>0. /\ phase = "search" /\ path # <<>> /\ At \in 1 .. Len(DepList(dir, Top))
      /\ phase' = "refused" /\ path' = <<>> /\ pos' = <<>>
      /\ visited' = visited \cup ToSet(path)
      /\ UNCHANGED <<dir, todo, finished, sortVars>>
  BY DEF CycleFound, Calls
<1>i. PICK i \in 1 .. Len(path) :
        path[i] = Dep /\ cycle' = Append(SubSeq(path, i, Len(path)), Dep)
  BY DEF CycleFound
<1> DEFINE walk == SubSeq(path, i, Len(path))  m == Len(path) - i + 1
<1>1. /\ path \in Seq(Nat) /\ Len(path) \in Nat /\ i \in Nat /\ path[i] \in Nat
      /\ PathIsWalk
  BY <1>0 DEF OrderTypeOK, SearchInv
<1>2. /\ walk \in Seq(Nat) /\ Len(walk) = m /\ m \in Nat \ {0}
      /\ \A j \in 1 .. m : walk[j] = path[i + j - 1]
  BY <1>1
<1> HIDE DEF walk
<1>3. /\ cycle' \in Seq(Nat) /\ Len(cycle') = m + 1
      /\ \A j \in 1 .. m : cycle'[j] = path[i + j - 1]
      /\ cycle'[m + 1] = path[i]
  BY <1>i, <1>1, <1>2 DEF walk
<1> HIDE DEF m
<1>4. OrderTypeOK'
  <2>1. \A j \in DOMAIN path : path[j] \in Nat
    BY <1>1
  <2>2. visited' \in SUBSET Nat
    BY <1>0, <2>1 DEF OrderTypeOK, ToSet
  <2>3. path' \in Seq(Nat) /\ pos' \in Seq(Nat) /\ Len(pos') = Len(path')
    BY <1>0
  <2> QED BY <1>0, <1>3, <2>2, <2>3 DEF OrderTypeOK, sortVars
<1>5. \A j \in 1 .. m : cycle'[j + 1] \in DepsOf(dir, cycle'[j])
  <2> SUFFICES ASSUME NEW j \in 1 .. m
               PROVE  cycle'[j + 1] \in DepsOf(dir, cycle'[j])
    OBVIOUS
  <2>1. CASE j = m
    <3>1. cycle'[j] = path[Len(path)] /\ cycle'[j + 1] = path[i]
      <4>1. j \in 1 .. m /\ i + j - 1 = Len(path)
        BY <1>1, <1>2, <2>1 DEF m
      <4>2. cycle'[j] = path[i + j - 1]
        BY <1>3, <4>1
      <4> QED BY <1>3, <2>1, <4>1, <4>2
    <3>2. DepList(dir, Top) \in Seq(Nat)
      BY DirectoryType DEF OrderTypeOK
    <3>3. path[i] \in ToSet(DepList(dir, Top))
      BY <1>0, <1>i, <3>2 DEF Dep, ToSet
    <3> QED BY <3>1, <3>3 DEF DepsOf, Top
  <2>2. CASE j < m
    <3>1. i + j - 1 \in 1 .. Len(path) - 1
      BY <1>1, <2>2 DEF m
    <3> DEFINE k == i + j - 1
    <3>2. cycle'[j] = path[k] /\ cycle'[j + 1] = path[k + 1]
      <4>1. j \in 1 .. m /\ j + 1 \in 1 .. m /\ i + (j + 1) - 1 = k + 1
        BY <1>1, <1>2, <2>2
      <4>2. cycle'[j + 1] = path[i + (j + 1) - 1] /\ cycle'[j] = path[i + j - 1]
        BY <1>3, <4>1
      <4> QED BY <4>1, <4>2
    <3> HIDE DEF k
    <3>3. k \in 1 .. Len(path) - 1 /\ k \in 1 .. Len(path)
      BY <1>1, <3>1 DEF k
    <3>4. /\ path[k + 1] = DepList(dir, path[k])[pos[k] - 1] /\ pos[k] > 1
          /\ pos[k] \in 1 .. Len(DepList(dir, path[k])) + 1
      BY <1>1, <3>3 DEF PathIsWalk
    <3>5. DepList(dir, path[k]) \in Seq(Nat)
      BY DirectoryType DEF OrderTypeOK
    <3> DEFINE q == pos[k] - 1
    <3>6. q \in 1 .. Len(DepList(dir, path[k]))
      BY <3>4, <3>5
    <3>7. path[k + 1] \in ToSet(DepList(dir, path[k]))
      BY <3>4, <3>5, <3>6 DEF ToSet
    <3> QED BY <3>2, <3>7 DEF DepsOf
  <2> QED BY <1>2, <2>1, <2>2
<1>6. CycleIsOne'
  <2>1. /\ Len(cycle') > 1 /\ cycle'[1] = path[i] /\ cycle'[Len(cycle')] = path[i]
        /\ 1 .. Len(cycle') - 1 = 1 .. m
    <3>1. 1 \in 1 .. m /\ i + 1 - 1 = i /\ (m + 1) - 1 = m /\ m + 1 > 1
      BY <1>1, <1>2
    <3>2. cycle'[1] = path[i + 1 - 1]
      BY <1>3, <3>1
    <3> QED BY <1>3, <3>1, <3>2
  <2> QED BY <1>0, <1>5, <2>1 DEF CycleIsOne, DepsOf, DepList, Given
<1>7. SearchInv'
  BY <1>0 DEF SearchInv, FinishedInOrder, NothingSkipped, DepsOf, DepList, Given
<1> QED BY <1>0, <1>4, <1>6, <1>7, SortRests

LEMMA SkipStep ==
  ASSUME OrderInv, Skip
  PROVE  OrderInv'
<1> USE DEF OrderInv
<1>0. /\ phase = "search" /\ path # <<>> /\ At \in 1 .. Len(DepList(dir, Top))
      /\ DepList(dir, Top)[At] \in visited
      /\ UNCHANGED <<dir, phase, todo, path, visited, cycle, finished, sortVars>>
  BY DEF Skip, Calls, Dep
<1>1. /\ path \in Seq(Nat) /\ pos \in Seq(Nat) /\ Len(pos) = Len(path) /\ Len(path) \in Nat \ {0}
      /\ PathIsWalk /\ PassedIsVisited
  BY <1>0 DEF OrderTypeOK, SearchInv
<1>2. /\ pos' \in Seq(Nat) /\ Len(pos') = Len(path)
      /\ pos'[Len(path)] = pos[Len(path)] + 1
      /\ \A i \in 1 .. Len(path) - 1 : pos'[i] = pos[i]
  BY <1>1 DEF Skip
<1>3. OrderTypeOK'
  BY <1>0, <1>2 DEF OrderTypeOK, sortVars
<1>4. PathIsWalk'
  <2>1. \A i \in 1 .. Len(path) : i \in 1 .. Len(path) - 1 \/ i = Len(path)
    BY <1>1
  <2>2. \A i \in 1 .. Len(path) : pos'[i] \in 1 .. Len(DepList(dir, path[i])) + 1
    <3> SUFFICES ASSUME NEW i \in 1 .. Len(path)
                 PROVE  pos'[i] \in 1 .. Len(DepList(dir, path[i])) + 1
      OBVIOUS
    <3>1. CASE i = Len(path)
      <4>1. pos[i] \in 1 .. Len(DepList(dir, path[i])) /\ DepList(dir, path[i]) \in Seq(Nat)
        BY <1>0, <1>1, <3>1, DirectoryType DEF OrderTypeOK, At, Top
      <4> QED BY <1>2, <3>1, <4>1
    <3>2. CASE i \in 1 .. Len(path) - 1
      BY <1>1, <1>2, <3>2 DEF PathIsWalk
    <3> QED BY <2>1, <3>1, <3>2
  <2>3. dir' = dir /\ path' = path /\ visited' = visited
    BY <1>0
  <2>4. \A i \in 1 .. Len(path) - 1 :
          pos'[i] > 1 /\ path[i + 1] = DepList(dir, path[i])[pos'[i] - 1]
    BY <1>1, <1>2 DEF PathIsWalk
  <2> QED BY <1>1, <2>2, <2>3, <2>4 DEF PathIsWalk, DepList, Given
<1>5. PassedIsVisited'
  <2> SUFFICES ASSUME NEW i \in 1 .. Len(path), NEW k \in 1 .. pos'[i] - 1
               PROVE  \/ DepList(dir, path[i])[k] \in visited
                      \/ i < Len(path) /\ k = pos'[i] - 1
    BY <1>0 DEF PassedIsVisited, DepList, Given
  <2>1. CASE i < Len(path)
    <3>1. i \in 1 .. Len(path) - 1
      BY <1>1, <2>1
    <3>2. pos'[i] = pos[i]
      BY <1>2, <3>1
    <3> QED BY <1>1, <2>1, <3>2 DEF PassedIsVisited
  <2>2. CASE i = Len(path)
    <3>1. pos[Len(path)] \in Nat /\ (k \in 1 .. pos[i] - 1 \/ k = pos[i]) /\ ~(i < i)
      BY <1>1, <1>2, <2>2
    <3>2. CASE k = pos[i]
      BY <1>0, <1>1, <2>2, <3>2 DEF At, Top
    <3>3. CASE k \in 1 .. pos[i] - 1
      BY <1>1, <2>2, <3>1, <3>3 DEF PassedIsVisited
    <3> QED BY <3>1, <3>2, <3>3
  <2> QED BY <1>1, <2>1, <2>2
<1>6. FinishedInOrder' /\ NothingSkipped' /\ CycleIsOne'
  BY <1>0 DEF SearchInv, FinishedInOrder, NothingSkipped, CycleIsOne, DepsOf, DepList, Given
<1> QED BY <1>0, <1>3, <1>4, <1>5, <1>6, SortRests DEF SearchInv

LEMMA EnterStep ==
  ASSUME OrderInv, Enter
  PROVE  OrderInv'
<1> USE DEF OrderInv
<1> DEFINE dep == Dep  n == Len(path)
<1>0. /\ phase = "search" /\ At \in 1 .. Len(DepList(dir, Top))
      /\ dep = DepList(dir, Top)[At] /\ dep \notin visited /\ dep \notin ToSet(path)
      /\ UNCHANGED <<dir, phase, todo, visited, cycle, finished, sortVars>>
  BY DEF Enter, Calls, Dep
<1>1. /\ path \in Seq(Nat) /\ pos \in Seq(Nat) /\ Len(pos) = n /\ n \in Nat \ {0}
      /\ PathIsWalk /\ PassedIsVisited
  BY <1>0 DEF OrderTypeOK, SearchInv, Enter, Calls
<1>2. dep \in Nat /\ \A m : DepList(dir, m) \in Seq(Nat)
  BY <1>0, DirectoryType DEF OrderTypeOK
<1>3. dep \notin visited /\ \A i \in 1 .. n : path[i] # dep
  <2> HIDE DEF dep
  <2>1. DOMAIN path = 1 .. n
    BY <1>1
  <2> QED BY <1>0, <2>1 DEF ToSet
<1>4. /\ path' \in Seq(Nat) /\ Len(path') = n + 1 /\ path'[n + 1] = dep
      /\ \A i \in 1 .. n : path'[i] = path[i]
  BY <1>1, <1>2 DEF Enter
<1>5. /\ pos' \in Seq(Nat) /\ Len(pos') = n + 1 /\ pos'[n + 1] = 1
      /\ pos'[n] = pos[n] + 1
      /\ \A i \in 1 .. n - 1 : pos'[i] = pos[i]
  BY <1>1 DEF Enter
<1>6. At = pos[n] /\ Top = path[n]
  BY <1>1 DEF At, Top
<1> HIDE DEF dep, n
<1>7. OrderTypeOK'
  BY <1>0, <1>4, <1>5 DEF OrderTypeOK, sortVars
<1>8. dep = DepList(dir, path[n])[pos[n]] /\ pos[n] \in 1 .. Len(DepList(dir, path[n]))
  BY <1>0, <1>6
<1>9. DepList(dir, path[n]) \in Seq(Nat) /\ DepList(dir, dep) \in Seq(Nat)
  BY <1>2
<1>10. PathIsWalk'
  <2>0. \A i \in 1 .. n + 1 : i \in 1 .. n \/ i = n + 1
    BY <1>1
  <2>1. \A i, j \in 1 .. n + 1 : path'[i] = path'[j] => i = j
    <3>1. \A i, j \in 1 .. n : path[i] = path[j] => i = j
      BY <1>1 DEF PathIsWalk, n
    <3> QED BY <1>3, <1>4, <2>0, <3>1
  <2>2. \A i \in 1 .. n + 1 : path'[i] \notin visited
    <3>1. \A i \in 1 .. n : path[i] \notin visited
      BY <1>1 DEF PathIsWalk, n
    <3> QED BY <1>3, <1>4, <2>0, <3>1
  <2>3. \A i \in 1 .. n + 1 : pos'[i] \in 1 .. Len(DepList(dir, path'[i])) + 1
    <3> SUFFICES ASSUME NEW i \in 1 .. n + 1
                 PROVE  pos'[i] \in 1 .. Len(DepList(dir, path'[i])) + 1
      OBVIOUS
    <3>1. CASE i < n
      <4>1. i \in 1 .. n - 1 /\ i \in 1 .. n
        BY <1>1, <3>1
      <4> QED BY <1>1, <1>4, <1>5, <4>1 DEF PathIsWalk, n
    <3>2. CASE i = n
      <4>1. path'[i] = path[n] /\ pos'[i] = pos[n] + 1
        BY <1>1, <1>4, <1>5, <3>2
      <4>2. Len(DepList(dir, path[n])) \in Nat
        BY <1>9
      <4> QED BY <1>8, <4>1, <4>2
    <3>3. CASE i = n + 1
      <4>1. path'[i] = dep /\ pos'[i] = 1
        BY <1>4, <1>5, <3>3
      <4>2. Len(DepList(dir, dep)) \in Nat
        BY <1>9
      <4> QED BY <4>1, <4>2
    <3> QED BY <1>1, <3>1, <3>2, <3>3
  <2>4. \A i \in 1 .. n : pos'[i] > 1 /\ path'[i + 1] = DepList(dir, path'[i])[pos'[i] - 1]
    <3> SUFFICES ASSUME NEW i \in 1 .. n
                 PROVE  pos'[i] > 1 /\ path'[i + 1] = DepList(dir, path'[i])[pos'[i] - 1]
      OBVIOUS
    <3>1. CASE i < n
      <4>1. i \in 1 .. n - 1 /\ i + 1 \in 1 .. n
        BY <1>1, <3>1
      <4>2. path'[i + 1] = path[i + 1] /\ path'[i] = path[i] /\ pos'[i] = pos[i]
        BY <1>4, <1>5, <4>1
      <4> QED BY <1>1, <4>1, <4>2 DEF PathIsWalk, n
    <3>2. CASE i = n
      <4>1. path'[i + 1] = dep /\ path'[i] = path[n] /\ pos'[i] = pos[n] + 1
        BY <1>1, <1>4, <1>5, <3>2
      <4> QED BY <1>8, <1>9, <4>1
    <3> QED BY <1>1, <3>1, <3>2
  <2>5. Len(path') - 1 = n
    BY <1>1, <1>4
  <2> QED BY <1>0, <1>4, <2>1, <2>2, <2>3, <2>4, <2>5 DEF PathIsWalk, DepList, Given
<1>11. PassedIsVisited'
  <2> SUFFICES ASSUME NEW i \in 1 .. n + 1, NEW k \in 1 .. pos'[i] - 1
               PROVE  \/ DepList(dir, path'[i])[k] \in visited
                      \/ i < n + 1 /\ k = pos'[i] - 1
    BY <1>0, <1>4 DEF PassedIsVisited, DepList, Given
  <2>1. CASE i < n
    <3>1. i \in 1 .. n - 1 /\ i \in 1 .. n /\ i < n + 1
      BY <1>1, <2>1
    <3>2. path'[i] = path[i] /\ pos'[i] = pos[i]
      BY <1>4, <1>5, <3>1
    <3> QED BY <1>1, <2>1, <3>1, <3>2 DEF PassedIsVisited, n
  <2>2. CASE i = n
    <3>1. /\ i \in 1 .. n /\ ~(n < n) /\ path'[i] = path[n] /\ pos'[i] - 1 = pos[n]
          /\ n < n + 1 /\ k \in 1 .. pos[n] /\ pos[n] \in Nat
      <4>1. i \in 1 .. n /\ ~(n < n) /\ n < n + 1
        BY <1>1, <2>2
      <4>2. pos[n] \in Nat
        BY <1>8, <1>9
      <4>3. path'[i] = path[n] /\ pos'[i] = pos[n] + 1
        BY <1>1, <1>4, <1>5, <2>2
      <4> QED BY <4>1, <4>2, <4>3
    <3>2. CASE k = pos[n]
      BY <2>2, <3>1, <3>2
    <3>3. CASE k \in 1 .. pos[n] - 1
      BY <1>1, <2>2, <3>1, <3>3 DEF PassedIsVisited, n
    <3> QED BY <3>1, <3>2, <3>3
  <2>3. CASE i = n + 1
    BY <1>5, <2>3
  <2> QED BY <1>1, <2>1, <2>2, <2>3
<1>12. NothingSkipped'
  <2>1. ToSet(path) \subseteq ToSet(path')
    BY <1>1, <1>4 DEF ToSet, n
  <2> QED BY <1>0, <2>1 DEF SearchInv, NothingSkipped
<1>13. FinishedInOrder' /\ CycleIsOne'
  BY <1>0 DEF SearchInv, FinishedInOrder, CycleIsOne, DepsOf, DepList, Given
<1> QED BY <1>0, <1>7, <1>10, <1>11, <1>12, <1>13, SortRests DEF SearchInv

(* dfs returns from the name on top: all it depends on has been visited.   *)
LEMMA ReturnStep ==
  ASSUME OrderInv, Return
  PROVE  OrderInv'
<1> USE DEF OrderInv
<1> DEFINE n == Len(path)
<1>1. /\ phase = "search" /\ At > Len(DepList(dir, Top)) /\ visited' = visited \cup {Top}
      /\ finished' = Append(finished, Top)
      /\ UNCHANGED <<dir, phase, todo, cycle, sortVars>>
      /\ path \in Seq(Nat) /\ pos \in Seq(Nat) /\ Len(pos) = n /\ n \in Nat \ {0}
      /\ finished \in Seq(Nat) /\ PathIsWalk /\ PassedIsVisited
  BY DEF Return, OrderTypeOK, SearchInv
<1>2. /\ path' \in Seq(Nat) /\ Len(path') = n - 1 /\ \A i \in 1 .. n - 1 : path'[i] = path[i]
      /\ pos' \in Seq(Nat) /\ Len(pos') = n - 1 /\ \A i \in 1 .. n - 1 : pos'[i] = pos[i]
  <2>1. \A s \in Seq(Nat) : Len(s) = n =>
          /\ Front(s) \in Seq(Nat) /\ Len(Front(s)) = n - 1
          /\ \A i \in 1 .. n - 1 : Front(s)[i] = s[i]
    <3> SUFFICES ASSUME NEW s \in Seq(Nat), Len(s) = n
                 PROVE  /\ Front(s) \in Seq(Nat) /\ Len(Front(s)) = n - 1
                        /\ \A i \in 1 .. n - 1 : Front(s)[i] = s[i]
      OBVIOUS
    <3> HIDE DEF n
    <3> QED BY <1>1 DEF Front
  <2>2. path' = Front(path) /\ pos' = Front(pos)
    BY DEF Return
  <2> QED BY <1>1, <2>1, <2>2
<1>3. At = pos[n] /\ Top = path[n] /\ Top \in Nat /\ pos[n] \in Nat
  BY <1>1 DEF At, Top
<1>4. \A m : DepList(dir, m) \in Seq(Nat)
  BY DirectoryType DEF OrderTypeOK
<1>5. \A x \in DepsOf(dir, Top) : x \in visited
  <2> SUFFICES ASSUME NEW k \in 1 .. Len(DepList(dir, Top))
               PROVE  DepList(dir, Top)[k] \in visited
    BY <1>4 DEF DepsOf, ToSet
  <2>1. k \in 1 .. pos[n] - 1 /\ ~(n < n)
    BY <1>1, <1>3, <1>4
  <2> QED BY <1>1, <1>3, <2>1 DEF PassedIsVisited
<1> HIDE DEF n
<1>6. OrderTypeOK'
  <2>1. visited \in SUBSET Nat
    BY DEF OrderTypeOK
  <2>2. finished' \in Seq(Nat)
    BY <1>1, <1>3
  <2>3. visited' \in SUBSET Nat
    BY <1>1, <1>3, <2>1
  <2> QED BY <1>1, <1>2, <2>2, <2>3 DEF OrderTypeOK, sortVars
<1>7. PathIsWalk'
  <2>0. \A i \in 1 .. n - 1 : i \in 1 .. n /\ i # n
    BY <1>1
  <2>1. \A i \in 1 .. n - 1 : path[i] # Top /\ path[i] \notin visited
    <3>1. n \in 1 .. n
      BY <1>1
    <3> QED BY <1>1, <1>3, <2>0, <3>1 DEF PathIsWalk, n
  <2>2. \A i \in 1 .. n - 1 : path'[i] \notin visited'
    BY <1>1, <1>2, <2>1
  <2>3. \A i \in 1 .. n - 2 :
          pos'[i] > 1 /\ path'[i + 1] = DepList(dir, path'[i])[pos'[i] - 1]
    <3> SUFFICES ASSUME NEW i \in 1 .. n - 2
                 PROVE  pos'[i] > 1 /\ path'[i + 1] = DepList(dir, path'[i])[pos'[i] - 1]
      OBVIOUS
    <3>1. i \in 1 .. n - 1 /\ i + 1 \in 1 .. n - 1
      BY <1>1
    <3>2. path'[i] = path[i] /\ path'[i + 1] = path[i + 1] /\ pos'[i] = pos[i]
      BY <1>2, <3>1
    <3> QED BY <1>1, <3>1, <3>2 DEF PathIsWalk, n
  <2>4. dir' = dir
    BY <1>1
  <2>5. \A i, j \in 1 .. n - 1 : path'[i] = path'[j] => i = j
    BY <1>1, <1>2, <2>0 DEF PathIsWalk, n
  <2>6. \A i \in 1 .. n - 1 : pos'[i] \in 1 .. Len(DepList(dir, path'[i])) + 1
    BY <1>1, <1>2, <2>0 DEF PathIsWalk, n
  <2>7. Len(path') = n - 1 /\ Len(path') - 1 = n - 2
    BY <1>1, <1>2
  <2> QED BY <2>2, <2>3, <2>4, <2>5, <2>6, <2>7 DEF PathIsWalk, DepList, Given
<1>8. PassedIsVisited'
  <2> SUFFICES ASSUME NEW i \in 1 .. n - 1, NEW k \in 1 .. pos[i] - 1
               PROVE  \/ DepList(dir, path[i])[k] \in visited'
                      \/ i < n - 1 /\ k = pos[i] - 1
    BY <1>1, <1>2 DEF PassedIsVisited, DepList, Given
  <2>1. DepList(dir, path[i])[k] \in visited \/ k = pos[i] - 1
    BY <1>1 DEF PassedIsVisited, n
  <2>2. CASE i = n - 1 /\ k = pos[i] - 1
    <3>1. i \in 1 .. n - 1 /\ i + 1 = n
      BY <1>1, <2>2
    <3>2. path[i + 1] = DepList(dir, path[i])[k]
      BY <1>1, <2>2, <3>1 DEF PathIsWalk, n
    <3> QED BY <1>1, <1>3, <3>1, <3>2
  <2> QED BY <1>1, <2>1, <2>2
<1>9. FinishedInOrder'
  <2> DEFINE f == Len(finished)
  <2>1. /\ f \in Nat /\ Len(finished') = f + 1 /\ finished'[f + 1] = Top
        /\ \A k \in 1 .. f : finished'[k] = finished[k]
    BY <1>1, <1>3
  <2>2. ToSet(finished) = visited
    BY <1>1 DEF SearchInv, FinishedInOrder
  <2>3. ToSet(finished') = visited'
    <3>1. /\ DOMAIN finished' = 1 .. f + 1 /\ DOMAIN finished = 1 .. f /\ f + 1 \in 1 .. f + 1
          /\ \A k \in 1 .. f + 1 : k \in 1 .. f \/ k = f + 1
          /\ \A k \in 1 .. f : k \in 1 .. f + 1
      BY <1>1, <1>3, <2>1
    <3> HIDE DEF f
    <3>2. ToSet(finished') = ToSet(finished) \cup {Top}
      BY <2>1, <3>1 DEF ToSet
    <3> QED BY <1>1, <2>2, <3>2
  <2>4. ASSUME NEW k \in 1 .. f + 1, NEW x \in DepsOf(dir, finished'[k])
        PROVE  \E j \in 1 .. k - 1 : finished'[j] = x
    <3>1. CASE k = f + 1
      <4>1. PICK j \in 1 .. f : finished[j] = x
        BY <1>5, <2>1, <2>2, <2>4, <3>1 DEF ToSet
      <4> QED BY <2>1, <3>1, <4>1
    <3>2. CASE k \in 1 .. f
      <4>1. PICK j \in 1 .. k - 1 : finished[j] = x
        BY <2>1, <2>4, <3>2 DEF SearchInv, FinishedInOrder
      <4> QED BY <2>1, <3>2, <4>1
    <3> QED BY <2>1, <3>1, <3>2
  <2> HIDE DEF f
  <2> QED BY <1>1, <2>1, <2>3, <2>4 DEF FinishedInOrder, DepsOf, DepList, Given
<1>10. NothingSkipped'
  <2>1. /\ DOMAIN path = 1 .. n /\ DOMAIN path' = 1 .. n - 1
        /\ \A i \in 1 .. n : i \in 1 .. n - 1 \/ i = n
    <3>1. DOMAIN path = 1 .. n
      BY <1>1 DEF n
    <3>2. DOMAIN path' = 1 .. n - 1
      BY <1>2
    <3>3. \A i \in 1 .. n : i \in 1 .. n - 1 \/ i = n
      BY <1>1
    <3> QED BY <3>1, <3>2, <3>3
  <2>2. ToSet(path) \subseteq ToSet(path') \cup {Top}
    BY <1>2, <1>3, <2>1 DEF ToSet
  <2> QED BY <1>1, <2>2 DEF SearchInv, NothingSkipped
<1>11. CycleIsOne'
  BY <1>1 DEF CycleIsOne
<1> QED BY <1>1, <1>6, <1>7, <1>8, <1>9, <1>10, <1>11, SortRests DEF SearchInv

LEMMA ResolveStep ==
  ASSUME OrderInv, ResolveDag
  PROVE  OrderInv'
<1> USE DEF OrderInv, ResolveDag, searchVars, sortVars
<1>1. OrderTypeOK' /\ CycleIsOne'
  BY DEF OrderTypeOK, CycleIsOne
<1>2. ToSet(path) = {}
  BY DEF ToSet
<1>3. SearchInv'
  BY <1>2 DEF SearchInv, FinishedInOrder, NothingSkipped, DepsOf, DepList, Given
<1> QED BY <1>1, <1>3, SortRests

(* At the end of the search every name of the directory is in the list of  *)
(* those finished, so none of them is in a knot.                           *)
LEMMA NoKnot ==
  ASSUME OrderInv, phase \in {"resolved", "sort", "sorted"}, NEW s \in SUBSET Given(dir)
  PROVE  ~Knot(dir, s)
<1> USE DEF OrderInv
<1> SUFFICES ASSUME s # {} PROVE \E n \in s : DepsOf(dir, n) \cap s = {}
  BY DEF Knot
<1> DEFINE K == {k \in 1 .. Len(finished) : finished[k] \in s}
<1>1. finished \in Seq(Nat) /\ s \subseteq ToSet(finished)
  BY DEF OrderTypeOK, SearchInv, FinishedInOrder, NothingSkipped
<1>2. K \subseteq Nat /\ K # {}
  BY <1>1 DEF ToSet
<1>3. PICK k \in K : \A j \in K : k <= j
  <2> HIDE DEF K, OrderInv
  <2>1. Least(K) \in K /\ \A j \in K : Least(K) <= j
    BY <1>2, LeastIsLeast
  <2> QED BY <2>1
<1>4. DepsOf(dir, finished[k]) \cap s = {}
  <2> SUFFICES ASSUME NEW x \in DepsOf(dir, finished[k]), x \in s
               PROVE  FALSE
    OBVIOUS
  <2>1. k \in 1 .. Len(finished)
    OBVIOUS
  <2>2. PICK j \in 1 .. k - 1 : finished[j] = x
    BY <2>1 DEF SearchInv, FinishedInOrder
  <2>3. j \in 1 .. Len(finished) /\ ~(k <= j)
    BY <1>1, <2>1
  <2> QED BY <1>3, <2>2, <2>3
<1> QED BY <1>4

---------------------------------------------------------------------------
(* The sort. *)

(* While the sort goes on the search rests. *)
LEMMA SearchRests ==
  ASSUME OrderInv, phase \in {"resolved", "sort", "sorted"}, phase' \in {"sort", "sorted"},
         UNCHANGED <<dir, searchVars>>
  PROVE  SearchInv' /\ CycleIsOne'
BY DEF OrderInv, SearchInv, FinishedInOrder, NothingSkipped, CycleIsOne, searchVars,
       DepsOf, DepList, Given

LEMMA StartSortStep ==
  ASSUME OrderInv, StartSort
  PROVE  OrderInv'
<1> USE DEF OrderInv
<1>1. /\ phase = "resolved" /\ phase' = "sort" /\ sorted' = <<>>
      /\ UNCHANGED <<dir, searchVars>>
      /\ chosen' \in SUBSET Given(dir)
      /\ degree' = [n \in chosen' |-> InDegree(dir, chosen', n)]
      /\ queue' = {n \in chosen' : InDegree(dir, chosen', n) = 0}
  BY DEF StartSort
<1>2. \A n : DepList(dir, n) \in Seq(Nat)
  BY DirectoryType DEF OrderTypeOK
<1>3. \A n : InDegree(dir, chosen', n) \in Int
  BY <1>2, OccurrencesType DEF InDegree
<1>4. OrderTypeOK'
  <2>1. UNCHANGED <<dir, todo, path, pos, visited, cycle, finished>>
    BY <1>1 DEF searchVars
  <2>2. sorted' \in Seq(chosen')
    BY <1>1
  <2> QED BY <1>1, <1>3, <2>1, <2>2 DEF OrderTypeOK, Given
<1>5. ToSet(sorted') = {} /\ chosen' \ ToSet(sorted') = chosen'
  BY <1>1 DEF ToSet
<1>6. DegreeCountsTheRest' /\ QueueIsAtZero'
  BY <1>1, <1>5 DEF DegreeCountsTheRest, QueueIsAtZero, InDegree, DepList, Given
<1>7. SortedInOrder'
  BY <1>1 DEF SortedInOrder
<1> QED BY <1>1, <1>4, <1>6, <1>7, SearchRests DEF SortInv

LEMMA TakeStep ==
  ASSUME OrderInv, Take
  PROVE  OrderInv'
<1> USE DEF OrderInv
<1> DEFINE n == Least(queue)
           after(m) == degree[m] - Occurrences(DepList(dir, m), {n})
           rest == chosen \ ToSet(sorted)
           l == Len(sorted)
<1>1. /\ phase = "sort" /\ queue # {} /\ sorted' = Append(sorted, n)
      /\ degree' = [m \in chosen |-> after(m)]
      /\ queue' = (queue \ {n}) \cup {m \in chosen : degree[m] > 0 /\ after(m) = 0}
      /\ UNCHANGED <<dir, phase, chosen, searchVars>>
  BY DEF Take
<1>2. /\ chosen \subseteq Nat /\ \A m : DepList(dir, m) \in Seq(Nat)
      /\ degree \in [chosen -> Int] /\ sorted \in Seq(chosen) /\ queue \subseteq chosen
  BY DirectoryType DEF OrderTypeOK
<1>3. DegreeCountsTheRest /\ QueueIsAtZero /\ SortedInOrder
  BY <1>1 DEF SortInv
<1>4. n \in queue
  BY <1>1, <1>2, LeastIsLeast
<1>5. n \in rest /\ degree[n] = 0
  BY <1>3, <1>4 DEF QueueIsAtZero
<1> HIDE DEF n
<1>6. /\ l \in Nat /\ sorted' \in Seq(chosen) /\ Len(sorted') = l + 1 /\ sorted'[l + 1] = n
      /\ \A i \in 1 .. l : sorted'[i] = sorted[i]
  BY <1>1, <1>2, <1>5
<1>7. /\ ToSet(sorted') = ToSet(sorted) \cup {n}
      /\ chosen \ ToSet(sorted') = rest \ {n}
  <2>1. DOMAIN sorted = 1 .. l /\ DOMAIN sorted' = 1 .. l + 1
    BY <1>2, <1>6
  <2>2. /\ l + 1 \in 1 .. l + 1 /\ \A i \in 1 .. l : i \in 1 .. l + 1
        /\ \A i \in 1 .. l + 1 : i \in 1 .. l \/ i = l + 1
    BY <1>6
  <2> HIDE DEF l
  <2>3. ToSet(sorted') = ToSet(sorted) \cup {n}
    BY <1>6, <2>1, <2>2 DEF ToSet
  <2> QED BY <2>3
<1> HIDE DEF l
<1>8. \A m \in chosen : after(m) = Occurrences(DepList(dir, m), rest \ {n})
  <2> SUFFICES ASSUME NEW m \in chosen
               PROVE  after(m) = Occurrences(DepList(dir, m), rest \ {n})
    OBVIOUS
  <2>1. degree[m] = Occurrences(DepList(dir, m), rest)
    BY <1>3 DEF DegreeCountsTheRest
  <2> HIDE DEF rest
  <2> QED BY <1>2, <1>5, <2>1, OccurrencesWithout
<1>9. \A m \in chosen : after(m) \in Nat /\ degree[m] \in Nat /\ after(m) <= degree[m]
  <2>1. \A m \in chosen : Occurrences(DepList(dir, m), {n}) \in Nat
    BY <1>2, OccurrencesType
  <2>2. \A m \in chosen : after(m) \in Nat /\ degree[m] \in Nat
    BY <1>2, <1>3, <1>8, OccurrencesType DEF DegreeCountsTheRest
  <2> QED BY <2>1, <2>2
<1>10. DegreeCountsTheRest'
  <2>1. dir' = dir /\ chosen' = chosen /\ \A m \in chosen : degree'[m] = after(m)
    BY <1>1
  <2> QED BY <1>7, <1>8, <2>1 DEF DegreeCountsTheRest, DepList, Given
<1>11. ASSUME NEW m \in ToSet(sorted) \cap chosen
       PROVE  degree[m] = 0
  <2>1. PICK i \in 1 .. Len(sorted) : sorted[i] = m
    BY <1>2, <1>11 DEF ToSet
  <2>2. \A x \in DepsOf(dir, m) \cap chosen : x \in ToSet(sorted)
    BY <1>2, <1>3, <2>1 DEF SortedInOrder, ToSet
  <2>3. ToSet(DepList(dir, m)) \cap rest = {}
    BY <2>2 DEF DepsOf
  <2> QED BY <1>2, <1>3, <2>3, NoOccurrence DEF DegreeCountsTheRest
<1>12. QueueIsAtZero'
  <2>1. \A m \in chosen : m \in queue <=> m \in rest /\ degree[m] = 0
    BY <1>3 DEF QueueIsAtZero
  <2>2. \A m \in chosen : m \in queue' <=> m \in rest \ {n} /\ after(m) = 0
    <3> HIDE DEF after, rest
    <3> SUFFICES ASSUME NEW m \in chosen
                 PROVE  m \in queue' <=> m \in rest \ {n} /\ after(m) = 0
      OBVIOUS
    <3>1. m \notin rest => degree[m] = 0
      BY <1>11 DEF rest
    <3>2. degree[m] = 0 \/ degree[m] > 0
      BY <1>9
    <3>3. degree[m] = 0 => after(m) = 0 /\ ~(degree[m] > 0)
      BY <1>9
    <3> QED BY <1>1, <1>5, <2>1, <3>1, <3>2, <3>3
  <2>3. \A m \in chosen : degree'[m] = after(m)
    BY <1>1
  <2>4. queue' \subseteq chosen
    BY <1>1, <1>2
  <2>5. chosen' = chosen
    BY <1>1
  <2> QED BY <1>7, <2>2, <2>3, <2>4, <2>5 DEF QueueIsAtZero
<1>13. SortedInOrder'
  <2>1. \A i \in 1 .. l + 1 : i \in 1 .. l \/ i = l + 1
    BY <1>6
  <2>2. \A i \in 1 .. l : sorted[i] # n
    <3>1. DOMAIN sorted = 1 .. l
      BY <1>2 DEF l
    <3> QED BY <1>5, <3>1 DEF ToSet
  <2>3. \A i, j \in 1 .. l + 1 : sorted'[i] = sorted'[j] => i = j
    <3>1. \A i, j \in 1 .. l : sorted[i] = sorted[j] => i = j
      BY <1>3 DEF SortedInOrder, l
    <3> QED BY <1>6, <2>1, <2>2, <3>1
  <2>4. ASSUME NEW i \in 1 .. l + 1, NEW x \in DepsOf(dir, sorted'[i]) \cap chosen
        PROVE  \E j \in 1 .. i - 1 : sorted'[j] = x
    <3>1. CASE i \in 1 .. l
      <4>1. PICK j \in 1 .. i - 1 : sorted[j] = x
        BY <1>3, <1>6, <2>4, <3>1 DEF SortedInOrder, l
      <4>2. j \in 1 .. l
        BY <1>6, <3>1
      <4> QED BY <1>6, <4>1, <4>2
    <3>2. CASE i = l + 1
      <4>1. x \in DepsOf(dir, n) /\ x \in chosen
        BY <1>6, <2>4, <3>2
      <4>2. ToSet(DepList(dir, n)) \cap rest = {}
        BY <1>2, <1>3, <1>5, NoOccurrence DEF DegreeCountsTheRest
      <4>3. x \in ToSet(sorted)
        BY <4>1, <4>2 DEF DepsOf
      <4>4. PICK j \in 1 .. l : sorted[j] = x
        BY <1>2, <4>3 DEF ToSet, l
      <4>5. j \in 1 .. i - 1
        BY <1>6, <3>2
      <4> QED BY <1>6, <4>4, <4>5
    <3> QED BY <2>1, <3>1, <3>2
  <2> QED BY <1>1, <1>6, <2>3, <2>4 DEF SortedInOrder, DepsOf, DepList, Given
<1>14. OrderTypeOK'
  <2>1. UNCHANGED <<dir, todo, path, pos, visited, cycle, finished, chosen, phase>>
    BY <1>1 DEF searchVars
  <2>2. degree' \in [chosen -> Int]
    <3> HIDE DEF after
    <3> QED BY <1>1, <1>9
  <2>3. queue' \subseteq chosen
    BY <1>1, <1>2
  <2> QED BY <1>6, <2>1, <2>2, <2>3 DEF OrderTypeOK, Given
<1> QED BY <1>1, <1>10, <1>12, <1>13, <1>14, SearchRests DEF SortInv

LEMMA EndSortStep ==
  ASSUME OrderInv, EndSort
  PROVE  OrderInv'
<1> USE DEF OrderInv, EndSort
<1>1. OrderTypeOK'
  BY DEF OrderTypeOK, searchVars, sortVars, Given
<1>2. SortInv'
  BY DEF SortInv, DegreeCountsTheRest, QueueIsAtZero, SortedInOrder, sortVars,
         DepsOf, DepList, Given
<1> QED BY <1>1, <1>2, SearchRests

LEMMA OrderStutter ==
  ASSUME OrderInv, UNCHANGED orderVars
  PROVE  OrderInv'
<1> USE DEF OrderInv, orderVars, searchVars, sortVars
<1>1. OrderTypeOK'
  BY DEF OrderTypeOK, Given
<1>2. SearchInv'
  BY DEF SearchInv, PathIsWalk, PassedIsVisited, FinishedInOrder, NothingSkipped,
         DepsOf, DepList, Given
<1>3. CycleIsOne'
  BY DEF CycleIsOne, DepsOf, DepList, Given
<1>4. DegreeCountsTheRest <=> DegreeCountsTheRest'
  BY DEF DegreeCountsTheRest, DepList, Given
<1>5. SortedInOrder <=> SortedInOrder'
  BY DEF SortedInOrder, DepsOf, DepList, Given
<1>6. SortInv'
  BY <1>4, <1>5 DEF SortInv, QueueIsAtZero
<1> QED BY <1>1, <1>2, <1>3, <1>6

(* OrderInv is an inductive invariant. *)
THEOREM OrderInvariant == OrderSpec => []OrderInv
<1>1. OrderInv /\ [OrderNext]_orderVars => OrderInv'
  BY BeginStep, CycleStep, SkipStep, EnterStep, ReturnStep, ResolveStep, StartSortStep,
     TakeStep, EndSortStep, OrderStutter DEF OrderNext
<1> QED BY <1>1, OrderInvInit, PTL DEF OrderSpec

(* Every state of a plan directory in order has the types of OrderTypeOK   *)
(* (rptor.py:370-473).                                                     *)
THEOREM OrderTypes == OrderSpec => []OrderTypeOK
BY OrderInvariant, PTL DEF OrderInv

(* Among specs that no knot holds back there is one whose dependencies are *)
(* all done.                                                               *)
LEMMA SomethingIsReady ==
  ASSUME dir \in Directories, \A s \in SUBSET Given(dir) : ~Knot(dir, s),
         \A n \in Given(dir) : DepsOf(dir, n) \subseteq Given(dir),
         NEW done \in SUBSET Given(dir), done # Given(dir)
  PROVE  \E n \in DOMAIN Autotriage(After(dir, done)) : Bucket(After(dir, done), n) = "ready"
<1> DEFINE d == After(dir, done)
<1>1. /\ Given(d) = Given(dir)
      /\ \A n \in Given(dir) : /\ d[n].status = IF n \in done THEN "done" ELSE "ready"
                               /\ d[n].deps = dir[n].deps
  BY OrderAssumption DEF After, Given, Parsed
<1> HIDE DEF d
<1>2. PICK n \in Given(dir) \ done : DepsOf(dir, n) \cap (Given(dir) \ done) = {}
  BY DEF Knot
<1>3. DoneNames(d) = done
  BY <1>1 DEF DoneNames
<1>4. DepsOf(d, n) \subseteq done
  BY <1>1, <1>2 DEF DepsOf, DepList
<1>5. Dispatchable(d, n) /\ d[n].status = "ready"
  BY <1>1, <1>2, <1>3, <1>4 DEF Dispatchable
<1>6. n \in DOMAIN Autotriage(d)
  BY <1>1, <1>5 DEF Autotriage
<1>7. Bucket(d, n) = "ready"
  BY <1>5 DEF Bucket
<1> QED BY <1>6, <1>7 DEF d

(* Whatever the directory holds, it is refused just when its specs have a  *)
(* cycle, with a cycle as the reason, and a directory that is resolved     *)
(* always has something ready while work is left (rptor.py:370-434).       *)
THEOREM SearchIsExact == OrderSpec => []CycleFoundIffExists
<1>1. ASSUME OrderInv
      PROVE  CycleFoundIffExists
  <2>1. ASSUME phase = "refused"
        PROVE  /\ Len(cycle) > 1 /\ cycle[1] = cycle[Len(cycle)] /\ Knot(dir, ToSet(cycle))
               /\ \A i \in 1 .. Len(cycle) - 1 : cycle[i + 1] \in DepsOf(dir, cycle[i])
    <3>1. /\ Len(cycle) > 1 /\ cycle[1] = cycle[Len(cycle)] /\ cycle \in Seq(Nat)
          /\ \A i \in 1 .. Len(cycle) - 1 : cycle[i + 1] \in DepsOf(dir, cycle[i])
      BY <1>1, <2>1 DEF OrderInv, CycleIsOne, OrderTypeOK
    <3>2. DOMAIN cycle = 1 .. Len(cycle) /\ 1 \in 1 .. Len(cycle) /\ 1 \in 1 .. Len(cycle) - 1
      BY <3>1
    <3>3. \A i \in 1 .. Len(cycle) - 1 : DepsOf(dir, cycle[i]) \cap ToSet(cycle) # {}
      <4> TAKE i \in 1 .. Len(cycle) - 1
      <4>1. i + 1 \in 1 .. Len(cycle)
        BY <3>1
      <4> QED BY <3>1, <3>2, <4>1 DEF ToSet
    <3>4. \A n \in ToSet(cycle) : \E i \in 1 .. Len(cycle) - 1 : n = cycle[i]
      <4> TAKE n \in ToSet(cycle)
      <4>1. PICK i \in 1 .. Len(cycle) : cycle[i] = n
        BY <3>2 DEF ToSet
      <4>2. i \in 1 .. Len(cycle) - 1 \/ i = Len(cycle)
        BY <3>1
      <4> QED BY <3>1, <3>2, <4>1, <4>2
    <3>5. ToSet(cycle) # {}
      BY <3>2 DEF ToSet
    <3> QED BY <3>1, <3>3, <3>4, <3>5 DEF Knot
  <2>2. ASSUME phase = "resolved"
        PROVE  /\ dir \in Directories
               /\ \A s \in SUBSET Given(dir) : ~Knot(dir, s)
    BY <1>1, <2>2, NoKnot DEF OrderInv, OrderTypeOK
  <2>3. ASSUME phase = "resolved", \A n \in Given(dir) : DepsOf(dir, n) \subseteq Given(dir),
               NEW done \in (SUBSET Given(dir)) \ {Given(dir)}
        PROVE  \E n \in DOMAIN Autotriage(After(dir, done)) :
                 Bucket(After(dir, done), n) = "ready"
    <3>1. done \in SUBSET Given(dir) /\ done # Given(dir)
      BY <2>3
    <3>2. dir \in Directories /\ \A s \in SUBSET Given(dir) : ~Knot(dir, s)
      BY <2>2, <2>3
    <3> QED BY <2>3, <3>1, <3>2, SomethingIsReady
  <2> QED BY <2>1, <2>2, <2>3 DEF CycleFoundIffExists
<1> QED BY <1>1, OrderInvariant, PTL

(* Whatever is chosen from a directory without a cycle, the sort gives all *)
(* of it, once each, dependencies first (rptor.py:442-473).                *)
THEOREM SortIsComplete == OrderSpec => []SortRespectsGraph
<1>1. ASSUME OrderInv
      PROVE  SortRespectsGraph
  <2>1. CASE phase \notin {"sort", "sorted"}
    BY <1>1, <2>1 DEF OrderInv, SortInv, SortRespectsGraph
  <2>2. CASE phase \in {"sort", "sorted"}
    <3>1. /\ DegreeCountsTheRest /\ QueueIsAtZero /\ SortedInOrder
          /\ phase = "sorted" => queue = {}
          /\ chosen \in SUBSET Given(dir) /\ sorted \in Seq(chosen)
          /\ \A n : DepList(dir, n) \in Seq(Nat)
      BY <1>1, <2>2, DirectoryType DEF OrderInv, SortInv, OrderTypeOK
    <3>2. ASSUME NEW i \in 1 .. Len(sorted), NEW j \in 1 .. Len(sorted), i < j
          PROVE  sorted[i] # sorted[j] /\ sorted[j] \notin DepsOf(dir, sorted[i])
      <4>1. sorted[i] # sorted[j]
        BY <3>1, <3>2 DEF SortedInOrder
      <4>2. ASSUME sorted[j] \in DepsOf(dir, sorted[i])
            PROVE  FALSE
        <5>1. sorted[j] \in chosen
          BY <3>1
        <5>2. PICK k \in 1 .. i - 1 : sorted[k] = sorted[j]
          BY <3>1, <4>2, <5>1 DEF SortedInOrder
        <5>3. k \in 1 .. Len(sorted) /\ k # j
          BY <3>1, <3>2
        <5> QED BY <3>1, <5>2, <5>3 DEF SortedInOrder
      <4> QED BY <4>1, <4>2
    <3>3. ASSUME phase = "sorted"
          PROVE  ToSet(sorted) = chosen
      <4>1. ToSet(sorted) \subseteq chosen
        BY <3>1 DEF ToSet
      <4> DEFINE rest == chosen \ ToSet(sorted)
      <4>2. ~Knot(dir, rest)
        BY <1>1, <2>2, <3>1, NoKnot
      <4>3. \A n \in rest : DepsOf(dir, n) \cap rest # {}
        <5> TAKE n \in rest
        <5>1. degree[n] # 0 /\ degree[n] = Occurrences(DepList(dir, n), rest)
          BY <3>1, <3>3 DEF QueueIsAtZero, DegreeCountsTheRest
        <5> QED BY <3>1, <5>1, NoOccurrence DEF DepsOf
      <4> QED BY <4>1, <4>2, <4>3 DEF Knot
    <3> QED BY <3>2, <3>3 DEF SortRespectsGraph
  <2> QED BY <2>1, <2>2
<1> QED BY <1>1, OrderInvariant, PTL

---------------------------------------------------------------------------
(* Reading a file, a line at a time. *)

(* What has been read after a line comes of what had been read before it.  *)
LEMMA ReadingUnfolds ==
  ASSUME NEW f \in Seq(Line)
  PROVE  /\ Reading(f)[0] = Unread
         /\ \A i \in 1 .. Len(f) : Reading(f)[i] = ReadLine(f, Reading(f)[i - 1], i)
<1> DEFINE step(a, i) == IF i = 0 THEN Unread ELSE ReadLine(f, a[i - 1], i)
           upto(a, n) == a = [i \in 0 .. n |-> step(a, i)]
           missing == {n \in 0 .. Len(f) : ~\E a : upto(a, n)}
<1>1. Len(f) \in Nat
  OBVIOUS
<1>2. missing = {}
  <2>1. SUFFICES ASSUME missing # {} PROVE FALSE
    OBVIOUS
  <2>2. missing \in SUBSET Nat
    BY <1>1
  <2>3. PICK n \in missing : \A m \in missing : n <= m
    <3> HIDE DEF missing
    <3> QED BY <2>1, <2>2, LeastIsLeast
  <2>4. CASE n = 0
    <3>1. upto([i \in 0 .. 0 |-> Unread], 0)
      OBVIOUS
    <3> QED BY <2>3, <2>4, <3>1
  <2>5. CASE n # 0
    <3>1. n \in 0 .. Len(f) /\ n - 1 \in 0 .. Len(f) /\ ~(n <= n - 1)
      BY <2>3, <2>5, <1>1
    <3>2. n - 1 \notin missing
      <4> HIDE DEF missing
      <4> QED BY <2>3, <3>1
    <3>3. PICK a : upto(a, n - 1)
      BY <3>1, <3>2
    <3> DEFINE b == [i \in 0 .. n |-> step(a, i)]
    <3> HIDE DEF step
    <3>4. \A i \in 0 .. n - 1 : b[i] = a[i]
      BY <3>3, <2>3, <1>1
    <3>5. \A i \in 0 .. n : step(a, i) = step(b, i)
      <4>1. \A i \in 0 .. n : i # 0 => i - 1 \in 0 .. n - 1
        BY <2>3, <1>1
      <4> HIDE DEF b
      <4> QED BY <4>1, <3>4 DEF step
    <3>6. upto(b, n)
      BY <3>5
    <3> QED BY <3>6, <2>3
  <2> QED BY <2>4, <2>5
<1>3. upto(Reading(f), Len(f))
  <2>1. \E a : upto(a, Len(f))
    BY <1>1, <1>2
  <2> QED BY <2>1 DEF Reading
<1> HIDE DEF step
<1>4. \A i \in 0 .. Len(f) : Reading(f)[i] = step(Reading(f), i)
  BY <1>3
<1> QED BY <1>1, <1>4 DEF step

---------------------------------------------------------------------------
(* One line. *)

(* What the reader holds has its fields, the list that is open and the     *)
(* lines to be skipped.                                                    *)
Shaped(a) ==
  /\ a = [fields |-> a.fields, open |-> a.open, skip |-> a.skip]
  /\ a.skip \in Nat

(* The lines that follow are the longest run of such lines.                *)
InRun(f, i, kinds, j) == j <= Len(f) /\ f[j].at > f[i].at /\ f[j].kind \in kinds

RunIs(f, i, kinds, s) ==
  /\ s \in 0 .. Len(f) - i
  /\ \A j \in i + 1 .. i + s : InRun(f, i, kinds, j)
  /\ ~InRun(f, i, kinds, i + s + 1)

LinesAfter(f, i, s) == [j \in 1 .. s |-> f[i + j]]

(* And there is one such run, the one that Following takes.                *)
LEMMA FollowingUnique ==
  ASSUME NEW f \in Seq(Line), NEW i \in 1 .. Len(f), NEW kinds, NEW s, RunIs(f, i, kinds, s)
  PROVE  Following(f, i, kinds) = LinesAfter(f, i, s)
<1> DEFINE Fits(n) == (\A j \in i + 1 .. i + n : InRun(f, i, kinds, j)) /\ ~InRun(f, i, kinds, i + n + 1)
<1>1. Fits(s) /\ s \in 0 .. Len(f) - i
  BY DEF RunIs
<1>2. \A n \in 0 .. Len(f) - i : Fits(n) => n = s
  <2> SUFFICES ASSUME NEW n \in 0 .. Len(f) - i, Fits(n) PROVE n = s
    OBVIOUS
  <2>1. n \in Nat /\ s \in Nat /\ i \in Nat /\ Len(f) \in Nat
    BY <1>1
  <2>2. ~(n < s)
    <3>1. n < s => i + n + 1 \in i + 1 .. i + s
      BY <2>1
    <3> QED BY <3>1, <1>1
  <2>3. ~(s < n)
    <3>1. s < n => i + s + 1 \in i + 1 .. i + n
      BY <2>1
    <3> QED BY <3>1, <1>1
  <2> QED BY <2>1, <2>2, <2>3
<1> DEFINE found == CHOOSE n \in 0 .. Len(f) - i : Fits(n)
<1>3. Following(f, i, kinds) = [j \in 1 .. found |-> f[i + j]]
  BY DEF Following, InRun
<1> HIDE DEF Fits
<1>4. found = s
  BY <1>1, <1>2
<1> QED BY <1>3, <1>4 DEF LinesAfter

LEMMA FollowingIs ==
  ASSUME NEW f \in Seq(Line), NEW i \in 1 .. Len(f), NEW kinds
  PROVE  \E s : /\ RunIs(f, i, kinds, s)
               /\ Following(f, i, kinds) = LinesAfter(f, i, s)
               /\ Len(Following(f, i, kinds)) = s
<1> DEFINE Over == {n \in 0 .. Len(f) - i : ~InRun(f, i, kinds, i + n + 1)}
<1>1. Len(f) - i \in Over /\ Over \subseteq Nat
  BY DEF InRun
<1> DEFINE s == Least(Over)
<1>2. s \in Over /\ \A m \in Over : s <= m
  <2> HIDE DEF Over
  <2> QED BY <1>1, LeastIsLeast
<1> HIDE DEF s
<1>3. s \in 0 .. Len(f) - i /\ ~InRun(f, i, kinds, i + s + 1)
  BY <1>2
<1>4. \A j \in i + 1 .. i + s : InRun(f, i, kinds, j)
  <2> TAKE j \in i + 1 .. i + s
  <2>1. j - i - 1 \in 0 .. Len(f) - i /\ i + (j - i - 1) + 1 = j /\ ~(s <= j - i - 1)
    BY <1>3
  <2>2. j - i - 1 \notin Over
    <3> HIDE DEF Over
    <3> QED BY <1>2, <2>1
  <2> QED BY <2>1, <2>2
<1>5. RunIs(f, i, kinds, s)
  BY <1>3, <1>4 DEF RunIs
<1>6. Following(f, i, kinds) = LinesAfter(f, i, s)
  BY <1>5, FollowingUnique
<1>7. Len(Following(f, i, kinds)) = s
  BY <1>3, <1>6 DEF LinesAfter
<1> QED BY <1>5, <1>6, <1>7

(* What reading a line does. *)
LEMMA LineRead ==
  ASSUME NEW f \in Seq(Line), NEW i \in 1 .. Len(f), NEW a, Shaped(a)
  PROVE  LET b == ReadLine(f, a, i)
         IN /\ Shaped(b)
            /\ a.skip > 0 => b.fields = a.fields /\ b.open = a.open /\ b.skip = a.skip - 1
            /\ a.skip = 0 /\ f[i].kind = "key" /\ Under(f, i) = "item" =>
                 /\ b.open = f[i].key /\ b.skip = 0
                 /\ b.fields = With(a.fields, f[i].key, Scalar(NoValue))
            /\ a.skip = 0 /\ f[i].kind = "key" /\ Under(f, i) = "key" =>
                 /\ b.open = a.open /\ b.skip = Len(Block(f, i))
                 /\ b.fields = With(a.fields, f[i].key, Children(Block(f, i)))
            /\ a.skip = 0 /\ f[i].kind = "key" /\ Under(f, i) \notin {"item", "key"} =>
                 /\ b.open = NoValue /\ b.skip = 0
                 /\ b.fields = With(a.fields, f[i].key, Scalar(f[i].val))
            /\ a.skip = 0 /\ f[i].kind = "item" =>
                 b.open = a.open /\ b.skip = 0 /\ b.fields = ReadItem(a.fields, a.open, f[i].val)
            /\ a.skip = 0 /\ f[i].kind = "blank" => b = a
<1>1. a.skip > 0 => ReadLine(f, a, i) = [fields |-> a.fields, open |-> a.open, skip |-> a.skip - 1]
  BY DEF ReadLine, Shaped
<1>2. ASSUME a.skip = 0, f[i].kind = "item"
      PROVE  ReadLine(f, a, i) = [fields |-> ReadItem(a.fields, a.open, f[i].val), open |-> a.open, skip |-> 0]
  <2>1. ReadLine(f, a, i) = [a EXCEPT !.fields = ReadItem(@, a.open, f[i].val)]
    BY <1>2 DEF ReadLine
  <2> QED BY <1>2, <2>1 DEF Shaped
<1>3. ASSUME a.skip = 0, f[i].kind = "blank" PROVE ReadLine(f, a, i) = a
  BY <1>3 DEF ReadLine
<1>4. ASSUME a.skip = 0, f[i].kind = "key", Under(f, i) = "item"
      PROVE  ReadLine(f, a, i) = [fields |-> With(a.fields, f[i].key, Scalar(NoValue)), open |-> f[i].key, skip |-> 0]
  <2>1. ReadLine(f, a, i) = [a EXCEPT !.fields = With(@, f[i].key, Scalar(NoValue)), !.open = f[i].key]
    BY <1>4 DEF ReadLine, ReadKey
  <2> QED BY <1>4, <2>1 DEF Shaped
<1>5. ASSUME a.skip = 0, f[i].kind = "key", Under(f, i) = "key"
      PROVE  ReadLine(f, a, i) = [fields |-> With(a.fields, f[i].key, Children(Block(f, i))), open |-> a.open,
                                  skip |-> Len(Block(f, i))]
  <2>1. ReadLine(f, a, i) = [a EXCEPT !.fields = With(@, f[i].key, Children(Block(f, i))), !.skip = Len(Block(f, i))]
    BY <1>5 DEF ReadLine, ReadKey
  <2> QED BY <1>5, <2>1 DEF Shaped
<1>6. ASSUME a.skip = 0, f[i].kind = "key", Under(f, i) \notin {"item", "key"}
      PROVE  ReadLine(f, a, i) = [fields |-> With(a.fields, f[i].key, Scalar(f[i].val)), open |-> NoValue, skip |-> 0]
  <2>1. ReadLine(f, a, i) = [a EXCEPT !.fields = With(@, f[i].key, Scalar(f[i].val)), !.open = NoValue]
    BY <1>6 DEF ReadLine, ReadKey
  <2> QED BY <1>6, <2>1 DEF Shaped
<1>7. Len(Block(f, i)) \in Nat
  BY FollowingIs DEF Block, RunIs
<1>8. f[i] \in Line
  OBVIOUS
<1>9. f[i].kind \in {"key", "item", "blank"} /\ a.skip \in Nat
  BY <1>8 DEF Line, Shaped
<1>10. ASSUME NEW x, NEW y, NEW z \in Nat PROVE Shaped([fields |-> x, open |-> y, skip |-> z])
  BY DEF Shaped
<1>11. CASE a.skip > 0
  <2>1. Shaped(ReadLine(f, a, i))
    <3>1. a.skip - 1 \in Nat
      BY <1>9, <1>11
    <3> QED BY <1>1, <1>10, <1>11, <3>1
  <2>2. ~(a.skip = 0)
    BY <1>9, <1>11
  <2> QED BY <1>1, <1>11, <2>1, <2>2
<1>12. CASE a.skip = 0 /\ f[i].kind = "item"
  BY <1>2, <1>10, <1>12
<1>13. CASE a.skip = 0 /\ f[i].kind = "blank"
  BY <1>3, <1>13
<1>14. CASE a.skip = 0 /\ f[i].kind = "key" /\ Under(f, i) = "item"
  <2>1. Shaped(ReadLine(f, a, i))
    BY <1>4, <1>10, <1>14
  <2> QED BY <1>4, <1>14, <2>1
<1>15. CASE a.skip = 0 /\ f[i].kind = "key" /\ Under(f, i) = "key"
  BY <1>5, <1>7, <1>10, <1>15
<1>16. CASE a.skip = 0 /\ f[i].kind = "key" /\ Under(f, i) \notin {"item", "key"}
  <2>1. Shaped(ReadLine(f, a, i))
    BY <1>6, <1>10, <1>16
  <2> QED BY <1>6, <1>16, <2>1
<1>17. a.skip > 0 \/ a.skip = 0
  BY <1>9
<1> QED BY <1>9, <1>11, <1>12, <1>13, <1>14, <1>15, <1>16, <1>17

---------------------------------------------------------------------------
(* Two files read beside each other. *)

(* What two readers have found agrees off one field. *)
Agree(r, t, k) ==
  /\ DOMAIN r \ {k} = DOMAIN t \ {k}
  /\ \A x \in DOMAIN r \ {k} : r[x] = t[x]

LEMMA WithAgree ==
  ASSUME NEW r, NEW t, NEW k, NEW x, NEW v, Agree(r, t, k)
  PROVE  Agree(With(r, x, v), With(t, x, v), k)
BY DEF Agree, With

LEMMA WithItself ==
  ASSUME NEW r, NEW t, NEW k, NEW v, NEW w, Agree(r, t, k)
  PROVE  /\ Agree(With(r, k, v), With(t, k, w), k)
         /\ Agree(With(r, k, v), t, k)
BY DEF Agree, With

(* Lines 1 .. i of f have become lines 1 .. c[i] of g: every line is the   *)
(* same, or both are the field k, or the field k and gone.                 *)
Carries(f, g, c, k) ==
  /\ c \in [0 .. Len(f) -> 0 .. Len(g)] /\ c[0] = 0 /\ c[Len(f)] = Len(g)
  /\ \A i \in 1 .. Len(f) :
       \/ /\ c[i] = c[i - 1] + 1
          /\ g[c[i]] = f[i] \/ (IsField(f, i, k) /\ IsField(g, c[i], k))
       \/ c[i] = c[i - 1] /\ IsField(f, i, k)

LEMMA CarriesLine ==
  ASSUME NEW f \in Seq(Line), NEW g \in Seq(Line), NEW c, NEW k, Carries(f, g, c, k),
         NEW i \in 1 .. Len(f)
  PROVE  /\ i - 1 \in 0 .. Len(f) /\ i \in 0 .. Len(f)
         /\ c[i - 1] \in 0 .. Len(g) /\ c[i] \in 0 .. Len(g)
         /\ f[i] \in Line
         /\ c[i] = c[i - 1] \/ c[i] = c[i - 1] + 1
         /\ c[i] = c[i - 1] => IsField(f, i, k)
         /\ ~IsField(f, i, k) => c[i] = c[i - 1] + 1 /\ g[c[i]] = f[i]
         /\ c[i] = c[i - 1] + 1 =>
              /\ c[i] \in 1 .. Len(g)
              /\ g[c[i]].at = f[i].at /\ g[c[i]].kind = f[i].kind /\ g[c[i]].key = f[i].key
<1>1. i - 1 \in 0 .. Len(f) /\ i \in 0 .. Len(f) /\ f[i] \in Line
  OBVIOUS
<1>2. c[i - 1] \in 0 .. Len(g) /\ c[i] \in 0 .. Len(g)
  BY <1>1 DEF Carries
<1>3. \/ /\ c[i] = c[i - 1] + 1
         /\ g[c[i]] = f[i] \/ (IsField(f, i, k) /\ IsField(g, c[i], k))
      \/ c[i] = c[i - 1] /\ IsField(f, i, k)
  BY DEF Carries
<1>4. c[i] # c[i - 1] + 1 \/ c[i] # c[i - 1]
  BY <1>2
<1>5. c[i] = c[i - 1] + 1 => c[i] \in 1 .. Len(g)
  BY <1>2
<1> QED BY <1>1, <1>2, <1>3, <1>4, <1>5 DEF IsField

(* In a tidy file a field of the lifecycle is plain. *)
LEMMA TidyField ==
  ASSUME NEW f \in Seq(Line), Tidy(f), NEW k \in Lifecycle, NEW i \in 1 .. Len(f), f[i].key = k
  PROVE  /\ IsField(f, i, k) /\ f[i].val # NoValue /\ f[i].at = 0 /\ f[i].kind = "key"
         /\ i < Len(f) => f[i + 1].kind = "key" /\ f[i + 1].at = 0
BY DEF Tidy, FieldPlain, IsField

(* A line stays or goes, and goes only as a line of the field.             *)
Carried(f, g, c, k, i) ==
  /\ c[i] = c[i - 1] \/ c[i] = c[i - 1] + 1
  /\ c[i] = c[i - 1] => IsField(f, i, k)
  /\ c[i] = c[i - 1] + 1 =>
       c[i] \in 1 .. Len(g) /\ g[c[i]].at = f[i].at /\ g[c[i]].kind = f[i].kind

LEMMA EachCarried ==
  ASSUME NEW f \in Seq(Line), NEW g \in Seq(Line), NEW c, NEW k, Carries(f, g, c, k),
         NEW i \in 1 .. Len(f)
  PROVE  Carried(f, g, c, k, i)
BY CarriesLine DEF Carried

(* What comes after a field that is gone is a field at the margin.         *)
LEMMA AfterGone ==
  ASSUME NEW f \in Seq(Line), NEW g \in Seq(Line), NEW c, NEW k \in Lifecycle,
         Carries(f, g, c, k), Tidy(f), NEW i \in 1 .. Len(f), IsField(f, i, k), c[i] < Len(g)
  PROVE  g[c[i] + 1].at = 0 /\ g[c[i] + 1].kind = "key"
<1> DEFINE Bad(j) == /\ IsField(f, j, k) /\ c[j] < Len(g)
                     /\ ~(g[c[j] + 1].at = 0 /\ g[c[j] + 1].kind = "key")
           bad == {n \in 0 .. Len(f) - 1 : Bad(Len(f) - n)}
<1>1. Len(f) \in Nat /\ Len(g) \in Nat /\ bad \in SUBSET Nat
  OBVIOUS
<1>2. bad = {}
  <2>1. SUFFICES ASSUME bad # {} PROVE FALSE
    OBVIOUS
  <2>2. PICK n \in bad : \A m \in bad : n <= m
    <3> HIDE DEF bad
    <3> QED BY <2>1, <1>1, LeastIsLeast
  <2> DEFINE j == Len(f) - n
  <2>3. j \in 1 .. Len(f) /\ n \in Nat /\ Bad(j)
    BY <2>2, <1>1
  <2> HIDE DEF bad
  <2>4. c[Len(f)] = Len(g)
    BY DEF Carries
  <2>5. j < Len(f) /\ j + 1 \in 1 .. Len(f) /\ (j + 1) - 1 = j
    BY <2>3, <2>4, <1>1
  <2>6. f[j + 1].kind = "key" /\ f[j + 1].at = 0
    BY <2>3, <2>5, TidyField DEF IsField
  <2>7. /\ c[j + 1] = c[j] \/ c[j + 1] = c[j] + 1
        /\ c[j + 1] = c[j] => IsField(f, j + 1, k)
        /\ c[j + 1] = c[j] + 1 => g[c[j + 1]].at = f[j + 1].at /\ g[c[j + 1]].kind = f[j + 1].kind
    <3> DEFINE m == j + 1
    <3>1. m \in 1 .. Len(f) /\ m - 1 = j
      BY <2>5
    <3> HIDE DEF m
    <3>2. Carried(f, g, c, k, m)
      BY <3>1, EachCarried
    <3>3. /\ c[m] = c[m - 1] \/ c[m] = c[m - 1] + 1
          /\ c[m] = c[m - 1] => IsField(f, m, k)
          /\ c[m] = c[m - 1] + 1 => g[c[m]].at = f[m].at /\ g[c[m]].kind = f[m].kind
      BY <3>2 DEF Carried
    <3> QED BY <3>1, <3>3 DEF m
  <2>8. Bad(j + 1)
    BY <2>3, <2>6, <2>7
  <2>9. n - 1 \in 0 .. Len(f) - 1 /\ Len(f) - (n - 1) = j + 1 /\ ~(n <= n - 1)
    BY <2>3, <2>5, <1>1
  <2>10. n - 1 \in bad
    BY <2>8, <2>9 DEF bad
  <2> QED BY <2>2, <2>9, <2>10
<1>3. Len(f) - i \in 0 .. Len(f) - 1 /\ Len(f) - (Len(f) - i) = i
  BY <1>1
<1>4. ~Bad(i)
  <2>1. Len(f) - i \notin bad
    BY <1>2
  <2> QED BY <2>1, <1>3
<1> QED BY <1>4

(* Lines of which none is the field k are carried side by side.            *)
Spared(f, k, i, s) ==
  /\ i \in 0 .. Len(f) /\ s \in 0 .. Len(f) - i
  /\ \A j \in i + 1 .. i + s : ~IsField(f, j, k)

LEMMA SideBySide ==
  ASSUME NEW f \in Seq(Line), NEW g \in Seq(Line), NEW c, NEW k, Carries(f, g, c, k),
         NEW i, NEW s, Spared(f, k, i, s)
  PROVE  \A n \in 0 .. s : c[i + n] = c[i] + n /\ (n > 0 => g[c[i] + n] = f[i + n])
<1> DEFINE Good(n) == c[i + n] = c[i] + n /\ (n > 0 => g[c[i] + n] = f[i + n])
           bad == {n \in 0 .. s : ~Good(n)}
<1>1. /\ c[i] \in Nat /\ i \in Nat /\ s \in Nat /\ Len(f) \in Nat /\ i + s <= Len(f)
      /\ \A j \in i + 1 .. i + s : ~IsField(f, j, k)
  BY DEF Carries, Spared
<1>2. SUFFICES ASSUME bad # {} PROVE FALSE
  OBVIOUS
<1>3. PICK n \in bad : \A m \in bad : n <= m
  <2>1. bad \in SUBSET Nat
    OBVIOUS
  <2> HIDE DEF bad
  <2> QED BY <2>1, <1>2, LeastIsLeast
<1>4. n \in 0 .. s /\ ~Good(n)
  BY <1>3
<1>5. n # 0
  BY <1>1, <1>4
<1>6. n - 1 \in 0 .. s /\ ~(n <= n - 1) /\ i + n \in i + 1 .. i + s /\ i + n \in 1 .. Len(f)
      /\ (i + n) - 1 = i + (n - 1)
  BY <1>1, <1>4, <1>5
<1>7. Good(n - 1)
  <2>1. n - 1 \notin bad
    <3> HIDE DEF bad
    <3> QED BY <1>3, <1>6
  <2> QED BY <2>1, <1>6
<1>8. c[i + n] = c[i + (n - 1)] + 1 /\ g[c[i + n]] = f[i + n]
  BY <1>1, <1>6, CarriesLine
<1>9. c[i + n] = c[i] + n
  <2>1. c[i + (n - 1)] = c[i] + (n - 1)
    BY <1>7
  <2>2. c[i] + (n - 1) + 1 = c[i] + n
    <3>1. c[i] \in Nat /\ n \in Nat
      BY <1>1, <1>4
    <3> QED BY ONLY <3>1
  <2> QED BY <1>8, <2>1, <2>2
<1>10. g[c[i] + n] = f[i + n]
  BY <1>8, <1>9
<1> QED BY <1>4, <1>9, <1>10

(* A line that is carried has the same under it in both files.             *)
LEMMA SameUnder ==
  ASSUME NEW f \in Seq(Line), NEW g \in Seq(Line), NEW c, NEW k \in Lifecycle,
         Carries(f, g, c, k), Tidy(f), NEW i \in 1 .. Len(f), c[i] = c[i - 1] + 1
  PROVE  Under(g, c[i]) = Under(f, i)
<1>1. c[i] \in 1 .. Len(g) /\ g[c[i]].at = f[i].at /\ Len(f) \in Nat /\ Len(g) \in Nat
  BY CarriesLine
<1>2. f[i].at \in Nat
  BY CarriesLine DEF Line
<1>3. CASE i = Len(f)
  <2>1. c[i] = Len(g)
    BY <1>3 DEF Carries
  <2> QED BY <1>3, <2>1 DEF Under
<1>4. CASE i # Len(f)
  <2>1. i + 1 \in 1 .. Len(f) /\ (i + 1) - 1 = i /\ i < Len(f)
    BY <1>4
  <2>0. /\ c[i + 1] = c[i] \/ c[i + 1] = c[i] + 1
        /\ c[i + 1] = c[i] => IsField(f, i + 1, k)
        /\ c[i + 1] = c[i] + 1 =>
             /\ c[i + 1] \in 1 .. Len(g)
             /\ g[c[i + 1]].at = f[i + 1].at /\ g[c[i + 1]].kind = f[i + 1].kind
    <3> DEFINE m == i + 1
    <3>1. m \in 1 .. Len(f) /\ m - 1 = i
      BY <2>1
    <3> HIDE DEF m
    <3>2. Carried(f, g, c, k, m)
      BY <3>1, EachCarried
    <3>3. /\ c[m] = c[i] \/ c[m] = c[i] + 1
          /\ c[m] = c[i] => IsField(f, m, k)
          /\ c[m] = c[i] + 1 =>
               c[m] \in 1 .. Len(g) /\ g[c[m]].at = f[m].at /\ g[c[m]].kind = f[m].kind
      BY <3>1, <3>2 DEF Carried
    <3> QED BY <3>3 DEF m
  <2>2. CASE c[i + 1] = c[i] + 1
    <3>1. /\ c[i] + 1 \in 1 .. Len(g)
          /\ g[c[i] + 1].at = f[i + 1].at /\ g[c[i] + 1].kind = f[i + 1].kind
      BY <2>0, <2>2
    <3>2. c[i] < Len(g)
      BY <3>1, <1>1
    <3> QED BY <1>1, <2>1, <3>1, <3>2 DEF Under
  <2>3. CASE c[i + 1] # c[i] + 1
    <3>1. c[i + 1] = c[i] /\ IsField(f, i + 1, k)
      BY <2>0, <2>3
    <3>2. c[i] < Len(g) => g[c[i] + 1].at = 0
      BY <2>1, <3>1, AfterGone
    <3>3. f[i + 1].at = 0
      BY <3>1 DEF IsField
    <3> QED BY <1>1, <1>2, <3>2, <3>3 DEF Under
  <2> QED BY <2>2, <2>3
<1> QED BY <1>3, <1>4

(* And is followed by the same run of lines. *)
LEMMA SameFollowing ==
  ASSUME NEW f \in Seq(Line), NEW g \in Seq(Line), NEW c, NEW k \in Lifecycle,
         Carries(f, g, c, k), Tidy(f), NEW i \in 1 .. Len(f), c[i] = c[i - 1] + 1,
         NEW kinds
  PROVE  Following(g, c[i], kinds) = Following(f, i, kinds)
<1>1. PICK s : /\ RunIs(f, i, kinds, s)
               /\ Following(f, i, kinds) = LinesAfter(f, i, s)
  BY FollowingIs
<1>2. c[i] \in 1 .. Len(g) /\ g[c[i]].at = f[i].at /\ Len(f) \in Nat /\ Len(g) \in Nat
  BY CarriesLine
<1>3. f[i].at \in Nat
  BY CarriesLine DEF Line
<1>4. /\ s \in 0 .. Len(f) - i
      /\ \A j \in i + 1 .. i + s : InRun(f, i, kinds, j)
      /\ ~InRun(f, i, kinds, i + s + 1)
  BY <1>1 DEF RunIs
<1>5. Spared(f, k, i, s)
  <2>1. ASSUME NEW j \in i + 1 .. i + s PROVE ~IsField(f, j, k)
    <3>1. InRun(f, i, kinds, j)
      BY <1>4
    <3> QED BY <1>3, <3>1 DEF InRun, IsField
  <2> QED BY <1>4, <2>1 DEF Spared
<1>6. \A n \in 0 .. s : c[i + n] = c[i] + n /\ (n > 0 => g[c[i] + n] = f[i + n])
  BY <1>5, SideBySide
<1>7. c[i + s] = c[i] + s /\ i + s \in 0 .. Len(f)
  BY <1>4, <1>6
<1>8. s \in 0 .. Len(g) - c[i]
  <2>1. c[i + s] \in 0 .. Len(g)
    BY <1>7 DEF Carries
  <2> QED BY <2>1, <1>2, <1>4, <1>7
<1>9. \A j \in c[i] + 1 .. c[i] + s : InRun(g, c[i], kinds, j)
  <2> TAKE j \in c[i] + 1 .. c[i] + s
  <2>1. /\ j - c[i] \in 0 .. s /\ j - c[i] > 0 /\ c[i] + (j - c[i]) = j
        /\ i + (j - c[i]) \in i + 1 .. i + s
    <3>1. c[i] \in Nat /\ s \in Nat /\ i \in Nat
      BY <1>2, <1>4
    <3> DEFINE d == j - c[i]
    <3>2. d \in 1 .. s /\ c[i] + d = j
      BY <3>1
    <3> HIDE DEF d
    <3>3. d \in 0 .. s /\ d > 0 /\ i + d \in i + 1 .. i + s
      BY <3>1, <3>2
    <3> QED BY <3>2, <3>3 DEF d
  <2>2. g[j] = f[i + (j - c[i])]
    BY <2>1, <1>6
  <2>3. j <= Len(g)
    BY <1>2, <1>8
  <2> QED BY <1>2, <1>4, <2>1, <2>2, <2>3 DEF InRun
<1>10. ~InRun(g, c[i], kinds, c[i] + s + 1)
  <2>1. CASE i + s = Len(f)
    <3>1. c[i] + s = Len(g)
      BY <1>7, <2>1 DEF Carries
    <3> QED BY <1>2, <3>1 DEF InRun
  <2>2. CASE i + s # Len(f)
    <3>1. PICK j \in 1 .. Len(f) : j = i + s + 1 /\ j - 1 = i + s
      <4>1. i + s + 1 \in 1 .. Len(f) /\ (i + s + 1) - 1 = i + s
        BY <1>7, <2>2
      <4> QED BY <4>1
    <3>2. CASE c[j] = c[j - 1] + 1
      <4>1. g[c[j]].at = f[j].at /\ g[c[j]].kind = f[j].kind
        BY <3>2, CarriesLine
      <4>2. c[j] = c[i] + s + 1
        BY <1>7, <3>1, <3>2
      <4> QED BY <1>2, <1>4, <3>1, <4>1, <4>2 DEF InRun
    <3>3. CASE c[j] # c[j - 1] + 1
      <4>1. c[j] = c[j - 1] /\ IsField(f, j, k)
        BY <3>3, CarriesLine
      <4>2. c[j] = c[i] + s
        BY <1>7, <3>1, <4>1
      <4>3. c[j] < Len(g) => g[c[j] + 1].at = 0
        BY <4>1, AfterGone
      <4> QED BY <1>2, <1>3, <1>8, <4>2, <4>3 DEF InRun
    <3> QED BY <3>2, <3>3
  <2> QED BY <2>1, <2>2
<1>11. RunIs(g, c[i], kinds, s)
  BY <1>8, <1>9, <1>10 DEF RunIs
<1>12. Following(g, c[i], kinds) = LinesAfter(g, c[i], s)
  <2>1. g \in Seq(Line) /\ c[i] \in 1 .. Len(g)
    BY <1>2
  <2> QED BY ONLY <1>11, <2>1, FollowingUnique
<1>13. LinesAfter(g, c[i], s) = LinesAfter(f, i, s)
  BY <1>4, <1>6 DEF LinesAfter
<1> QED BY <1>1, <1>12, <1>13

LEMMA LineTypes ==
  ASSUME NEW f \in Seq(Line), NEW i \in 1 .. Len(f)
  PROVE  f[i] \in Line /\ f[i].at \in Nat /\ f[i].kind \in {"key", "item", "blank"}
<1>1. f[i] \in Line
  OBVIOUS
<1> QED BY <1>1 DEF Line

(* What holds of the first line and passes from line to line holds of all. *)
LEMMA LineByLine ==
  ASSUME NEW n \in Nat, NEW S, 0 \in S, \A i \in 1 .. n : i - 1 \in S => i \in S
  PROVE  \A i \in 0 .. n : i \in S
<1> DEFINE out == {i \in 0 .. n : i \notin S}
<1>1. SUFFICES ASSUME out # {} PROVE FALSE
  OBVIOUS
<1>2. out \in SUBSET Nat
  OBVIOUS
<1>3. PICK i \in out : \A m \in out : i <= m
  <2> HIDE DEF out
  <2> QED BY <1>1, <1>2, LeastIsLeast
<1>4. i \in 1 .. n /\ i \notin S /\ i - 1 \in 0 .. n /\ ~(i <= i - 1)
  <2>1. i \in 0 .. n /\ i \notin S
    BY <1>3
  <2> QED BY <2>1
<1>5. i - 1 \notin out
  <2> HIDE DEF out
  <2> QED BY <1>3, <1>4
<1> QED BY <1>4, <1>5

LEMMA NoValueIsNoField == NoValue \notin Lifecycle
BY Zenon DEF NoValue, Lifecycle

(* A reader of a tidy file has a list open under a key it has read, which  *)
(* is no field of the lifecycle; it skips lines off the margin, and no item*)
(* comes right after them.                                                 *)
Held(f, i, a) ==
  /\ Shaped(a)
  /\ a.open # NoValue => a.open \in DOMAIN a.fields
  /\ a.open \notin Lifecycle
  /\ a.skip > 0 =>
       /\ i + a.skip <= Len(f)
       /\ \A j \in i + 1 .. i + a.skip : f[j].at > 0
       /\ i + a.skip < Len(f) => f[i + a.skip + 1].kind # "item"

(* A block of children is off the margin, and no item is right after it.   *)
LEMMA BlockHeld ==
  ASSUME NEW f \in Seq(Line), Tidy(f), NEW i \in 1 .. Len(f), Under(f, i) = "key",
         NEW s, s = Len(Block(f, i))
  PROVE  /\ i + s <= Len(f)
         /\ \A j \in i + 1 .. i + s : f[j].at > 0
         /\ i + s < Len(f) => f[i + s + 1].kind # "item"
<1>1. RunIs(f, i, {"key", "item"}, s)
  BY FollowingIs DEF Block
<1>2. /\ s \in 0 .. Len(f) - i
      /\ \A j \in i + 1 .. i + s : j <= Len(f) /\ f[j].at > f[i].at
      /\ ~InRun(f, i, {"key", "item"}, i + s + 1)
  BY <1>1 DEF RunIs, InRun
<1>3. f[i].at \in Nat /\ Len(f) \in Nat
  BY LineTypes
<1>4. ASSUME NEW j \in i + 1 .. i + s PROVE f[j].at > 0
  <2>1. j \in 1 .. Len(f) /\ f[j].at > f[i].at
    BY <1>2, <1>3
  <2>2. f[j].at \in Nat
    BY <2>1, LineTypes
  <2> QED BY <1>3, <2>1, <2>2
<1>5. s > 0
  <2>1. i < Len(f) /\ f[i + 1].at > f[i].at /\ f[i + 1].kind = "key"
    BY DEF Under
  <2>2. InRun(f, i, {"key", "item"}, i + 1)
    BY <1>3, <2>1 DEF InRun
  <2>3. s # 0
    BY <1>2, <2>2
  <2> QED BY <1>2, <2>3
<1>6. ASSUME i + s < Len(f), f[i + s + 1].kind = "item" PROVE FALSE
  <2>1. PICK j \in 1 .. Len(f) : j = i + s + 1 /\ j - 1 = i + s
    <3>1. i + s + 1 \in 1 .. Len(f) /\ (i + s + 1) - 1 = i + s
      BY <1>2, <1>6
    <3> QED BY <3>1
  <2>2. f[j].at \in Nat /\ f[j - 1].at \in Nat
    <3>1. j - 1 \in 1 .. Len(f)
      BY <1>2, <1>5, <2>1
    <3> QED BY <3>1, LineTypes
  <2>3. f[j - 1].at > f[i].at
    BY <1>2, <1>5, <2>1
  <2>4. ~(f[j].at > f[i].at)
    BY <1>2, <1>6, <2>1 DEF InRun
  <2>5. f[j - 1].at <= f[j].at
    <3>1. ItemEven(f, j)
      BY <1>6, <2>1 DEF Tidy
    <3> QED BY <2>2, <3>1 DEF ItemEven
  <2> QED BY <1>3, <2>2, <2>3, <2>4, <2>5
<1> QED BY <1>2, <1>4, <1>6

LEMMA HeldStep ==
  ASSUME NEW f \in Seq(Line), Tidy(f), NEW i \in 1 .. Len(f), NEW a, Held(f, i - 1, a)
  PROVE  Held(f, i, ReadLine(f, a, i))
<1>1. PICK b : b = ReadLine(f, a, i)
  OBVIOUS
<1>2. Shaped(a) /\ Shaped(b) /\ a.skip \in Nat
  BY <1>1, LineRead DEF Held, Shaped
<1>3. f[i].kind \in {"key", "item", "blank"} /\ Len(f) \in Nat
  BY LineTypes
<1>4. CASE a.skip > 0
  <2>1. b.fields = a.fields /\ b.open = a.open /\ b.skip = a.skip - 1
    BY <1>1, <1>2, <1>4, LineRead
  <2>2. /\ (i - 1) + a.skip = i + b.skip
        /\ \A j \in i + 1 .. i + b.skip : j \in (i - 1) + 1 .. (i - 1) + a.skip
    BY <1>2, <2>1
  <2>3. b.skip > 0 =>
          /\ i + b.skip <= Len(f)
          /\ \A j \in i + 1 .. i + b.skip : f[j].at > 0
          /\ i + b.skip < Len(f) => f[i + b.skip + 1].kind # "item"
    BY <1>4, <2>2 DEF Held
  <2> QED BY <1>1, <1>2, <2>1, <2>3 DEF Held
<1>5. CASE a.skip = 0 /\ f[i].kind = "item"
  <2>1. b.open = a.open /\ b.skip = 0 /\ b.fields = ReadItem(a.fields, a.open, f[i].val)
    BY <1>1, <1>2, <1>5, LineRead
  <2>2. DOMAIN a.fields \subseteq DOMAIN b.fields
    BY <2>1 DEF ReadItem, With
  <2> QED BY <1>1, <1>2, <2>1, <2>2 DEF Held
<1>6. CASE a.skip = 0 /\ f[i].kind = "blank"
  <2>1. b = a
    BY <1>1, <1>2, <1>6, LineRead
  <2> QED BY <1>1, <1>2, <1>6, <2>1 DEF Held
<1>7. CASE a.skip = 0 /\ f[i].kind = "key" /\ Under(f, i) = "item"
  <2>1. b.open = f[i].key /\ b.skip = 0 /\ b.fields = With(a.fields, f[i].key, Scalar(NoValue))
    BY <1>1, <1>2, <1>7, LineRead
  <2>2. f[i].key \notin Lifecycle
    <3>1. i < Len(f) /\ f[i + 1].kind = "item"
      BY <1>7 DEF Under
    <3> QED BY <3>1, TidyField
  <2>3. f[i].key \in DOMAIN b.fields
    BY <2>1 DEF With
  <2> QED BY <1>1, <1>2, <2>1, <2>2, <2>3 DEF Held
<1>8. CASE a.skip = 0 /\ f[i].kind = "key" /\ Under(f, i) = "key"
  <2>1. /\ b.open = a.open /\ b.skip = Len(Block(f, i))
        /\ b.fields = With(a.fields, f[i].key, Children(Block(f, i)))
    BY <1>1, <1>2, <1>8, LineRead
  <2>2. DOMAIN a.fields \subseteq DOMAIN b.fields
    BY <2>1 DEF With
  <2>3. /\ i + b.skip <= Len(f)
        /\ \A j \in i + 1 .. i + b.skip : f[j].at > 0
        /\ i + b.skip < Len(f) => f[i + b.skip + 1].kind # "item"
    BY <1>8, <2>1, BlockHeld
  <2> QED BY <1>1, <1>2, <2>1, <2>2, <2>3 DEF Held
<1>9. CASE a.skip = 0 /\ f[i].kind = "key" /\ Under(f, i) \notin {"item", "key"}
  <2>1. b.open = NoValue /\ b.skip = 0
    BY <1>1, <1>2, <1>9, LineRead
  <2> QED BY <1>1, <1>2, <2>1, NoValueIsNoField DEF Held
<1>10. a.skip > 0 \/ a.skip = 0
  BY <1>2
<1> QED BY <1>3, <1>4, <1>5, <1>6, <1>7, <1>8, <1>9, <1>10

(* After every line of a tidy file. *)
LEMMA HeldRead ==
  ASSUME NEW f \in Seq(Line), Tidy(f)
  PROVE  \A i \in 0 .. Len(f) : Held(f, i, Reading(f)[i])
<1> DEFINE S == {i \in 0 .. Len(f) : Held(f, i, Reading(f)[i])}
<1>1. Len(f) \in Nat
  OBVIOUS
<1>2. 0 \in S
  <2>1. Reading(f)[0] = Unread
    BY ReadingUnfolds
  <2>2. Held(f, 0, Unread)
    BY NoValueIsNoField DEF Held, Shaped, Unread
  <2> QED BY <1>1, <2>1, <2>2
<1>3. ASSUME NEW i \in 1 .. Len(f), i - 1 \in S PROVE i \in S
  <2>1. Held(f, i - 1, Reading(f)[i - 1])
    BY <1>3
  <2>2. Reading(f)[i] = ReadLine(f, Reading(f)[i - 1], i)
    BY ReadingUnfolds
  <2>3. Held(f, i, Reading(f)[i])
    BY <2>1, <2>2, HeldStep
  <2> QED BY <2>3
<1>4. \A i \in 0 .. Len(f) : i \in S
  <2> HIDE DEF S
  <2> QED BY <1>1, <1>2, <1>3, LineByLine
<1> QED BY <1>4

(* Two readers that have come equally far have found the same off k, skip  *)
(* the same lines, and have the same list open when an item comes.         *)
Beside(f, i, a, b, k) ==
  /\ Shaped(a) /\ Shaped(b)
  /\ Agree(a.fields, b.fields, k)
  /\ a.skip = b.skip
  /\ a.skip = 0 /\ i < Len(f) => (f[i + 1].kind = "item" => a.open = b.open)

(* A field that is gone changes only itself. *)
LEMMA BesideGone ==
  ASSUME NEW f \in Seq(Line), Tidy(f), NEW k \in Lifecycle, NEW i \in 1 .. Len(f), IsField(f, i, k),
         NEW a, NEW b, Held(f, i - 1, a), Beside(f, i - 1, a, b, k)
  PROVE  Beside(f, i, ReadLine(f, a, i), b, k)
<1>1. PICK a1 : a1 = ReadLine(f, a, i)
  OBVIOUS
<1>2. Shaped(a) /\ a.skip \in Nat /\ Len(f) \in Nat
  BY DEF Held, Shaped
<1>3. f[i].kind = "key" /\ f[i].at = 0 /\ f[i].key = k
  BY DEF IsField
<1>4. a.skip = 0
  <2>1. a.skip > 0 => i \in (i - 1) + 1 .. (i - 1) + a.skip
    BY <1>2
  <2>2. a.skip > 0 => f[i].at > 0
    BY <2>1 DEF Held
  <2> QED BY <1>2, <1>3, <2>2
<1>5. i < Len(f) => f[i + 1].kind = "key" /\ f[i + 1].at = 0
  BY <1>3, TidyField
<1>6. Under(f, i) = "none"
  BY <1>3, <1>5 DEF Under
<1>7. a1.skip = 0 /\ a1.fields = With(a.fields, k, Scalar(f[i].val)) /\ Shaped(a1)
  BY <1>1, <1>2, <1>3, <1>4, <1>6, LineRead
<1>8. Agree(a1.fields, b.fields, k)
  BY <1>7, WithItself DEF Beside
<1> QED BY <1>1, <1>4, <1>5, <1>7, <1>8 DEF Beside

(* A line that is carried is read alike in both. *)
LEMMA BesideCarried ==
  ASSUME NEW f \in Seq(Line), NEW g \in Seq(Line), NEW c, NEW k \in Lifecycle,
         Carries(f, g, c, k), Tidy(f), NEW i \in 1 .. Len(f), c[i] = c[i - 1] + 1,
         NEW a, NEW b, Held(f, i - 1, a), Beside(f, i - 1, a, b, k)
  PROVE  Beside(f, i, ReadLine(f, a, i), ReadLine(g, b, c[i]), k)
<1>1. PICK j \in 1 .. Len(g) : j = c[i]
  BY CarriesLine
<1>2. PICK a1, b1 : a1 = ReadLine(f, a, i) /\ b1 = ReadLine(g, b, j)
  OBVIOUS
<1>3. Shaped(a) /\ Shaped(b) /\ a.skip \in Nat /\ a.skip = b.skip /\ Agree(a.fields, b.fields, k)
  BY DEF Beside, Shaped
<1>4. Shaped(a1) /\ Shaped(b1)
  BY <1>2, <1>3, LineRead
<1>5. /\ f[i].kind \in {"key", "item", "blank"} /\ Len(f) \in Nat
      /\ g[j].kind = f[i].kind /\ g[j].key = f[i].key
      /\ ~IsField(f, i, k) => g[j] = f[i]
      /\ i < Len(f) => i + 1 \in 1 .. Len(f)
  BY <1>1, CarriesLine, LineTypes
<1>6. Under(g, j) = Under(f, i) /\ Block(g, j) = Block(f, i)
  BY <1>1, SameUnder, SameFollowing DEF Block
<1>7. Held(f, i, a1)
  BY <1>2, HeldStep
<1>8. CASE a.skip > 0
  <2>1. /\ a1.fields = a.fields /\ a1.open = a.open /\ a1.skip = a.skip - 1
        /\ b1.fields = b.fields /\ b1.open = b.open /\ b1.skip = b.skip - 1
    BY <1>2, <1>3, <1>8, LineRead
  <2>2. ASSUME a1.skip = 0, i < Len(f) PROVE f[i + 1].kind # "item"
    <3>1. a.skip = 1 /\ (i - 1) + a.skip = i
      BY <1>3, <2>1, <2>2
    <3> QED BY <2>2, <3>1 DEF Held
  <2> QED BY <1>1, <1>2, <1>3, <1>4, <2>1, <2>2 DEF Beside
<1>9. CASE a.skip = 0 /\ f[i].kind = "item"
  <2>1. a.open = b.open
    <3>1. i - 1 < Len(f) /\ (i - 1) + 1 = i
      BY <1>5
    <3> QED BY <1>9, <3>1 DEF Beside
  <2>2. g[j] = f[i]
    BY <1>5, <1>9 DEF IsField
  <2>3. /\ a1.open = a.open /\ a1.skip = 0 /\ a1.fields = ReadItem(a.fields, a.open, f[i].val)
        /\ b1.open = a.open /\ b1.skip = 0 /\ b1.fields = ReadItem(b.fields, a.open, f[i].val)
    <3>1. /\ a1.open = a.open /\ a1.skip = 0 /\ a1.fields = ReadItem(a.fields, a.open, f[i].val)
      BY <1>2, <1>3, <1>9, <2>1, LineRead
    <3>2. b.skip = 0 /\ g[j].kind = f[i].kind /\ g[j].key = f[i].key
      BY <1>3, <1>5, <1>9
    <3>3. /\ b1.open = a.open /\ b1.skip = 0 /\ b1.fields = ReadItem(b.fields, a.open, f[i].val)
      BY <1>2, <1>3, <1>5, <1>9, <2>1, <2>2, LineRead, <3>2
    <3> QED BY <3>1, <3>3
  <2>4. Agree(a1.fields, b1.fields, k)
    <3>1. CASE a.open = NoValue
      BY <1>3, <2>3, <3>1 DEF ReadItem
    <3>2. CASE a.open # NoValue
      <4>1. a.open \in DOMAIN a.fields \ {k}
        BY <3>2 DEF Held
      <4>2. Continued(a.fields, a.open) = Continued(b.fields, a.open)
        BY <1>3, <4>1 DEF Continued, Agree
      <4> QED BY <1>3, <2>3, <3>2, <4>2, WithAgree DEF ReadItem
    <3> QED BY <3>1, <3>2
  <2> QED BY <1>1, <1>2, <1>4, <2>3, <2>4 DEF Beside
<1>10. CASE a.skip = 0 /\ f[i].kind = "blank"
  <2>1. a1 = a /\ b1 = b
    <3>1. a1 = a
      BY <1>2, <1>3, <1>10, LineRead
    <3>2. b.skip = 0 /\ g[j].kind = "blank"
      BY <1>3, <1>5, <1>10
    <3>3. b1 = b
      BY <1>2, <1>3, <3>2, LineRead
    <3> QED BY <3>1, <3>3
  <2>2. i < Len(f) => f[i + 1].kind # "item"
    <3>1. (i + 1) - 1 = i
      BY <1>5
    <3> QED BY <1>5, <1>10, <3>1 DEF Tidy, ItemEven
  <2> QED BY <1>1, <1>2, <1>3, <2>1, <2>2 DEF Beside
<1>11. CASE a.skip = 0 /\ f[i].kind = "key" /\ Under(f, i) = "item"
  <2>1. /\ a1.open = f[i].key /\ a1.skip = 0 /\ a1.fields = With(a.fields, f[i].key, Scalar(NoValue))
        /\ b1.open = f[i].key /\ b1.skip = 0 /\ b1.fields = With(b.fields, f[i].key, Scalar(NoValue))
    <3>1. /\ a1.open = f[i].key /\ a1.skip = 0 /\ a1.fields = With(a.fields, f[i].key, Scalar(NoValue))
      BY <1>2, <1>3, <1>11, LineRead
    <3>2. b.skip = 0 /\ g[j].kind = f[i].kind /\ g[j].key = f[i].key
      BY <1>3, <1>5, <1>11
    <3>3. /\ b1.open = f[i].key /\ b1.skip = 0 /\ b1.fields = With(b.fields, f[i].key, Scalar(NoValue))
      BY <1>2, <1>3, <1>5, <1>6, <1>11, LineRead, <3>2
    <3> QED BY <3>1, <3>3
  <2>2. Agree(a1.fields, b1.fields, k)
    BY <1>3, <2>1, WithAgree
  <2> QED BY <1>1, <1>2, <1>4, <2>1, <2>2 DEF Beside
<1>12. CASE a.skip = 0 /\ f[i].kind = "key" /\ Under(f, i) = "key"
  <2>1. /\ a1.skip = Len(Block(f, i)) /\ a1.fields = With(a.fields, f[i].key, Children(Block(f, i)))
        /\ b1.skip = Len(Block(f, i)) /\ b1.fields = With(b.fields, f[i].key, Children(Block(f, i)))
    <3>1. /\ a1.skip = Len(Block(f, i)) /\ a1.fields = With(a.fields, f[i].key, Children(Block(f, i)))
      BY <1>2, <1>3, <1>12, LineRead
    <3>2. b.skip = 0 /\ g[j].kind = f[i].kind /\ g[j].key = f[i].key
      BY <1>3, <1>5, <1>12
    <3>3. /\ b1.skip = Len(Block(f, i)) /\ b1.fields = With(b.fields, f[i].key, Children(Block(f, i)))
      BY <1>2, <1>3, <1>5, <1>6, <1>12, LineRead, <3>2
    <3> QED BY <3>1, <3>3
  <2>2. Agree(a1.fields, b1.fields, k)
    BY <1>3, <2>1, WithAgree
  <2>3. i < Len(f) => f[i + 1].kind # "item"
    BY <1>12 DEF Under
  <2> QED BY <1>1, <1>2, <1>4, <2>1, <2>2, <2>3 DEF Beside
<1>13. CASE a.skip = 0 /\ f[i].kind = "key" /\ Under(f, i) \notin {"item", "key"}
  <2>1. /\ a1.open = NoValue /\ a1.skip = 0 /\ a1.fields = With(a.fields, f[i].key, Scalar(f[i].val))
        /\ b1.open = NoValue /\ b1.skip = 0 /\ b1.fields = With(b.fields, f[i].key, Scalar(g[j].val))
    <3>1. /\ a1.open = NoValue /\ a1.skip = 0 /\ a1.fields = With(a.fields, f[i].key, Scalar(f[i].val))
      BY <1>2, <1>3, <1>13, LineRead
    <3>2. b.skip = 0 /\ g[j].kind = f[i].kind /\ g[j].key = f[i].key
      BY <1>3, <1>5, <1>13
    <3>3. /\ b1.open = NoValue /\ b1.skip = 0 /\ b1.fields = With(b.fields, f[i].key, Scalar(g[j].val))
      BY <1>2, <1>3, <1>5, <1>6, <1>13, LineRead, <3>2
    <3> QED BY <3>1, <3>3
  <2>2. Agree(a1.fields, b1.fields, k)
    <3>1. CASE IsField(f, i, k)
      BY <1>3, <2>1, <3>1, WithItself DEF IsField
    <3>2. CASE ~IsField(f, i, k)
      BY <1>3, <1>5, <2>1, <3>2, WithAgree
    <3> QED BY <3>1, <3>2
  <2> QED BY <1>1, <1>2, <1>4, <2>1, <2>2 DEF Beside
<1>14. a.skip > 0 \/ a.skip = 0
  BY <1>3
<1> QED BY <1>5, <1>8, <1>9, <1>10, <1>11, <1>12, <1>13, <1>14

(* Carried along, all but the field k reads the same. *)
LEMMA CarriedReadsTheSame ==
  ASSUME NEW f \in Seq(Line), NEW g \in Seq(Line), NEW c, NEW k \in Lifecycle,
         Carries(f, g, c, k), Tidy(f)
  PROVE  Agree(Parse(f), Parse(g), k)
<1> DEFINE S == {i \in 0 .. Len(f) : Beside(f, i, Reading(f)[i], Reading(g)[c[i]], k)}
<1>1. Len(f) \in Nat /\ Len(g) \in Nat /\ c[0] = 0 /\ c[Len(f)] = Len(g)
  BY DEF Carries
<1>2. 0 \in S
  <2>1. Reading(f)[0] = Unread /\ Reading(g)[0] = Unread
    BY ReadingUnfolds
  <2>2. Beside(f, 0, Unread, Unread, k)
    BY DEF Beside, Shaped, Agree, Unread
  <2> QED BY <1>1, <2>1, <2>2
<1>3. ASSUME NEW i \in 1 .. Len(f), i - 1 \in S PROVE i \in S
  <2>1. PICK a, b : a = Reading(f)[i - 1] /\ b = Reading(g)[c[i - 1]]
    OBVIOUS
  <2>2. Beside(f, i - 1, a, b, k) /\ Held(f, i - 1, a)
    BY <1>3, <2>1, HeldRead
  <2>3. Reading(f)[i] = ReadLine(f, a, i)
    BY <2>1, ReadingUnfolds
  <2>4. CASE c[i] = c[i - 1] + 1
    <3>1. c[i] \in 1 .. Len(g) /\ c[i] - 1 = c[i - 1]
      BY <2>4, CarriesLine
    <3>2. Reading(g)[c[i]] = ReadLine(g, b, c[i])
      BY <2>1, <3>1, ReadingUnfolds
    <3> QED BY <2>2, <2>3, <2>4, <3>2, BesideCarried
  <2>5. CASE c[i] # c[i - 1] + 1
    <3>1. c[i] = c[i - 1] /\ IsField(f, i, k)
      BY <2>5, CarriesLine
    <3> QED BY <2>1, <2>2, <2>3, <3>1, BesideGone
  <2> QED BY <2>4, <2>5
<1>4. \A i \in 0 .. Len(f) : i \in S
  <2> HIDE DEF S
  <2> QED BY <1>1, <1>2, <1>3, LineByLine
<1>5. Beside(f, Len(f), Reading(f)[Len(f)], Reading(g)[Len(g)], k)
  BY <1>1, <1>4
<1> QED BY <1>5 DEF Beside, Parse

---------------------------------------------------------------------------
(* What an update does to a tidy file. *)

(* The lines at some places, in order: each one is where the count of those*)
(* places up to it says.                                                   *)
Count(places, n) == [i \in 0 .. n |-> Cardinality(places \cap 1 .. i)]

LEMMA CountSteps ==
  ASSUME NEW n \in Nat, NEW places \in SUBSET (1 .. n)
  PROVE  /\ Count(places, n)[0] = 0 /\ Count(places, n)[n] = Cardinality(places)
         /\ \A i \in 0 .. n : Count(places, n)[i] \in Nat
         /\ \A i \in 1 .. n :
              Count(places, n)[i] = IF i \in places THEN Count(places, n)[i - 1] + 1
                                                    ELSE Count(places, n)[i - 1]
<1> DEFINE upto(i) == places \cap 1 .. i
<1>1. ASSUME NEW i \in 0 .. n PROVE IsFiniteSet(upto(i)) /\ Cardinality(upto(i)) \in Nat
  <2>1. IsFiniteSet(1 .. i)
    BY FS_Interval
  <2>2. IsFiniteSet(upto(i))
    BY <2>1, FS_Subset
  <2> QED BY <2>2, FS_CardinalityType
<1>2. upto(0) = {} /\ upto(n) = places
  <2>1. 1 .. 0 = {}
    OBVIOUS
  <2> QED BY <2>1
<1>3. Cardinality(upto(0)) = 0
  BY <1>2, FS_EmptySet
<1>4. ASSUME NEW i \in 1 .. n
      PROVE  Cardinality(upto(i)) = IF i \in places THEN Cardinality(upto(i - 1)) + 1
                                                    ELSE Cardinality(upto(i - 1))
  <2>1. i - 1 \in 0 .. n /\ i \notin upto(i - 1)
    BY SMT
  <2>2. CASE i \in places
    <3>1. upto(i) = upto(i - 1) \cup {i}
      BY <2>2, SMT
    <3> QED BY <1>1, <2>1, <2>2, <3>1, FS_AddElement
  <2>3. CASE i \notin places
    <3>1. upto(i) = upto(i - 1)
      BY <2>3, SMT
    <3> QED BY <2>3, <3>1
  <2> QED BY <2>2, <2>3
<1>5. \A i \in 0 .. n : Count(places, n)[i] = Cardinality(upto(i))
  BY DEF Count
<1>6. 0 \in 0 .. n /\ n \in 0 .. n /\ \A i \in 1 .. n : i \in 0 .. n /\ i - 1 \in 0 .. n
  BY SMT
<1> HIDE DEF upto
<1> QED BY <1>1, <1>2, <1>3, <1>4, <1>5, <1>6

(* Whatever climbs by at most one a step comes by every number on its way. *)
Climbs(c, n) ==
  /\ \A i \in 0 .. n : c[i] \in Nat
  /\ c[0] = 0
  /\ \A i \in 1 .. n : c[i] = c[i - 1] \/ c[i] = c[i - 1] + 1

LEMMA ComesBy ==
  ASSUME NEW n \in Nat, NEW c, Climbs(c, n), NEW j \in 1 .. c[n]
  PROVE  \E i \in 1 .. n : c[i] = j /\ c[i] = c[i - 1] + 1
<1> DEFINE past == {i \in 0 .. n : c[i] >= j}
<1>1. /\ \A i \in 0 .. n : c[i] \in Nat
      /\ c[0] = 0 /\ n \in 0 .. n
      /\ \A i \in 1 .. n : c[i] = c[i - 1] \/ c[i] = c[i - 1] + 1
  BY DEF Climbs
<1>2. n \in past /\ past \in SUBSET Nat
  BY <1>1
<1>3. PICK i \in past : \A m \in past : i <= m
  <2> HIDE DEF past
  <2> QED BY <1>2, LeastIsLeast
<1>4. i \in 0 .. n /\ c[i] >= j /\ i # 0
  BY <1>1, <1>3
<1>5. i \in 1 .. n /\ i - 1 \in 0 .. n /\ ~(i <= i - 1)
  BY <1>4
<1>6. i - 1 \notin past
  <2> HIDE DEF past
  <2> QED BY <1>3, <1>5
<1>7. ~(c[i - 1] >= j) /\ c[i - 1] \in Nat /\ c[i] \in Nat
  BY <1>1, <1>5, <1>6
<1>8. c[i] = j /\ c[i] = c[i - 1] + 1
  BY <1>1, <1>4, <1>5, <1>7
<1> QED BY <1>5, <1>8

(* And never goes down. *)
LEMMA ClimbsUp ==
  ASSUME NEW n \in Nat, NEW c, Climbs(c, n), NEW i \in 0 .. n, NEW j \in 0 .. n, i <= j
  PROVE  c[i] <= c[j]
<1> DEFINE S == {m \in 0 .. n : i <= m => c[i] <= c[m]}
<1>1. /\ \A m \in 0 .. n : c[m] \in Nat
      /\ \A m \in 1 .. n : c[m] = c[m - 1] \/ c[m] = c[m - 1] + 1
  BY DEF Climbs
<1>2. 0 \in S
  BY <1>1
<1>3. ASSUME NEW m \in 1 .. n, m - 1 \in S PROVE m \in S
  <2>1. m - 1 \in 0 .. n /\ m \in 0 .. n
    OBVIOUS
  <2>2. CASE i <= m - 1
    BY <1>1, <1>3, <2>1, <2>2
  <2>3. CASE ~(i <= m - 1)
    <3>1. i <= m => i = m
      BY <2>3
    <3> QED BY <1>1, <2>1, <3>1
  <2> QED BY <2>2, <2>3
<1>4. \A m \in 0 .. n : m \in S
  <2> HIDE DEF S
  <2> QED BY <1>2, <1>3, LineByLine
<1> QED BY <1>4

(* So Only puts the line at a place where the count says. *)
LEMMA OnlyKeeps ==
  ASSUME NEW f \in Seq(Line), NEW places \in SUBSET (1 .. Len(f)), NEW c, c = Count(places, Len(f))
  PROVE  /\ Climbs(c, Len(f))
         /\ Only(f, places) \in Seq(Line)
         /\ Len(Only(f, places)) = c[Len(f)]
         /\ \A i \in 1 .. Len(f) :
              IF i \in places THEN c[i] = c[i - 1] + 1 /\ Only(f, places)[c[i]] = f[i]
                              ELSE c[i] = c[i - 1]
<1> DEFINE n == Len(f)
<1>1. n \in Nat
  OBVIOUS
<1>2. /\ c[0] = 0 /\ c[n] = Cardinality(places)
      /\ \A i \in 0 .. n : c[i] \in Nat
      /\ \A i \in 1 .. n : c[i] = IF i \in places THEN c[i - 1] + 1 ELSE c[i - 1]
  BY <1>1, CountSteps
<1>3. Climbs(c, n)
  BY <1>2 DEF Climbs
<1>4. \A i \in places : Cardinality(places \cap 1 .. i) = c[i]
  BY DEF Count
<1> DEFINE nth(j) == CHOOSE i \in places : Cardinality(places \cap 1 .. i) = j
<1>5. Only(f, places) = [j \in 1 .. Cardinality(places) |-> f[nth(j)]]
  BY DEF Only
<1>6. ASSUME NEW i \in places, NEW m \in places, c[i] = c[m], i < m PROVE FALSE
  <2>1. i \in 0 .. n /\ m - 1 \in 0 .. n /\ i <= m - 1 /\ m \in 1 .. n
    BY <1>6
  <2>2. c[i] <= c[m - 1]
    BY <1>1, <1>3, <2>1, ClimbsUp
  <2>3. c[m] = c[m - 1] + 1
    BY <1>2, <2>1
  <2> QED BY <1>2, <1>6, <2>1, <2>2, <2>3
<1>7. \A i, m \in places : c[i] = c[m] => i = m
  <2> SUFFICES ASSUME NEW i \in places, NEW m \in places, c[i] = c[m], i # m PROVE FALSE
    OBVIOUS
  <2>1. i < m \/ m < i
    OBVIOUS
  <2> QED BY <1>6, <2>1
<1>8. ASSUME NEW i \in places PROVE nth(c[i]) = i
  BY <1>4, <1>7
<1>9. ASSUME NEW j \in 1 .. Cardinality(places) PROVE nth(j) \in places
  <2>1. PICK i \in 1 .. n : c[i] = j /\ c[i] = c[i - 1] + 1
    <3>1. j \in 1 .. c[n]
      BY <1>2, <1>9
    <3> HIDE DEF n
    <3> QED BY ONLY <1>1, <1>3, <3>1, ComesBy
  <2>2. i \in places
    <3>1. c[i - 1] \in Nat
      BY <1>2
    <3> QED BY <1>2, <2>1, <3>1
  <2> QED BY <1>8, <2>1, <2>2
<1> HIDE DEF nth
<1>10. \A j \in 1 .. Cardinality(places) : f[nth(j)] \in Line
  BY <1>9, LineTypes
<1>11. Cardinality(places) \in Nat
  BY <1>1, <1>2
<1>12. Only(f, places) \in Seq(Line) /\ Len(Only(f, places)) = Cardinality(places)
  BY <1>5, <1>10, <1>11
<1>13. ASSUME NEW i \in 1 .. n, i \in places PROVE c[i] = c[i - 1] + 1 /\ Only(f, places)[c[i]] = f[i]
  <2>1. c[i] = c[i - 1] + 1 /\ c[i] \in Nat /\ c[i - 1] \in Nat
    BY <1>2, <1>13
  <2>2. c[i] <= c[n]
    BY <1>1, <1>3, ClimbsUp
  <2>3. c[i] \in 1 .. Cardinality(places)
    BY <1>2, <1>11, <2>1, <2>2
  <2> QED BY <1>5, <1>8, <1>13, <2>1, <2>3
<1> QED BY <1>2, <1>3, <1>12, <1>13

(* In a tidy file the pattern of a field matches the lines of the field.   *)
Places(f, k) == {i \in 1 .. Len(f) : IsField(f, i, k)}

LEMMA PlainMatch ==
  ASSUME NEW f \in Seq(Line), Tidy(f), NEW k \in Lifecycle
  PROVE  Starting(f, k) = Places(f, k) /\ Run(f, k) = Places(f, k)
<1> DEFINE m == Matched(f, k)
<1>1. \A i \in Places(f, k) : f[i].val # NoValue
  BY TidyField DEF Places, IsField
<1>2. m = [i \in Places(f, k) |-> {i}]
  BY <1>1 DEF Matched, Places
<1>3. DOMAIN m = Places(f, k) /\ \A i \in Places(f, k) : m[i] = {i}
  BY <1>2
<1> HIDE DEF m
<1>4. Starting(f, k) = {i \in DOMAIN m : \A j \in DOMAIN m : j < i => i \notin m[j]}
  BY DEF Starting, m
<1>5. Places(f, k) \subseteq Nat
  BY DEF Places
<1>6. Starting(f, k) = Places(f, k)
  BY <1>3, <1>4, <1>5
<1>7. Run(f, k) = UNION {m[i] : i \in Places(f, k)}
  BY <1>6 DEF Run, m
<1>8. Run(f, k) = Places(f, k)
  BY <1>3, <1>7
<1> QED BY <1>6, <1>8

(* Every line of g has come from one of f. *)
LEMMA CarriedFrom ==
  ASSUME NEW f \in Seq(Line), NEW g \in Seq(Line), NEW c, NEW k, Carries(f, g, c, k), NEW j \in 1 .. Len(g)
  PROVE  \E i \in 1 .. Len(f) : c[i] = j /\ c[i] = c[i - 1] + 1
<1>1. Len(f) \in Nat /\ c[Len(f)] = Len(g) /\ c[0] = 0
  BY DEF Carries
<1>2. \A i \in 0 .. Len(f) : c[i] \in Nat
  BY DEF Carries
<1>3. \A i \in 1 .. Len(f) : c[i] = c[i - 1] \/ c[i] = c[i - 1] + 1
  BY CarriesLine
<1>4. Climbs(c, Len(f))
  BY <1>1, <1>2, <1>3 DEF Climbs
<1>5. j \in 1 .. c[Len(f)]
  BY <1>1
<1> QED BY ONLY <1>1, <1>4, <1>5, ComesBy

(* The field k is written with a value, or is not there.                   *)
Valued(g, k) == \A j \in 1 .. Len(g) : IsField(g, j, k) => g[j].val # NoValue

(* A tidy file stays so when lines of the field go or are written anew.    *)
LEMMA CarriedTidy ==
  ASSUME NEW f \in Seq(Line), NEW g \in Seq(Line), NEW c, NEW k \in Lifecycle,
         Carries(f, g, c, k), Tidy(f), Valued(g, k)
  PROVE  Tidy(g)
<1> SUFFICES ASSUME NEW j \in 1 .. Len(g)
             PROVE  /\ g[j].key \in Lifecycle => FieldPlain(g, j)
                    /\ g[j].kind = "item" => ItemEven(g, j)
  BY DEF Tidy
<1>1. PICK i \in 1 .. Len(f) : c[i] = j /\ c[i] = c[i - 1] + 1
  BY CarriedFrom
<1>2. /\ g[j].at = f[i].at /\ g[j].kind = f[i].kind /\ g[j].key = f[i].key
      /\ ~IsField(f, i, k) => g[j] = f[i]
      /\ c[i - 1] \in Nat /\ Len(f) \in Nat /\ Len(g) \in Nat
  BY <1>1, CarriesLine
<1>3. c[Len(f)] = Len(g) /\ c[0] = 0
  BY DEF Carries
<1>4. ASSUME g[j].key \in Lifecycle PROVE FieldPlain(g, j)
  <2>1. FieldPlain(f, i) /\ f[i].key \in Lifecycle
    BY <1>2, <1>4 DEF Tidy
  <2>2. g[j].val # NoValue
    <3>1. CASE IsField(f, i, k)
      <4>1. IsField(g, j, k)
        BY <1>2, <3>1 DEF IsField
      <4> QED BY <4>1 DEF Valued
    <3>2. CASE ~IsField(f, i, k)
      BY <1>2, <2>1, <3>2 DEF FieldPlain
    <3> QED BY <3>1, <3>2
  <2>3. ASSUME j < Len(g) PROVE g[j + 1].kind = "key" /\ g[j + 1].at = 0
    <3>1. PICK l \in 1 .. Len(f) : l = i + 1 /\ l - 1 = i /\ i < Len(f)
      <4>1. i < Len(f) /\ i + 1 \in 1 .. Len(f) /\ (i + 1) - 1 = i
        BY <1>1, <1>2, <1>3, <2>3
      <4> QED BY <4>1
    <3>2. f[l].kind = "key" /\ f[l].at = 0
      BY <2>1, <3>1 DEF FieldPlain
    <3>3. CASE c[l] = c[l - 1] + 1
      <4>1. g[c[l]].at = f[l].at /\ g[c[l]].kind = f[l].kind
        BY <3>3, CarriesLine
      <4> QED BY <1>1, <3>1, <3>2, <3>3, <4>1
    <3>4. CASE c[l] # c[l - 1] + 1
      <4>1. c[l] = c[l - 1] /\ IsField(f, l, k)
        BY <3>4, CarriesLine
      <4>2. c[l] = j /\ c[l] < Len(g)
        BY <1>1, <2>3, <3>1, <4>1
      <4>3. g[c[l] + 1].at = 0 /\ g[c[l] + 1].kind = "key"
        BY <4>1, <4>2, AfterGone
      <4> QED BY <4>2, <4>3
    <3> QED BY <3>3, <3>4
  <2> QED BY <1>2, <2>1, <2>2, <2>3 DEF FieldPlain
<1>5. ASSUME g[j].kind = "item" PROVE ItemEven(g, j)
  <2>1. ItemEven(f, i) /\ f[i].kind = "item"
    BY <1>2, <1>5 DEF Tidy
  <2>2. PICK l \in 1 .. Len(f) : l = i - 1 /\ l + 1 = i /\ l < Len(f)
    <3>1. i - 1 \in 1 .. Len(f) /\ (i - 1) + 1 = i /\ i - 1 < Len(f)
      BY <1>2, <2>1 DEF ItemEven
    <3> QED BY <3>1
  <2>3. ~IsField(f, l, k)
    <3>1. f[l + 1].kind # "key"
      BY <2>1, <2>2
    <3> QED BY <2>2, <3>1, TidyField DEF IsField
  <2>4. c[l] = c[l - 1] + 1 /\ g[c[l]] = f[l] /\ c[l - 1] \in Nat
    BY <2>3, CarriesLine
  <2>5. c[l] = j - 1 /\ j > 1
    BY <1>1, <1>2, <2>2, <2>4
  <2>6. g[j - 1] = f[i - 1] /\ g[j].at = f[i].at
    BY <1>2, <2>2, <2>4, <2>5
  <2> QED BY <2>1, <2>5, <2>6 DEF ItemEven
<1> QED BY <1>4, <1>5

(* What rewriting, removing or appending a field makes of a tidy file.     *)
Becomes(f, g, k) ==
  /\ g \in Seq(Line) /\ Tidy(g)
  /\ Agree(Parse(f), Parse(g), k)
  /\ \A x : x # k => (HasField(g, x) <=> HasField(f, x))

LEMMA CarriedBecomes ==
  ASSUME NEW f \in Seq(Line), NEW g \in Seq(Line), NEW c, NEW k \in Lifecycle,
         Carries(f, g, c, k), Tidy(f), Valued(g, k)
  PROVE  Becomes(f, g, k)
<1>1. Tidy(g)
  BY CarriedTidy
<1>2. Agree(Parse(f), Parse(g), k)
  BY CarriedReadsTheSame
<1>3. ASSUME NEW x, x # k, HasField(g, x) PROVE HasField(f, x)
  <2>1. PICK j \in 1 .. Len(g) : IsField(g, j, x)
    BY <1>3 DEF HasField
  <2>2. PICK i \in 1 .. Len(f) : c[i] = j /\ c[i] = c[i - 1] + 1
    BY CarriedFrom
  <2>3. g[c[i]].at = f[i].at /\ g[c[i]].kind = f[i].kind /\ g[c[i]].key = f[i].key
    BY <2>2, CarriesLine
  <2>4. IsField(f, i, x)
    BY <2>1, <2>2, <2>3 DEF IsField
  <2> QED BY <2>4 DEF HasField
<1>4. ASSUME NEW x, x # k, HasField(f, x) PROVE HasField(g, x)
  <2>1. PICK i \in 1 .. Len(f) : IsField(f, i, x)
    BY <1>4 DEF HasField
  <2>2. ~IsField(f, i, k)
    BY <1>4, <2>1 DEF IsField
  <2>3. PICK j \in 1 .. Len(g) : j = c[i] /\ g[j] = f[i]
    <3>1. c[i] = c[i - 1] + 1 /\ g[c[i]] = f[i]
      BY <2>2, CarriesLine
    <3>2. c[i] \in 1 .. Len(g)
      BY <3>1, CarriesLine
    <3> QED BY <3>1, <3>2
  <2>4. IsField(g, j, x)
    BY <2>1, <2>3 DEF IsField
  <2> QED BY <2>4 DEF HasField
<1> QED BY <1>1, <1>2, <1>3, <1>4 DEF Becomes

LEMMA KeyIsLine ==
  ASSUME NEW k \in Lifecycle, NEW v \in Texts
  PROVE  Key(0, k, v) \in Line
<1>1. k \in Texts
  BY MatterAssumption
<1> QED BY <1>1 DEF Key, Line

(* Rewriting a field carries every line. *)
LEMMA RewrittenBecomes ==
  ASSUME NEW f \in Seq(Line), Tidy(f), NEW k \in Lifecycle, NEW v \in Texts, v # NoValue
  PROVE  LET g == Rewritten(f, k, v)
         IN /\ Becomes(f, g, k)
            /\ HasField(f, k) => HasField(g, k)
            /\ \A j \in 1 .. Len(g) : IsField(g, j, k) => g[j].val = v
<1>1. PICK h : h = [i \in 1 .. Len(f) |-> IF i \in Places(f, k) THEN Key(0, k, v) ELSE f[i]]
  OBVIOUS
<1>2. /\ h \in Seq(Line) /\ Len(h) = Len(f) /\ Len(f) \in Nat
      /\ \A i \in 1 .. Len(f) : h[i] = IF i \in Places(f, k) THEN Key(0, k, v) ELSE f[i]
  <2>1. Key(0, k, v) \in Line
    BY KeyIsLine
  <2>2. \A i \in 1 .. Len(f) : h[i] \in Line
    BY <1>1, <2>1, LineTypes
  <2>3. Len(f) \in Nat
    OBVIOUS
  <2> QED BY ONLY <1>1, <2>2, <2>3
<1>3. Rewritten(f, k, v) = Only(h, 1 .. Len(f))
  <2>1. ((1 .. Len(f)) \ Places(f, k)) \cup Places(f, k) = 1 .. Len(f)
    BY DEF Places
  <2> QED BY <1>1, <2>1, PlainMatch DEF Rewritten
<1>4. PICK c : c = Count(1 .. Len(f), Len(f))
  OBVIOUS
<1>5. PICK g : g = Rewritten(f, k, v)
  OBVIOUS
<1>6. /\ Climbs(c, Len(f)) /\ g \in Seq(Line) /\ Len(g) = c[Len(f)]
      /\ \A i \in 1 .. Len(f) : c[i] = c[i - 1] + 1 /\ g[c[i]] = h[i]
  BY <1>2, <1>3, <1>4, <1>5, OnlyKeeps
<1>7. \A i \in 1 .. Len(f) : g[c[i]] = f[i] \/ (IsField(f, i, k) /\ IsField(g, c[i], k))
  <2> TAKE i \in 1 .. Len(f)
  <2>1. CASE i \in Places(f, k)
    <3>1. g[c[i]] = Key(0, k, v)
      BY <1>2, <1>6, <2>1
    <3>2. IsField(g, c[i], k)
      BY <3>1 DEF IsField, Key
    <3> QED BY <2>1, <3>2 DEF Places
  <2>2. CASE i \notin Places(f, k)
    BY <1>2, <1>6, <2>2
  <2> QED BY <2>1, <2>2
<1>8. Carries(f, g, c, k)
  <2>1. c \in [0 .. Len(f) -> 0 .. Len(g)]
    <3>1. c = [i \in 0 .. Len(f) |-> c[i]]
      BY <1>4 DEF Count
    <3>2. \A i \in 0 .. Len(f) : c[i] \in Nat /\ c[i] <= c[Len(f)]
      <4> TAKE i \in 0 .. Len(f)
      <4>1. Len(f) \in 0 .. Len(f) /\ i <= Len(f)
        BY <1>2
      <4>2. c[i] <= c[Len(f)]
        BY <1>2, <1>6, <4>1, ClimbsUp
      <4> QED BY <1>6, <4>2 DEF Climbs
    <3>3. \A i \in 0 .. Len(f) : c[i] \in 0 .. Len(g)
      BY <1>6, <3>2
    <3> QED BY <3>1, <3>3
  <2>2. c[0] = 0
    BY <1>6 DEF Climbs
  <2> QED BY <1>6, <1>7, <2>1, <2>2 DEF Carries
<1>9. ASSUME NEW j \in 1 .. Len(g), IsField(g, j, k) PROVE g[j].val = v
  <2>1. PICK i \in 1 .. Len(f) : c[i] = j
    BY <1>6, <1>8, CarriedFrom
  <2>2. g[j] = h[i]
    BY <1>6, <2>1
  <2>3. i \in Places(f, k)
    BY <1>2, <1>9, <2>2 DEF Places, IsField
  <2> QED BY <1>2, <2>2, <2>3 DEF Key
<1>10. ASSUME HasField(f, k) PROVE HasField(g, k)
  <2>1. PICK i \in 1 .. Len(f) : IsField(f, i, k)
    BY <1>10 DEF HasField
  <2>2. c[i] \in 1 .. Len(g) /\ IsField(g, c[i], k)
    <3>1. g[c[i]].at = f[i].at /\ g[c[i]].kind = f[i].kind /\ g[c[i]].key = f[i].key /\ c[i] \in 1 .. Len(g)
      BY <1>6, <1>8, CarriesLine
    <3> QED BY <2>1, <3>1 DEF IsField
  <2> QED BY <2>2 DEF HasField
<1>11. Becomes(f, g, k)
  BY <1>6, <1>8, <1>9, CarriedBecomes DEF Valued
<1> QED BY <1>5, <1>9, <1>10, <1>11

(* Removing it carries all but its own. *)
LEMMA RemovedBecomes ==
  ASSUME NEW f \in Seq(Line), Tidy(f), NEW k \in Lifecycle
  PROVE  Becomes(f, Removed(f, k), k) /\ ~HasField(Removed(f, k), k)
<1>1. PICK g : g = Removed(f, k)
  OBVIOUS
<1>2. PICK kept : kept = (1 .. Len(f)) \ Places(f, k)
  OBVIOUS
<1>3. PICK c : c = Count(kept, Len(f))
  OBVIOUS
<1>4. g = Only(f, kept) /\ kept \in SUBSET (1 .. Len(f)) /\ Len(f) \in Nat
  <2>1. Run(f, k) = Places(f, k)
    BY PlainMatch
  <2>2. Removed(f, k) = Only(f, kept)
    BY <1>2, <2>1 DEF Removed
  <2> QED BY <1>1, <1>2, <2>2
<1>5. /\ Climbs(c, Len(f)) /\ g \in Seq(Line) /\ Len(g) = c[Len(f)]
      /\ \A i \in 1 .. Len(f) : IF i \in kept THEN c[i] = c[i - 1] + 1 /\ g[c[i]] = f[i]
                                              ELSE c[i] = c[i - 1]
  BY <1>3, <1>4, OnlyKeeps
<1>6. \A i \in 1 .. Len(f) : i \in kept <=> ~IsField(f, i, k)
  BY <1>2 DEF Places
<1>7. Carries(f, g, c, k)
  <2>1. c \in [0 .. Len(f) -> 0 .. Len(g)]
    <3>1. c = [i \in 0 .. Len(f) |-> c[i]]
      BY <1>3 DEF Count
    <3>2. \A i \in 0 .. Len(f) : c[i] \in Nat /\ c[i] <= c[Len(f)]
      <4> TAKE i \in 0 .. Len(f)
      <4>1. Len(f) \in 0 .. Len(f) /\ i <= Len(f)
        BY <1>4
      <4>2. c[i] <= c[Len(f)]
        BY <1>4, <1>5, <4>1, ClimbsUp
      <4> QED BY <1>5, <4>2 DEF Climbs
    <3>3. \A i \in 0 .. Len(f) : c[i] \in 0 .. Len(g)
      BY <1>5, <3>2
    <3> QED BY <3>1, <3>3
  <2>2. c[0] = 0
    BY <1>5 DEF Climbs
  <2> QED BY <1>5, <1>6, <2>1, <2>2 DEF Carries
<1>8. ASSUME NEW j \in 1 .. Len(g) PROVE ~IsField(g, j, k)
  <2>1. PICK i \in 1 .. Len(f) : c[i] = j /\ c[i] = c[i - 1] + 1
    BY <1>5, <1>7, CarriedFrom
  <2>2. i \in kept
    <3>1. c[i - 1] \in Nat
      BY <1>5, <1>7, CarriesLine
    <3> QED BY <1>5, <2>1, <3>1
  <2>3. g[j] = f[i] /\ ~IsField(f, i, k)
    BY <1>5, <1>6, <2>1, <2>2
  <2> QED BY <2>3 DEF IsField
<1>9. Becomes(f, g, k)
  BY <1>5, <1>7, <1>8, CarriedBecomes DEF Valued
<1> QED BY <1>1, <1>8, <1>9 DEF HasField

(* A field that is appended is one that goes when the file is read back.   *)
LEMMA AppendedBecomes ==
  ASSUME NEW f \in Seq(Line), Tidy(f), NEW k \in Lifecycle, NEW v \in Texts, v # NoValue, ~HasField(f, k)
  PROVE  LET g == Append(f, Key(0, k, v))
         IN /\ Becomes(f, g, k) /\ HasField(g, k)
            /\ \A j \in 1 .. Len(g) : IsField(g, j, k) => g[j].val = v
<1>1. PICK g : g = Append(f, Key(0, k, v))
  OBVIOUS
<1>2. PICK n : n = Len(f)
  OBVIOUS
<1>3. /\ n \in Nat /\ g \in Seq(Line) /\ Len(g) = n + 1 /\ g[n + 1] = Key(0, k, v)
      /\ \A i \in 1 .. n : g[i] = f[i]
  <2>1. Key(0, k, v) \in Line
    BY KeyIsLine
  <2> QED BY <1>1, <1>2, <2>1
<1>4. IsField(g, n + 1, k)
  BY <1>3 DEF IsField, Key
<1>5. Tidy(g)
  <2> SUFFICES ASSUME NEW i \in 1 .. n + 1
               PROVE  /\ g[i].key \in Lifecycle => FieldPlain(g, i)
                      /\ g[i].kind = "item" => ItemEven(g, i)
    BY <1>3 DEF Tidy
  <2>1. CASE i = n + 1
    <3>1. FieldPlain(g, i) /\ g[i].kind # "item"
      BY <1>3, <2>1 DEF FieldPlain, Key
    <3> QED BY <3>1
  <2>2. CASE i # n + 1
    <3>1. i \in 1 .. n /\ i < n + 1 /\ i + 1 \in 1 .. n + 1 /\ (i + 1 = n + 1 \/ (i < n /\ i + 1 \in 1 .. n))
      BY <1>3, <2>2
    <3>2. g[i] = f[i] /\ (f[i].key \in Lifecycle => FieldPlain(f, i)) /\ (f[i].kind = "item" => ItemEven(f, i))
      BY <1>2, <1>3, <3>1 DEF Tidy
    <3>3. g[i].key \in Lifecycle => FieldPlain(g, i)
      BY <1>2, <1>3, <3>1, <3>2 DEF FieldPlain, Key
    <3>4. i > 1 => g[i - 1] = f[i - 1]
      BY <1>3, <3>1
    <3>5. g[i].kind = "item" => ItemEven(g, i)
      BY <3>2, <3>4 DEF ItemEven
    <3> QED BY <3>3, <3>5
  <2> QED BY <2>1, <2>2
<1>6. PICK c : c = [i \in 0 .. n + 1 |-> IF i = n + 1 THEN n ELSE i]
  OBVIOUS
<1>7. Carries(g, f, c, k)
  <2>1. c \in [0 .. n + 1 -> 0 .. n] /\ c[0] = 0 /\ c[n + 1] = n
    BY <1>3, <1>6
  <2>2. ASSUME NEW i \in 1 .. n + 1
        PROVE  \/ c[i] = c[i - 1] + 1 /\ f[c[i]] = g[i]
               \/ c[i] = c[i - 1] /\ IsField(g, i, k)
    <3>1. CASE i = n + 1
      BY <1>3, <1>4, <1>6, <3>1
    <3>2. CASE i # n + 1
      <4>1. i \in 1 .. n /\ c[i] = i /\ c[i - 1] = i - 1
        BY <1>3, <1>6, <3>2
      <4> QED BY <1>3, <4>1
    <3> QED BY <3>1, <3>2
  <2> QED BY <1>2, <1>3, <2>1, <2>2 DEF Carries
<1>8. Valued(f, k)
  BY DEF Valued, HasField
<1>9. Becomes(g, f, k)
  BY <1>3, <1>5, <1>7, <1>8, CarriedBecomes
<1>10. Becomes(f, g, k)
  BY <1>3, <1>5, <1>9 DEF Becomes, Agree
<1>11. HasField(g, k)
  BY <1>3, <1>4 DEF HasField
<1>12. ASSUME NEW j \in 1 .. Len(g), IsField(g, j, k) PROVE g[j].val = v
  <2>1. j \notin 1 .. n
    BY <1>2, <1>3, <1>12 DEF HasField, IsField
  <2>2. j = n + 1
    BY <1>3, <2>1
  <2> QED BY <1>3, <2>2 DEF Key
<1> QED BY <1>1, <1>10, <1>11, <1>12

---------------------------------------------------------------------------
(* What a reader finds of a field after it is written. *)
Found(g, i, a, k, v) ==
  /\ k \in DOMAIN a.fields <=> \E j \in 1 .. i : IsField(g, j, k)
  /\ k \in DOMAIN a.fields => a.fields[k] = Scalar(v)

(* A line of the field is found with its value, another leaves it alone.   *)
LEMMA FoundStep ==
  ASSUME NEW g \in Seq(Line), Tidy(g), NEW k \in Lifecycle, NEW v,
         NEW i \in 1 .. Len(g), IsField(g, i, k) => g[i].val = v,
         NEW a, Held(g, i - 1, a), Found(g, i - 1, a, k, v)
  PROVE  Found(g, i, ReadLine(g, a, i), k, v)
<1>1. PICK b : b = ReadLine(g, a, i)
  OBVIOUS
<1>2. Shaped(a) /\ a.skip \in Nat /\ g[i].kind \in {"key", "item", "blank"} /\ Len(g) \in Nat
  BY LineTypes DEF Held, Shaped
<1>3. (\E j \in 1 .. i : IsField(g, j, k)) <=> IsField(g, i, k) \/ \E j \in 1 .. i - 1 : IsField(g, j, k)
  <2>1. 1 .. i = (1 .. i - 1) \cup {i}
    OBVIOUS
  <2> QED BY <2>1
<1>4. CASE IsField(g, i, k)
  <2>1. g[i].kind = "key" /\ g[i].at = 0 /\ g[i].key = k /\ g[i].val = v
    BY <1>4 DEF IsField
  <2>2. a.skip = 0
    <3>1. a.skip > 0 => i \in (i - 1) + 1 .. (i - 1) + a.skip
      BY <1>2
    <3>2. a.skip > 0 => g[i].at > 0
      BY <3>1 DEF Held
    <3> QED BY <1>2, <2>1, <3>2
  <2>3. Under(g, i) = "none"
    <3>1. i < Len(g) => g[i + 1].at = 0
      BY <2>1, TidyField
    <3> QED BY <2>1, <3>1 DEF Under
  <2>4. b.fields = With(a.fields, k, Scalar(v))
    BY <1>1, <1>2, <2>1, <2>2, <2>3, LineRead
  <2>5. k \in DOMAIN b.fields /\ b.fields[k] = Scalar(v)
    BY <2>4 DEF With
  <2> QED BY <1>1, <1>3, <1>4, <2>5 DEF Found
<1>5. CASE ~IsField(g, i, k)
  <2>1. g[i].key # k
    BY <1>5, TidyField
  <2> DEFINE same(r) == (k \in DOMAIN r <=> k \in DOMAIN a.fields) /\ (k \in DOMAIN r => r[k] = a.fields[k])
  <2>2. ASSUME NEW x, NEW w, x # k PROVE same(With(a.fields, x, w))
    BY <2>2 DEF With
  <2>3. same(a.fields)
    OBVIOUS
  <2>4. a.open # k
    BY DEF Held
  <2> HIDE DEF same
  <2>5. same(b.fields)
    <3>1. CASE a.skip > 0
      BY <1>1, <1>2, <2>3, <3>1, LineRead
    <3>2. CASE a.skip = 0 /\ g[i].kind = "item"
      <4>1. b.fields = ReadItem(a.fields, a.open, g[i].val)
        BY <1>1, <1>2, <3>2, LineRead
      <4> QED BY <2>2, <2>3, <2>4, <4>1 DEF ReadItem
    <3>3. CASE a.skip = 0 /\ g[i].kind = "blank"
      BY <1>1, <1>2, <2>3, <3>3, LineRead
    <3>4. CASE a.skip = 0 /\ g[i].kind = "key"
      <4>1. \E w : b.fields = With(a.fields, g[i].key, w)
        <5>1. CASE Under(g, i) = "item"
          BY <1>1, <1>2, <3>4, <5>1, LineRead
        <5>2. CASE Under(g, i) = "key"
          BY <1>1, <1>2, <3>4, <5>2, LineRead
        <5>3. CASE Under(g, i) \notin {"item", "key"}
          BY <1>1, <1>2, <3>4, <5>3, LineRead
        <5> QED BY <5>1, <5>2, <5>3
      <4> QED BY <2>1, <2>2, <4>1
    <3> QED BY <1>2, <3>1, <3>2, <3>3, <3>4
  <2>6. (k \in DOMAIN b.fields <=> k \in DOMAIN a.fields) /\ (k \in DOMAIN b.fields => b.fields[k] = a.fields[k])
    BY <2>5 DEF same
  <2> QED BY <1>1, <1>3, <1>5, <2>6 DEF Found
<1> QED BY <1>4, <1>5

(* After the whole file. *)
LEMMA FieldRead ==
  ASSUME NEW g \in Seq(Line), Tidy(g), NEW k \in Lifecycle, NEW v,
         \A j \in 1 .. Len(g) : IsField(g, j, k) => g[j].val = v
  PROVE  /\ k \in DOMAIN Parse(g) <=> HasField(g, k)
         /\ k \in DOMAIN Parse(g) => Parse(g)[k] = Scalar(v)
<1> DEFINE S == {i \in 0 .. Len(g) : Found(g, i, Reading(g)[i], k, v)}
<1>1. Len(g) \in Nat
  OBVIOUS
<1>2. 0 \in S
  <2>1. Found(g, 0, Unread, k, v)
    BY DEF Found, Unread
  <2> QED BY <1>1, <2>1, ReadingUnfolds
<1>3. ASSUME NEW i \in 1 .. Len(g), i - 1 \in S PROVE i \in S
  <2>1. PICK a : a = Reading(g)[i - 1]
    OBVIOUS
  <2>2. Found(g, i - 1, a, k, v) /\ Held(g, i - 1, a)
    BY <1>3, <2>1, HeldRead
  <2>3. Reading(g)[i] = ReadLine(g, a, i)
    BY <2>1, ReadingUnfolds
  <2>4. Found(g, i, Reading(g)[i], k, v)
    BY <2>2, <2>3, FoundStep
  <2> QED BY <2>4
<1>4. \A i \in 0 .. Len(g) : i \in S
  <2> HIDE DEF S
  <2> QED BY <1>1, <1>2, <1>3, LineByLine
<1>5. Found(g, Len(g), Reading(g)[Len(g)], k, v)
  BY <1>1, <1>4
<1> QED BY <1>5 DEF Found, Parse, HasField

(* What an update of one field changes of what a reader finds: that field. *)
Changes(f, g, k) ==
  /\ g \in Seq(Line) /\ Tidy(g)
  /\ DOMAIN Parse(g) \ {k} = DOMAIN Parse(f) \ {k}
  /\ \A x : x # k => Field(g, x) = Field(f, x) /\ (HasField(g, x) <=> HasField(f, x))

LEMMA BecomesChanges ==
  ASSUME NEW f, NEW g, NEW k, Becomes(f, g, k)
  PROVE  Changes(f, g, k)
BY DEF Becomes, Changes, Agree, Field

LEMMA SetChanges ==
  ASSUME NEW f \in Seq(Line), Tidy(f), NEW k \in Lifecycle, NEW v, v = NoValue \/ v \in Texts
  PROVE  LET g == SetField(f, k, v)
         IN /\ Changes(f, g, k)
            /\ v = NoValue => g = f
            /\ v # NoValue => Field(g, k) = Scalar(v) /\ HasField(g, k)
<1>1. CASE v = NoValue
  <2>1. SetField(f, k, v) = f
    BY <1>1 DEF SetField
  <2> QED BY <1>1, <2>1 DEF Changes
<1>2. CASE v # NoValue
  <2>1. PICK g : g = SetField(f, k, v)
    OBVIOUS
  <2>2. Becomes(f, g, k) /\ HasField(g, k) /\ \A j \in 1 .. Len(g) : IsField(g, j, k) => g[j].val = v
    <3>1. CASE HasField(f, k)
      <4>1. g = Rewritten(f, k, v)
        BY <1>2, <2>1, <3>1 DEF SetField
      <4> QED BY <1>2, <3>1, <4>1, RewrittenBecomes
    <3>2. CASE ~HasField(f, k)
      <4>1. g = Append(f, Key(0, k, v))
        BY <1>2, <2>1, <3>2 DEF SetField
      <4> QED BY <1>2, <3>2, <4>1, AppendedBecomes
    <3> QED BY <3>1, <3>2
  <2>3. k \in DOMAIN Parse(g) /\ Parse(g)[k] = Scalar(v)
    BY <2>2, FieldRead DEF Becomes
  <2>4. Field(g, k) = Scalar(v)
    BY <2>3 DEF Field
  <2> QED BY <1>2, <2>1, <2>2, <2>4, BecomesChanges
<1> QED BY <1>1, <1>2

LEMMA RemovedChanges ==
  ASSUME NEW f \in Seq(Line), Tidy(f), NEW k \in Lifecycle
  PROVE  Changes(f, Removed(f, k), k) /\ Field(Removed(f, k), k) = Unset
<1>1. PICK g : g = Removed(f, k)
  OBVIOUS
<1>2. Becomes(f, g, k) /\ ~HasField(g, k)
  BY <1>1, RemovedBecomes
<1>3. k \notin DOMAIN Parse(g)
  <2>1. \A j \in 1 .. Len(g) : IsField(g, j, k) => g[j].val = NoValue
    BY <1>2 DEF HasField
  <2> QED BY <1>2, <2>1, FieldRead DEF Becomes
<1> QED BY <1>1, <1>2, <1>3, BecomesChanges DEF Field

(* The blank lines at the end hold nothing. *)
LEMMA StrippedIs ==
  ASSUME NEW f \in Seq(Line)
  PROVE  \E n \in 0 .. Len(f) : /\ Stripped(f) = SubSeq(f, 1, n)
                               /\ \A i \in n + 1 .. Len(f) : f[i].kind = "blank"
<1> DEFINE blank(n) == \A i \in n + 1 .. Len(f) : f[i].kind = "blank"
           ends == {n \in 0 .. Len(f) : blank(n)}
<1>1. Len(f) \in ends /\ ends \in SUBSET Nat
  OBVIOUS
<1>2. PICK n \in ends : \A m \in ends : n <= m
  <2> HIDE DEF ends
  <2> QED BY <1>1, LeastIsLeast
<1> DEFINE end == CHOOSE m \in 0 .. Len(f) : blank(m) /\ \A l \in 0 .. Len(f) : blank(l) => m <= l
<1>3. Stripped(f) = SubSeq(f, 1, end)
  BY DEF Stripped
<1>4. n \in 0 .. Len(f) /\ blank(n) /\ \A l \in 0 .. Len(f) : blank(l) => n <= l
  BY <1>2
<1> HIDE DEF blank, ends
<1>5. end \in 0 .. Len(f) /\ blank(end)
  BY <1>4
<1> QED BY <1>3, <1>5 DEF blank

LEMMA PrefixReads ==
  ASSUME NEW f \in Seq(Line), Tidy(f), NEW n \in 0 .. Len(f), \A i \in n + 1 .. Len(f) : f[i].kind = "blank"
  PROVE  LET g == SubSeq(f, 1, n)
         IN /\ g \in Seq(Line) /\ Tidy(g)
            /\ Parse(g) = Parse(f)
            /\ \A x : HasField(g, x) <=> HasField(f, x)
<1>1. PICK g : g = SubSeq(f, 1, n)
  OBVIOUS
<1>2. /\ g \in Seq(Line) /\ Len(g) = n /\ n \in Nat /\ Len(f) \in Nat /\ n <= Len(f)
      /\ \A i \in 1 .. n : g[i] = f[i]
  BY <1>1
<1>3. ASSUME NEW i \in 1 .. Len(f), f[i].kind # "blank" PROVE i \in 1 .. n
  BY <1>2, <1>3
<1>4. Tidy(g)
  <2> SUFFICES ASSUME NEW i \in 1 .. n
               PROVE  /\ g[i].key \in Lifecycle => FieldPlain(g, i)
                      /\ g[i].kind = "item" => ItemEven(g, i)
    BY <1>2 DEF Tidy
  <2>1. i \in 1 .. Len(f) /\ g[i] = f[i] /\ (i < n => i < Len(f) /\ g[i + 1] = f[i + 1]) /\ (i > 1 => g[i - 1] = f[i - 1])
    BY <1>2
  <2>2. (f[i].key \in Lifecycle => FieldPlain(f, i)) /\ (f[i].kind = "item" => ItemEven(f, i))
    BY <2>1 DEF Tidy
  <2> QED BY <1>2, <2>1, <2>2 DEF FieldPlain, ItemEven
<1>5. ASSUME NEW i \in 1 .. n
      PROVE  /\ Under(g, i) = "item" <=> Under(f, i) = "item"
             /\ Under(g, i) = "key" <=> Under(f, i) = "key"
  <2>1. g[i] = f[i] /\ (i < n => g[i + 1] = f[i + 1])
    BY <1>2
  <2>2. i = n /\ i < Len(f) => f[i + 1].kind = "blank"
    BY <1>2
  <2> QED BY <1>2, <2>1, <2>2 DEF Under
<1>6. ASSUME NEW i \in 1 .. n PROVE Block(g, i) = Block(f, i)
  <2> DEFINE kinds == {"key", "item"}
  <2>1. i \in 1 .. Len(f) /\ i \in 1 .. Len(g)
    BY <1>2
  <2>2. PICK s : RunIs(f, i, kinds, s) /\ Following(f, i, kinds) = LinesAfter(f, i, s)
    BY <2>1, FollowingIs
  <2>3. /\ s \in 0 .. Len(f) - i
        /\ \A j \in i + 1 .. i + s : InRun(f, i, kinds, j)
        /\ ~InRun(f, i, kinds, i + s + 1)
    BY <2>2 DEF RunIs
  <2>4. i + s <= n
    <3>1. CASE s = 0
      BY <1>2, <3>1
    <3>2. CASE s # 0
      <4>1. PICK j \in i + 1 .. i + s : j = i + s
        BY <2>3, <3>2
      <4>2. j \in 1 .. Len(f) /\ f[j].kind # "blank"
        BY <2>3, <4>1, <1>2 DEF InRun
      <4> QED BY <1>3, <4>1, <4>2
    <3> QED BY <3>1, <3>2
  <2>5. \A j \in i + 1 .. i + s : InRun(g, i, kinds, j)
    <3> TAKE j \in i + 1 .. i + s
    <3>1. j \in 1 .. n /\ g[j] = f[j] /\ g[i] = f[i]
      BY <1>2, <2>3, <2>4
    <3>2. InRun(f, i, kinds, j)
      BY <2>3
    <3> QED BY <1>2, <3>1, <3>2 DEF InRun
  <2>6. ~InRun(g, i, kinds, i + s + 1)
    <3>1. i + s + 1 <= n => g[i + s + 1] = f[i + s + 1] /\ g[i] = f[i]
      BY <1>2, <2>3
    <3> QED BY <1>2, <2>3, <3>1 DEF InRun
  <2>7. RunIs(g, i, kinds, s)
    BY <1>2, <2>3, <2>4, <2>5, <2>6 DEF RunIs
  <2>8. Following(g, i, kinds) = LinesAfter(g, i, s)
    BY ONLY <1>2, <2>1, <2>7, FollowingUnique
  <2>9. LinesAfter(g, i, s) = LinesAfter(f, i, s)
    BY <1>2, <2>3, <2>4 DEF LinesAfter
  <2> QED BY <2>2, <2>8, <2>9 DEF Block
<1>7. ASSUME NEW i \in 1 .. n, NEW a, Shaped(a) PROVE ReadLine(g, a, i) = ReadLine(f, a, i)
  <2>1. g[i] = f[i] /\ Block(g, i) = Block(f, i) /\ f[i].kind \in {"key", "item", "blank"}
    BY <1>2, <1>6, LineTypes
  <2>2. CASE f[i].kind # "key"
    BY <2>1, <2>2 DEF ReadLine
  <2>3. CASE f[i].kind = "key"
    <3>1. ReadKey(g, a, i) = ReadKey(f, a, i)
      <4>1. CASE Under(f, i) = "item"
        BY <1>5, <2>1, <4>1 DEF ReadKey
      <4>2. CASE Under(f, i) = "key"
        BY <1>5, <2>1, <4>2 DEF ReadKey
      <4>3. CASE Under(f, i) \notin {"item", "key"}
        BY <1>5, <2>1, <4>3 DEF ReadKey
      <4> QED BY <4>1, <4>2, <4>3
    <3> QED BY <2>1, <3>1 DEF ReadLine
  <2> QED BY <2>2, <2>3
<1>8. \A i \in 0 .. n : Reading(g)[i] = Reading(f)[i]
  <2> DEFINE S == {i \in 0 .. n : Reading(g)[i] = Reading(f)[i]}
  <2>1. 0 \in S
    BY <1>2, ReadingUnfolds
  <2>2. ASSUME NEW i \in 1 .. n, i - 1 \in S PROVE i \in S
    <3>1. PICK a : a = Reading(f)[i - 1] /\ a = Reading(g)[i - 1]
      BY <2>2
    <3>2. Shaped(a)
      <4>1. i - 1 \in 0 .. Len(f)
        BY <1>2
      <4> QED BY <3>1, <4>1, HeldRead DEF Held
    <3>3. i \in 1 .. Len(f) /\ i \in 1 .. Len(g)
      BY <1>2
    <3>4. Reading(f)[i] = ReadLine(f, a, i) /\ Reading(g)[i] = ReadLine(g, a, i)
      BY <1>2, <3>1, <3>3, ReadingUnfolds
    <3> QED BY <1>7, <3>2, <3>4
  <2>3. \A i \in 0 .. n : i \in S
    <3> HIDE DEF S
    <3> QED BY <1>2, <2>1, <2>2, LineByLine
  <2> QED BY <2>3
<1>9. \A i \in 0 .. Len(f) : n <= i => Reading(f)[i].fields = Reading(f)[n].fields
  <2> DEFINE S == {i \in 0 .. Len(f) : n <= i => Reading(f)[i].fields = Reading(f)[n].fields}
  <2>1. 0 \in S
    BY <1>2
  <2>2. ASSUME NEW i \in 1 .. Len(f), i - 1 \in S PROVE i \in S
    <3>1. CASE i <= n
      <4>1. n <= i => i = n
        BY <1>2, <3>1
      <4> QED BY <4>1
    <3>2. CASE ~(i <= n)
      <4>1. n <= i - 1 /\ i - 1 \in 0 .. Len(f) /\ i \in n + 1 .. Len(f)
        BY <1>2, <3>2
      <4>2. PICK a : a = Reading(f)[i - 1]
        OBVIOUS
      <4>3. a.fields = Reading(f)[n].fields /\ Shaped(a)
        BY <2>2, <4>1, <4>2, HeldRead DEF Held
      <4>4. Reading(f)[i] = ReadLine(f, a, i) /\ f[i].kind = "blank"
        BY <4>1, <4>2, ReadingUnfolds
      <4>5. a.skip > 0 \/ a.skip = 0
        BY <4>3 DEF Shaped
      <4>6. ReadLine(f, a, i).fields = a.fields
        BY <4>3, <4>4, <4>5, LineRead
      <4> QED BY <4>3, <4>4, <4>6
    <3> QED BY <3>1, <3>2
  <2>3. \A i \in 0 .. Len(f) : i \in S
    <3> HIDE DEF S
    <3> QED BY <1>2, <2>1, <2>2, LineByLine
  <2> QED BY <2>3
<1>10. Parse(g) = Parse(f)
  <2>1. Reading(g)[n] = Reading(f)[n] /\ Reading(f)[Len(f)].fields = Reading(f)[n].fields
    BY <1>2, <1>8, <1>9
  <2> QED BY <1>2, <2>1 DEF Parse
<1>11. ASSUME NEW x PROVE HasField(g, x) <=> HasField(f, x)
  <2>1. \A i \in 1 .. n : IsField(g, i, x) <=> IsField(f, i, x)
    BY <1>2 DEF IsField
  <2>2. \A i \in 1 .. Len(f) : IsField(f, i, x) => i \in 1 .. n
    BY <1>3 DEF IsField
  <2>3. \A i \in 1 .. n : i \in 1 .. Len(f)
    BY <1>2
  <2> QED BY <1>2, <2>1, <2>2, <2>3 DEF HasField
<1> QED BY <1>1, <1>2, <1>4, <1>10, <1>11

LEMMA ClearedChanges ==
  ASSUME NEW f \in Seq(Line), Tidy(f), NEW k \in Lifecycle
  PROVE  LET g == Stripped(Removed(f, k)) IN Changes(f, g, k) /\ Field(g, k) = Unset
<1>1. PICK r : r = Removed(f, k)
  OBVIOUS
<1>2. Changes(f, r, k) /\ Field(r, k) = Unset /\ r \in Seq(Line) /\ Tidy(r)
  BY <1>1, RemovedChanges DEF Changes
<1>3. PICK n \in 0 .. Len(r) : /\ Stripped(r) = SubSeq(r, 1, n)
                              /\ \A i \in n + 1 .. Len(r) : r[i].kind = "blank"
  BY <1>2, StrippedIs
<1>4. PICK g : g = Stripped(r)
  OBVIOUS
<1>5. g \in Seq(Line) /\ Tidy(g) /\ Parse(g) = Parse(r) /\ \A x : HasField(g, x) <=> HasField(r, x)
  BY <1>2, <1>3, <1>4, PrefixReads
<1>6. \A x : Field(g, x) = Field(r, x)
  BY <1>5 DEF Field
<1>7. Changes(f, g, k)
  BY <1>2, <1>5, <1>6 DEF Changes
<1> QED BY <1>1, <1>2, <1>4, <1>6, <1>7

---------------------------------------------------------------------------
(* A whole update. *)

(* What an update is called with. *)
LEMMA CallTypes ==
  ASSUME NEW call \in UpdateCalls
  PROVE  /\ call.status \in {"dispatched", "ready", "done", "failed"}
         /\ call.status # NoValue /\ call.status \in Texts /\ call.status \in Canonical
         /\ call.wid = NoValue \/ call.wid \in Texts
         /\ call.verdict = NoValue \/ call.verdict \in Texts
         /\ call.reason = NoValue \/ call.reason \in Texts
<1>1. /\ call.status \in {"dispatched", "ready", "done", "failed"}
      /\ call.wid \in Values \cup {NoValue} /\ call.verdict \in Values \cup {NoValue}
      /\ call.reason \in Values \cup {NoValue}
  BY DEF UpdateCalls, UpdateCall
<1>2. \A x \in {"dispatched", "ready", "done", "failed"} : x # NoValue
  BY Zenon DEF NoValue
<1>3. \A x \in {"dispatched", "ready", "done", "failed"} : x \in Texts /\ x \in Canonical
  BY MatterAssumption DEF Closing, Canonical
<1> QED BY <1>1, <1>2, <1>3, MatterAssumption

(* An update sets, clears or keeps each field of the lifecycle.            *)
LEMMA UpdateChanges ==
  ASSUME NEW f \in Seq(Line), Tidy(f), HasField(f, "status"), NEW call \in UpdateCalls
  PROVE  LET g == Update(f, call)
         IN /\ Tidy(g) /\ HasField(g, "status")
            /\ DOMAIN Parse(g) \ Lifecycle = DOMAIN Parse(f) \ Lifecycle
            /\ \A x : x \notin Lifecycle => Field(g, x) = Field(f, x)
            /\ Field(g, "status") = Scalar(call.status)
            /\ call.wid # NoValue => Field(g, "workflow_id") = Scalar(call.wid)
            /\ call.wid = NoValue /\ call.clear => Field(g, "workflow_id") = Unset
            /\ call.wid = NoValue /\ ~call.clear => Field(g, "workflow_id") = Field(f, "workflow_id")
            /\ call.verdict # NoValue => Field(g, "verdict") = Scalar(call.verdict)
            /\ call.verdict = NoValue => Field(g, "verdict") = Field(f, "verdict")
<1>1. PICK f1 : f1 = Rewritten(f, "status", call.status)
  OBVIOUS
<1>2. PICK f2 : f2 = SetField(f1, "dispatched_at", IF call.status = "dispatched" THEN "now" ELSE NoValue)
  OBVIOUS
<1>3. PICK f3 : f3 = SetField(f2, "completed_at", IF call.status \in Closing THEN "now" ELSE NoValue)
  OBVIOUS
<1>4. PICK f4 : f4 = IF call.clear THEN Stripped(Removed(f3, "workflow_id")) ELSE f3
  OBVIOUS
<1>5. PICK f5 : f5 = SetField(f4, "workflow_id", call.wid)
  OBVIOUS
<1>6. PICK f6 : f6 = SetField(f5, "verdict", call.verdict)
  OBVIOUS
<1>7. PICK g : g = SetField(f6, "audit_reason", call.reason)
  OBVIOUS
<1>8. Update(f, call) = g
  <2>1. f # NoMatter
    BY DEF HasField, NoMatter
  <2> QED BY <1>1, <1>2, <1>3, <1>4, <1>5, <1>6, <1>7, <2>1 DEF Update
<1>9. /\ "status" \in Lifecycle /\ "workflow_id" \in Lifecycle /\ "verdict" \in Lifecycle
      /\ "dispatched_at" \in Lifecycle /\ "completed_at" \in Lifecycle /\ "audit_reason" \in Lifecycle
  BY DEF Lifecycle
<1>10. /\ call.status \in Texts /\ call.status # NoValue
       /\ call.wid = NoValue \/ call.wid \in Texts
       /\ call.verdict = NoValue \/ call.verdict \in Texts
       /\ call.reason = NoValue \/ call.reason \in Texts
  BY CallTypes
<1>11. "now" \in Texts
  BY MatterAssumption
<1>12. Changes(f, f1, "status") /\ Field(f1, "status") = Scalar(call.status) /\ HasField(f1, "status")
  <2>1. f1 = SetField(f, "status", call.status)
    BY <1>1, <1>10 DEF SetField
  <2> QED BY <1>9, <1>10, <2>1, SetChanges
<1>13. Changes(f1, f2, "dispatched_at")
  <2>1. f1 \in Seq(Line) /\ Tidy(f1)
    BY <1>12 DEF Changes
  <2>2. PICK v : v = IF call.status = "dispatched" THEN "now" ELSE NoValue
    OBVIOUS
  <2> QED BY <1>2, <1>9, <1>11, <2>1, <2>2, SetChanges
<1>14. Changes(f2, f3, "completed_at")
  <2>1. f2 \in Seq(Line) /\ Tidy(f2)
    BY <1>13 DEF Changes
  <2>2. PICK v : v = IF call.status \in Closing THEN "now" ELSE NoValue
    OBVIOUS
  <2> QED BY <1>3, <1>9, <1>11, <2>1, <2>2, SetChanges
<1>15. /\ f4 = f3 \/ Changes(f3, f4, "workflow_id")
       /\ f4 \in Seq(Line) /\ Tidy(f4)
       /\ call.clear => Field(f4, "workflow_id") = Unset
       /\ ~call.clear => f4 = f3
  <2>1. f3 \in Seq(Line) /\ Tidy(f3)
    BY <1>14 DEF Changes
  <2>2. PICK r : r = Stripped(Removed(f3, "workflow_id"))
    OBVIOUS
  <2>3. Changes(f3, r, "workflow_id") /\ Field(r, "workflow_id") = Unset
    BY <1>9, <2>1, <2>2, ClearedChanges
  <2>4. CASE call.clear
    <3>1. f4 = r
      BY <1>4, <2>2, <2>4
    <3> QED BY <2>3, <2>4, <3>1 DEF Changes
  <2>5. CASE ~call.clear
    BY <1>4, <2>1, <2>5
  <2> QED BY <2>4, <2>5
<1>16. /\ Changes(f4, f5, "workflow_id")
       /\ call.wid = NoValue => f5 = f4
       /\ call.wid # NoValue => Field(f5, "workflow_id") = Scalar(call.wid)
  BY <1>5, <1>9, <1>10, <1>15, SetChanges
<1>17. /\ Changes(f5, f6, "verdict")
       /\ call.verdict = NoValue => f6 = f5
       /\ call.verdict # NoValue => Field(f6, "verdict") = Scalar(call.verdict)
  <2>1. f5 \in Seq(Line) /\ Tidy(f5)
    BY <1>16 DEF Changes
  <2> QED BY <1>6, <1>9, <1>10, <2>1, SetChanges
<1>18. Changes(f6, g, "audit_reason")
  <2>1. f6 \in Seq(Line) /\ Tidy(f6)
    BY <1>17 DEF Changes
  <2> QED BY <1>7, <1>9, <1>10, <2>1, SetChanges
<1>19. Tidy(g)
  BY <1>18 DEF Changes
<1> DEFINE same(r, t, x) == Field(t, x) = Field(r, x) /\ (HasField(t, x) <=> HasField(r, x))
<1>20. /\ \A x : x # "status" => same(f, f1, x)
       /\ \A x : x # "dispatched_at" => same(f1, f2, x)
       /\ \A x : x # "completed_at" => same(f2, f3, x)
       /\ \A x : x # "workflow_id" => same(f3, f4, x)
       /\ \A x : x # "workflow_id" => same(f4, f5, x)
       /\ \A x : x # "verdict" => same(f5, f6, x)
       /\ \A x : x # "audit_reason" => same(f6, g, x)
  BY <1>12, <1>13, <1>14, <1>15, <1>16, <1>17, <1>18 DEF Changes
<1>21. same(f1, g, "status")
  BY <1>20
<1>22. same(f5, g, "workflow_id") /\ same(f, f3, "workflow_id")
  BY <1>20
<1>23. same(f6, g, "verdict") /\ same(f, f5, "verdict")
  BY <1>20
<1>24. \A x : x \notin Lifecycle => same(f, g, x)
  BY <1>9, <1>20
<1>25. DOMAIN Parse(g) \ Lifecycle = DOMAIN Parse(f) \ Lifecycle
  <2> DEFINE off(r, t, k) == DOMAIN Parse(t) \ {k} = DOMAIN Parse(r) \ {k}
  <2>1. /\ off(f, f1, "status") /\ off(f1, f2, "dispatched_at") /\ off(f2, f3, "completed_at")
        /\ off(f3, f4, "workflow_id") /\ off(f4, f5, "workflow_id") /\ off(f5, f6, "verdict")
        /\ off(f6, g, "audit_reason")
    BY <1>12, <1>13, <1>14, <1>15, <1>16, <1>17, <1>18 DEF Changes
  <2>2. ASSUME NEW r, NEW t, NEW k \in Lifecycle, off(r, t, k)
        PROVE  DOMAIN Parse(t) \ Lifecycle = DOMAIN Parse(r) \ Lifecycle
    BY <2>2
  <2> HIDE DEF off
  <2> QED BY <1>9, <2>1, <2>2
<1> HIDE DEF same
<1>26. Field(g, "status") = Scalar(call.status) /\ HasField(g, "status")
  BY <1>12, <1>21 DEF same
<1>27. /\ call.wid # NoValue => Field(g, "workflow_id") = Scalar(call.wid)
       /\ call.wid = NoValue /\ call.clear => Field(g, "workflow_id") = Unset
       /\ call.wid = NoValue /\ ~call.clear => Field(g, "workflow_id") = Field(f, "workflow_id")
  BY <1>15, <1>16, <1>22 DEF same
<1>28. /\ call.verdict # NoValue => Field(g, "verdict") = Scalar(call.verdict)
       /\ call.verdict = NoValue => Field(g, "verdict") = Field(f, "verdict")
  BY <1>17, <1>23 DEF same
<1>29. \A x : x \notin Lifecycle => Field(g, x) = Field(f, x)
  BY <1>24 DEF same
<1> QED BY <1>8, <1>19, <1>25, <1>26, <1>27, <1>28, <1>29

(* What parse_spec makes of a field depends on the field alone. *)
LEMMA TextRead ==
  ASSUME NEW f, NEW k, NEW d
  PROVE  /\ \A v : Field(f, k) = Scalar(v) => Text(f, k, d) = v
         /\ Field(f, k) = Unset => Text(f, k, d) = d
         /\ \A g : Field(g, k) = Field(f, k) => Text(g, k, d) = Text(f, k, d)
BY DEF Text, Scalar, Unset

(* A field at the margin is a key of the file. *)
LEMMA StatusKey ==
  ASSUME NEW f, HasField(f, "status")
  PROVE  "status" \in {f[i].key : i \in Margin(f)}
BY DEF HasField, IsField, Margin

(* An update that reads well raises no error but for an unknown dependency.*)
LEMMA UpdateValid ==
  ASSUME NEW f \in Seq(Line), Tidy(f), HasField(f, "status"), NEW call \in UpdateCalls
  PROVE  FrontMatterErrors(Update(f, call), Names) \subseteq FrontMatterErrors(f, Names) \cup
           IF ParseSpec(f).status = "ready" THEN {} ELSE {"unknown_dependency"}
<1>1. PICK g : g = Update(f, call)
  OBVIOUS
<1>2. HasField(g, "status") /\ Field(g, "status") = Scalar(call.status) /\ call.status \in Canonical
  BY <1>1, UpdateChanges, CallTypes
<1>3. Field(g, "depends_on") = Field(f, "depends_on")
  <2>1. "depends_on" \notin Lifecycle
    BY DEF Lifecycle
  <2> QED BY <1>1, <2>1, UpdateChanges
<1>4. ValidDeps(g) = ValidDeps(f)
  BY <1>3, Zenon DEF ValidDeps
<1>5. ParseSpec(g).status = call.status
  BY <1>2, TextRead DEF ParseSpec
<1>6. FrontMatterErrors(g, Names) =
        IF call.status \in {"ready", "dispatched"} /\ ~(ToSet(ValidDeps(f)) \subseteq Names)
        THEN {"unknown_dependency"} ELSE {}
  BY <1>2, <1>4, <1>5, StatusKey DEF FrontMatterErrors
<1>7. ASSUME ParseSpec(f).status = "ready", ~(ToSet(ValidDeps(f)) \subseteq Names)
      PROVE  "unknown_dependency" \in FrontMatterErrors(f, Names)
  BY <1>7, StatusKey DEF FrontMatterErrors
<1> QED BY <1>1, <1>6, <1>7

(* Whatever tidy file has a status, an update of it reaches the reader and *)
(* changes nothing else it finds, in a file that stays tidy and valid      *)
(* (spec.py:108-194 read back by rptor.py:25-242).                         *)
MatterTypes == matter \in Seq(Line)

THEOREM UpdatesAreRead == MatterSpec => []UpdateKeepsTheRest
<1>1. MatterInit => MatterTypes
  BY MatterAssumption DEF MatterInit, MatterTypes
<1>2. MatterTypes /\ [UNCHANGED matter]_matter => MatterTypes'
  BY DEF MatterTypes
<1>3. MatterTypes => UpdateKeepsTheRest
  <2> SUFFICES ASSUME matter \in Seq(Line), Tidy(matter), HasField(matter, "status"), NEW call \in UpdateCalls
               PROVE  LET new == Update(matter, call)
                          old == ParseSpec(matter)
                          written(v, before) == IF v = NoValue THEN before ELSE v
                      IN /\ ParseSpec(new).status = call.status
                         /\ ParseSpec(new).wid = written(call.wid, IF call.clear THEN NoValue ELSE old.wid)
                         /\ ParseSpec(new).verdict = written(call.verdict, old.verdict)
                         /\ DOMAIN Parse(new) \ Lifecycle = DOMAIN Parse(matter) \ Lifecycle
                         /\ \A k \in DOMAIN Parse(matter) \ Lifecycle : Field(new, k) = Field(matter, k)
                         /\ FrontMatterErrors(new, Names) \subseteq FrontMatterErrors(matter, Names) \cup
                              IF old.status = "ready" THEN {} ELSE {"unknown_dependency"}
                         /\ Tidy(new) /\ HasField(new, "status")
    BY DEF UpdateKeepsTheRest, MatterTypes
  <2>1. PICK new : new = Update(matter, call)
    OBVIOUS
  <2>2. ParseSpec(new).status = call.status
    BY <2>1, UpdateChanges, TextRead DEF ParseSpec
  <2>3. ParseSpec(new).wid = IF call.wid = NoValue THEN IF call.clear THEN NoValue ELSE ParseSpec(matter).wid
                                                  ELSE call.wid
    BY <2>1, UpdateChanges, TextRead DEF ParseSpec
  <2>4. ParseSpec(new).verdict = IF call.verdict = NoValue THEN ParseSpec(matter).verdict ELSE call.verdict
    BY <2>1, UpdateChanges, TextRead DEF ParseSpec
  <2>5. /\ DOMAIN Parse(new) \ Lifecycle = DOMAIN Parse(matter) \ Lifecycle
        /\ \A k \in DOMAIN Parse(matter) \ Lifecycle : Field(new, k) = Field(matter, k)
        /\ Tidy(new) /\ HasField(new, "status")
    BY <2>1, UpdateChanges
  <2>6. FrontMatterErrors(new, Names) \subseteq FrontMatterErrors(matter, Names) \cup
          IF ParseSpec(matter).status = "ready" THEN {} ELSE {"unknown_dependency"}
    BY <2>1, UpdateValid
  <2> QED BY <2>1, <2>2, <2>3, <2>4, <2>5, <2>6
<1> QED BY <1>1, <1>2, <1>3, PTL DEF MatterSpec
=============================================================================
