------------------------------ MODULE SpecOrder ------------------------------
(***************************************************************************)
(* How a plan directory is put in order before anything of it is           *)
(* dispatched: resolve_dag searches it for a cycle, depth first, and       *)
(* refuses it when there is one; the specs that are chosen afterwards are  *)
(* sorted by Kahn's algorithm.  A step is one call or return of dfs, or    *)
(* one round of the sort.                                                  *)
(*                                                                         *)
(* src/mtor/rptor.py, _find_cycle and topological_sort, as resolve_dag and *)
(* its callers run them one after the other                                *)
(***************************************************************************)
EXTENDS SpecGraph

CONSTANT Directories   \* what the plan directory may hold

Parsed == [deps : Seq(Nat), status : STRING, priority : STRING, scope : SUBSET STRING,
           tests : BOOLEAN, body : SUBSET STRING]

ASSUME OrderAssumption ==
  \A d \in Directories : DOMAIN d \subseteq Nat /\ \A n \in DOMAIN d : d[n] \in Parsed

VARIABLES
  dir,       \* the specs, by name
  phase,     \* "search", "refused", "resolved", "sort", "sorted"
  todo,      \* names the outer loop has not come to
  path,      \* the names dfs is called with, outermost first
  pos,       \* for each of them, the dependency its loop is at
  visited,
  cycle,     \* what _find_cycle returns, or <<>>
  finished,  \* history: the names in the order dfs has returned from them
  chosen,    \* the specs given to topological_sort
  degree,    \* in_degree
  queue,     \* kept sorted: the least is taken
  sorted     \* result

searchVars == <<todo, path, pos, visited, cycle, finished>>
sortVars   == <<chosen, degree, queue, sorted>>
orderVars  == <<dir, phase, searchVars, sortVars>>

Least(S) == CHOOSE n \in S : \A m \in S : n <= m

(* Mutant: only names that nothing depends on are searched. *)
StartsAtRoots(d) == {n \in Given(d) : \A m \in Given(d) : n \notin DepsOf(d, m)}

Starts(d) == Given(d)

OrderInit ==
  /\ dir \in Directories /\ phase = "search"
  /\ todo = Starts(dir) /\ path = <<>> /\ pos = <<>> /\ visited = {} /\ cycle = <<>>
  /\ finished = <<>>
  /\ chosen = {} /\ degree = [n \in {} |-> 0] /\ queue = {} /\ sorted = <<>>

(* The outer loop comes to the next name. *)
NextName ==
  /\ phase = "search" /\ path = <<>> /\ todo # {}
  /\ LET n == Least(todo)
     IN /\ todo' = todo \ {n}
        /\ IF n \in visited THEN UNCHANGED <<path, pos>>
                            ELSE path' = <<n>> /\ pos' = <<1>>
  /\ UNCHANGED <<dir, phase, visited, cycle, finished, sortVars>>

Top == path[Len(path)]
At  == pos[Len(pos)]

(* The next dependency of the name on top, which dfs is called with.       *)
Dep == DepList(dir, Top)[At]
Calls == phase = "search" /\ path # <<>> /\ At \in 1 .. Len(DepList(dir, Top))

(* It is on the path: every call returns the cycle, and leaves its name as *)
(* visited.                                                                *)
CycleFound ==
  /\ Calls
  /\ \E i \in 1 .. Len(path) :
       path[i] = Dep /\ cycle' = Append(SubSeq(path, i, Len(path)), Dep)
  /\ phase' = "refused"
  /\ path' = <<>> /\ pos' = <<>> /\ visited' = visited \cup ToSet(path)
  /\ UNCHANGED <<dir, todo, finished, sortVars>>

Skip ==
  /\ Calls /\ Dep \in visited \ ToSet(path)
  /\ pos' = [pos EXCEPT ![Len(pos)] = @ + 1]
  /\ UNCHANGED <<dir, phase, todo, path, visited, cycle, finished, sortVars>>

Enter ==
  /\ Calls /\ Dep \notin visited \cup ToSet(path)
  /\ path' = Append(path, Dep) /\ pos' = Append([pos EXCEPT ![Len(pos)] = @ + 1], 1)
  /\ UNCHANGED <<dir, phase, todo, visited, cycle, finished, sortVars>>

Return ==
  /\ phase = "search" /\ path # <<>> /\ At > Len(DepList(dir, Top))
  /\ visited' = visited \cup {Top} /\ finished' = Append(finished, Top)
  /\ path' = Front(path) /\ pos' = Front(pos)
  /\ UNCHANGED <<dir, phase, todo, cycle, sortVars>>

(* resolve_dag goes on to say what may be dispatched. *)
ResolveDag ==
  /\ phase = "search" /\ path = <<>> /\ todo = {}
  /\ phase' = "resolved"
  /\ UNCHANGED <<dir, searchVars, sortVars>>

(* Occurrences of names in a list of dependencies. *)
Occurrences(list, names) == Cardinality({i \in 1 .. Len(list) : list[i] \in names})

(* Mutant: a dependency outside the chosen specs holds its dependents back. *)
InDegreeInAll(d, part, n) == Occurrences(DepList(d, n), Given(d))

InDegree(d, part, n) == Occurrences(DepList(d, n), part)

StartSort ==
  /\ phase = "resolved" /\ phase' = "sort"
  /\ \E part \in SUBSET Given(dir) :
       /\ chosen' = part
       /\ degree' = [n \in part |-> InDegree(dir, part, n)]
       /\ queue' = {n \in part : InDegree(dir, part, n) = 0}
  /\ sorted' = <<>>
  /\ UNCHANGED <<dir, searchVars>>

Take ==
  /\ phase = "sort" /\ queue # {}
  /\ LET n == Least(queue)
         after(m) == degree[m] - Occurrences(DepList(dir, m), {n})
     IN /\ sorted' = Append(sorted, n)
        /\ degree' = [m \in chosen |-> after(m)]
        /\ queue' = (queue \ {n}) \cup {m \in chosen : degree[m] > 0 /\ after(m) = 0}
  /\ UNCHANGED <<dir, phase, chosen, searchVars>>

EndSort ==
  /\ phase = "sort" /\ queue = {}
  /\ phase' = "sorted"
  /\ UNCHANGED <<dir, searchVars, sortVars>>

OrderNext ==
  \/ NextName \/ CycleFound \/ Skip \/ Enter \/ Return \/ ResolveDag
  \/ StartSort \/ Take \/ EndSort
OrderSpec == OrderInit /\ [][OrderNext]_orderVars

---------------------------------------------------------------------------
(* Specs each of which waits for another of them. *)
Knot(d, s) == s # {} /\ \A n \in s : DepsOf(d, n) \cap s # {}

(* The directory when some of its specs are done and the rest is ready.    *)
After(d, done) ==
  [n \in Given(d) |-> [d[n] EXCEPT !.status = IF n \in done THEN "done" ELSE "ready"]]

(* _find_cycle finds a cycle just when there is one, and what it returns is *)
(* a cycle: each name depends on the next and the last is the first again  *)
(* (rptor.py:370-405; watch, dispatch-all and validation refuse on it).    *)
(* Without a cycle and without a missing name there is always something to *)
(* recommend, and to show as ready, while anything is left to be done      *)
(* (rptor.py:408-434, 481-524, 660-693).                                   *)
CycleFoundIffExists ==
  /\ phase = "refused" =>
       /\ Len(cycle) > 1 /\ cycle[1] = cycle[Len(cycle)] /\ Knot(dir, ToSet(cycle))
       /\ \A i \in 1 .. Len(cycle) - 1 : cycle[i + 1] \in DepsOf(dir, cycle[i])
  /\ phase = "resolved" =>
       /\ \A s \in SUBSET Given(dir) : ~Knot(dir, s)
       /\ (\A n \in Given(dir) : DepsOf(dir, n) \subseteq Given(dir)) =>
            \A done \in (SUBSET Given(dir)) \ {Given(dir)} :
              LET d == After(dir, done)
              IN \E n \in DOMAIN Autotriage(d) : Bucket(d, n) = "ready"

(* topological_sort of specs chosen from a directory without a cycle puts  *)
(* every one of them once, after those of them it depends on               *)
(* (rptor.py:442-473).                                                     *)
SortRespectsGraph ==
  /\ \A i, j \in 1 .. Len(sorted) : i < j => /\ sorted[i] # sorted[j]
                                             /\ sorted[j] \notin DepsOf(dir, sorted[i])
  /\ phase = "sorted" => ToSet(sorted) = chosen
=============================================================================
