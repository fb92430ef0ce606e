--------------------------------- MODULE Reap ---------------------------------
(***************************************************************************)
(* How the worker stops a task: the harness's tree is looked up once, then *)
(* everything that was in it or carries the attempt's marker in its        *)
(* environment is killed until a look finds none of it alive.  Meanwhile   *)
(* processes fork, leave their group, exit and are reparented, and the     *)
(* numbers of dead processes are given to others: a process is known by    *)
(* its number and its start time together.                                 *)
(*                                                                         *)
(* A step of the reaper is one look at the process table, or one check of  *)
(* the start times with the signals that follow it: a number changes hands *)
(* between two steps, never within one.                                    *)
(*                                                                         *)
(* src/mtor/worker/translocase.py, _graceful_kill_group and what it calls  *)
(***************************************************************************)
EXTENDS Integers, FiniteSets

CONSTANTS
  Pids,        \* process numbers
  Leader,      \* the number of the wrapper the worker spawned (proc.pid)
  MaxBirths    \* bound on the processes born after it

ASSUME ReapAssumption == Leader \in Pids /\ 0 \notin Pids /\ MaxBirths \in Nat

VARIABLES
  table,     \* the processes of the host
  births,    \* start times given out
  reaper,    \* the worker's stop of the task
  looked,    \* history: births when the reaper last scanned
  struck,    \* history: a process that is none of the task's was signalled
  replaced   \* history: the tree looked up was that of a process with the wrapper's number

reapVars == <<table, births, reaper, looked, struck, replaced>>

(* mine: born of the harness.  marked: has RIBOSOME_ATTEMPT_ID in its      *)
(* environment.  inside: its cwd or an open file is in the worktree.       *)
Wrapper ==
  [live |-> TRUE, born |-> 0, parent |-> 0, group |-> Leader, mine |-> TRUE,
   marked |-> TRUE, inside |-> TRUE, dying |-> FALSE]
Free == [Wrapper EXCEPT !.live = FALSE, !.mine = FALSE, !.marked = FALSE, !.inside = FALSE]

Living == {p \in Pids : table[p].live}
Id(p)  == <<p, table[p].born>>
Alive(id) == table[id[1]].live /\ table[id[1]].born = id[2]
Unused == {p \in Pids \ Living : \A q \in Living : table[q].group # p}

(* proc.returncode is None *)
Unexited == Alive(<<Leader, 0>>)

ReapInit ==
  /\ table = [p \in Pids |-> IF p = Leader THEN Wrapper ELSE Free]
  /\ births = 0
  /\ reaper = [pc |-> "run", tracked |-> {}, owned |-> {}, conflict |-> {}]
  /\ looked = 0 /\ struck = FALSE /\ replaced = FALSE

---------------------------------------------------------------------------
(* The host. *)
Born(q, process) ==
  /\ births < MaxBirths
  /\ births' = births + 1
  /\ table' = [table EXCEPT ![q] = [process EXCEPT !.born = births + 1]]
  /\ UNCHANGED <<reaper, looked, struck, replaced>>

(* A child may leave the group, the worktree, or the environment behind. *)
Fork(p) ==
  /\ p \in Living /\ ~table[p].dying
  /\ \E q \in Unused, group \in {table[p].group, 0}, inside \in {table[p].inside, FALSE},
        marked \in {table[p].marked, FALSE} :
       Born(q, [table[p] EXCEPT !.parent = p, !.group = IF group = 0 THEN q ELSE group,
                                !.inside = inside, !.marked = marked])

Stranger ==
  \E q \in Unused, inside \in BOOLEAN :
    Born(q, [Free EXCEPT !.live = TRUE, !.group = q, !.inside = inside])

Exit(p) ==
  /\ p \in Living
  /\ table' = [q \in Pids |-> IF q = p THEN Free
                              ELSE IF table[q].parent = p THEN [table[q] EXCEPT !.parent = 0]
                              ELSE table[q]]
  /\ UNCHANGED <<births, reaper, looked, struck, replaced>>

---------------------------------------------------------------------------
(* The reaper. *)
Signalled(ids) == struck' = (struck \/ \E id \in ids : ~table[id[1]].mine)

(* The stall check, the end of the harness, its limit, or a cancellation:  *)
(* the wrapper may have exited long ago, while a child held its output.    *)
StartStop ==
  /\ reaper.pc = "run"
  /\ reaper' = [reaper EXCEPT !.pc = "tree"]
  /\ UNCHANGED <<table, births, looked, struck, replaced>>

(* _descendant_process_identities: ps, or nothing when it fails.  The      *)
(* children of the leader, and theirs, are in every set that has it and    *)
(* the children of its members.                                            *)
Descendants ==
  {p \in Living \ {Leader} :
     \A family \in SUBSET Pids :
       /\ Leader \in family
       /\ \A q \in Living : table[q].parent \in family => q \in family
       => p \in family}

Replaced == replaced' = (replaced \/ (table[Leader].live /\ table[Leader].born # 0))

SnapshotTree ==
  /\ reaper.pc = "tree"
  /\ \E found \in {{}, Descendants} :
       reaper' = [reaper EXCEPT !.pc = "leader", !.tracked = {Id(p) : p \in found}]
  /\ Replaced
  /\ UNCHANGED <<table, births, looked, struck>>

SnapshotLeader ==
  /\ reaper.pc = "leader"
  /\ reaper' = [reaper EXCEPT !.pc = IF Unexited THEN "term" ELSE "scan",
                  !.tracked = @ \cup {Id(p) : p \in Living \cap {Leader}}]
  /\ Replaced
  /\ UNCHANGED <<table, births, looked, struck>>

(* _signal_verified_processes with SIGTERM, which a process may ignore,    *)
(* and the wait of five seconds for the wrapper.                           *)
Terminate ==
  /\ reaper.pc = "term"
  /\ Signalled({id \in reaper.tracked : Alive(id)})
  /\ reaper' = [reaper EXCEPT !.pc = "scan"]
  /\ UNCHANGED <<table, births, looked, replaced>>

(* One round of _reap_detached_descendants: who uses the worktree, and who *)
(* carries the marker or was tracked.                                      *)
Scan ==
  /\ reaper.pc = "scan"
  /\ looked' = births
  /\ reaper' = [reaper EXCEPT !.pc = "check",
       !.owned = reaper.tracked \cup {Id(p) : p \in {q \in Living : table[q].marked}},
       !.conflict = {Id(p) : p \in {q \in Living : table[q].inside}}]
  /\ UNCHANGED <<table, births, struck, replaced>>

Killed(ids) ==
  /\ table' = [p \in Pids |-> IF \E id \in ids : id[1] = p
                              THEN [table[p] EXCEPT !.dying = TRUE] ELSE table[p]]
  /\ Signalled(ids)

(* Mutant: a process is known by its number alone. *)
CheckByNumber ==
  /\ reaper.pc = "check"
  /\ LET owned == {id \in reaper.owned : table[id[1]].live}
         conflict == {id \in reaper.conflict : Alive(id) /\ id \notin owned}
     IN /\ Killed(owned)
        /\ reaper' = [reaper EXCEPT !.owned = owned, !.conflict = conflict,
             !.pc = IF owned # {} THEN "killed" ELSE IF conflict = {} THEN "group" ELSE "raised"]
  /\ UNCHANGED <<births, looked, replaced>>

(* What is still alive of it is killed; using the worktree is no reason to *)
(* be killed, but to refuse.                                               *)
Check ==
  /\ reaper.pc = "check"
  /\ LET owned == {id \in reaper.owned : Alive(id)}
         conflict == {id \in reaper.conflict : Alive(id) /\ id \notin owned}
     IN /\ Killed(owned)
        /\ reaper' = [reaper EXCEPT !.owned = owned, !.conflict = conflict,
             !.pc = IF owned # {} THEN "killed" ELSE IF conflict = {} THEN "group" ELSE "raised"]
  /\ UNCHANGED <<births, looked, replaced>>

(* Another round, or the deadline with a last look. *)
Again ==
  /\ reaper.pc = "killed"
  /\ \E pc \in {"scan", IF reaper.conflict = {} /\ \A id \in reaper.owned : ~Alive(id)
                        THEN "group" ELSE "raised"} :
       reaper' = [reaper EXCEPT !.pc = pc]
  /\ UNCHANGED <<table, births, looked, struck, replaced>>

(* _wait_for_process_group_exit: of whoever has that group by now. *)
AwaitGroup ==
  /\ reaper.pc = "group"
  /\ reaper' = [reaper EXCEPT !.pc =
       IF \E p \in Living : table[p].group = Leader THEN "raised" ELSE "stopped"]
  /\ UNCHANGED <<table, births, looked, struck, replaced>>

Host   == Stranger \/ \E p \in Pids : Fork(p) \/ Exit(p)
Reaper == \/ StartStop \/ SnapshotTree \/ SnapshotLeader \/ Terminate
          \/ Scan \/ Check \/ Again \/ AwaitGroup

ReapNext == Host \/ Reaper
ReapSpec == ReapInit /\ [][ReapNext]_reapVars

---------------------------------------------------------------------------
Identities == Pids \X (0 .. MaxBirths)
Process == [live : BOOLEAN, born : 0 .. MaxBirths, parent : Pids \cup {0}, group : Pids,
            mine : BOOLEAN, marked : BOOLEAN, inside : BOOLEAN, dying : BOOLEAN]

ReapTypeOK ==
  /\ table \in [Pids -> Process] /\ births \in 0 .. MaxBirths /\ looked \in 0 .. MaxBirths
  /\ reaper \in [pc : {"run", "tree", "leader", "term", "scan", "check", "killed", "group",
                       "stopped", "raised"},
                 tracked : SUBSET Identities, owned : SUBSET Identities,
                 conflict : SUBSET Identities]
  /\ struck \in BOOLEAN /\ replaced \in BOOLEAN

(* A stop that does not raise leaves nothing with the attempt's marker,    *)
(* nothing of the tree it looked up and nobody in the worktree, except     *)
(* what was born after its last look; and it signals no process that is    *)
(* not the task's, unless the wrapper had exited and its number had been   *)
(* given away before the tree was looked up (translocase.py:472-517,       *)
(* 627-660).                                                               *)
ReapIsExact ==
  /\ reaper.pc = "stopped" =>
       /\ \A p \in Living : table[p].marked \/ table[p].inside => table[p].born > looked
       /\ \A id \in reaper.tracked : ~Alive(id)
  /\ struck => replaced
=============================================================================
