-------------------------------- MODULE Watch ---------------------------------
(***************************************************************************)
(* WatchWorkflow over the plan directory of Specs: every cycle it scans    *)
(* the directory and runs what is ready as child workflows, a batch at a   *)
(* time.  It writes no front matter, and its children are not named by it: *)
(* a spec stays ready, and is run in every cycle, until a command changes  *)
(* its status.                                                             *)
(*                                                                         *)
(* Left out: the merge of ganglion's commits into the operator's checkout  *)
(* (sync.py), which no step here reads; the children's own work is the     *)
(* module Translation, here a child that ends or fails.                    *)
(*                                                                         *)
(* src/mtor/worker/workflow.py, src/mtor/worker/translocase.py             *)
(***************************************************************************)
EXTENDS Specs

CONSTANTS
  MaxConcurrent,   \* children in a batch
  MaxCycles,       \* cycles before Continue-As-New
  StopAfter        \* empty cycles after which the watch ends, 0 for never

ASSUME WatchAssumption ==
  MaxConcurrent \in Nat \ {0} /\ MaxCycles \in Nat \ {0} /\ StopAfter \in Nat

VARIABLES
  phase,    \* where the watch is; "off" and "over" when there is none
  ready,    \* the scanned specs it has still to run
  needs,    \* their dependencies, as they were read
  kids,     \* the specs whose child is running
  inRun,    \* cycles since the last Continue-As-New
  streak,   \* empty cycles in a row, in this run of the chain
  stop      \* the stop signal has arrived

watchVars == <<phase, ready, needs, kids, inRun, streak, stop>>
vars == <<specsVars, watchVars>>

WatchInit ==
  /\ phase \in {"off", "cycle"}
  /\ ready = {} /\ needs = NoDeps /\ kids = {}
  /\ inRun = 0 /\ streak = 0 /\ stop = FALSE

(* The specs taken and the next of the sorted list. *)
WithNext(taken) ==
  taken \cup IF ready \subseteq taken THEN {} ELSE {NextOf(ready \ taken, needs)}

(* The first MaxConcurrent specs of the sorted list. *)
First[k \in 0 .. MaxConcurrent] == IF k = 0 THEN {} ELSE WithNext(First[k - 1])

Batch == First[MaxConcurrent]

(* Mutant: the stop signal is looked at between cycles alone. *)
HaltsBetweenCycles ==
  /\ phase = "cycle" /\ stop /\ kids = {}
  /\ phase' = "over"
  /\ ready' = {} /\ needs' = NoDeps
  /\ UNCHANGED <<specsVars, kids, inRun, streak, stop>>

(* The top of the loop, with the stop signal. *)
Halts ==
  /\ phase \in {"cycle", "batch", "end"} /\ stop /\ kids = {}
  /\ phase' = "over"
  /\ ready' = {} /\ needs' = NoDeps
  /\ UNCHANGED <<specsVars, kids, inRun, streak, stop>>

(* The activity watch_cycle scans and sorts; one that fails or takes more  *)
(* than two minutes counts as a cycle with nothing to do.                  *)
Scan(found) ==
  /\ phase = "cycle" /\ ~stop
  /\ ready' = found
  /\ needs' = [s \in Specs |-> IF s \in found THEN ParsedDeps(s) ELSE {}]
  /\ inRun' = inRun + 1
  /\ streak' = IF found = {} THEN streak + 1 ELSE 0
  /\ phase' = IF found = {} THEN "end" ELSE "batch"
  /\ UNCHANGED <<specsVars, kids, stop>>
Scans    == Scan(ResolvedDag)
ScanFails == Scan({})

(* A batch of children starts; the next waits for all of it. *)
Launch ==
  /\ phase = "batch" /\ kids = {} /\ ~stop
  /\ kids' = Batch
  /\ ready' = ready \ Batch
  /\ phase' = IF ready' = {} THEN "end" ELSE "batch"
  /\ UNCHANGED <<specsVars, needs, inRun, streak, stop>>

KidEnds(s) ==
  /\ s \in kids
  /\ kids' = kids \ {s}
  /\ UNCHANGED <<specsVars, phase, ready, needs, inRun, streak, stop>>

(* A child that fails fails the watch, which terminates the others. *)
KidFails(s) ==
  /\ s \in kids
  /\ phase' = "over" /\ ready' = {} /\ needs' = NoDeps /\ kids' = {}
  /\ UNCHANGED <<specsVars, inRun, streak, stop>>

(* Mutant: the streak must exceed its limit. *)
EndOfCycleLate ==
  /\ phase = "end" /\ kids = {} /\ ~stop
  /\ IF inRun >= MaxCycles
     THEN inRun' = 0 /\ streak' = 0 /\ phase' = "cycle"
     ELSE /\ phase' = IF StopAfter > 0 /\ streak > StopAfter THEN "over" ELSE "cycle"
          /\ UNCHANGED <<inRun, streak>>
  /\ needs' = NoDeps
  /\ UNCHANGED <<specsVars, ready, kids, stop>>

(* The end of a cycle: Continue-As-New, which starts the streak afresh, is *)
(* looked at before the streak.                                            *)
EndOfCycle ==
  /\ phase = "end" /\ kids = {} /\ ~stop
  /\ IF inRun >= MaxCycles
     THEN inRun' = 0 /\ streak' = 0 /\ phase' = "cycle"
     ELSE /\ phase' = IF StopAfter > 0 /\ streak >= StopAfter THEN "over" ELSE "cycle"
          /\ UNCHANGED <<inRun, streak>>
  /\ needs' = NoDeps
  /\ UNCHANGED <<specsVars, ready, kids, stop>>

(* mtor ragulator stop *)
StopSignal ==
  /\ phase \notin {"off", "over"} /\ ~stop
  /\ stop' = TRUE
  /\ UNCHANGED <<specsVars, phase, ready, needs, kids, inRun, streak>>

Watches == Halts \/ Scans \/ ScanFails \/ Launch \/ EndOfCycle
Child   == \E s \in Specs : KidEnds(s) \/ KidFails(s)

Init == SpecsInit /\ WatchInit
Next == \/ SpecsNext /\ UNCHANGED watchVars
        \/ Watches \/ Child \/ StopSignal

(* Temporal drives the watch and its children, whose activities all have   *)
(* timeouts.                                                               *)
Fairness == WF_vars(Watches) /\ WF_vars(Child)

Spec == Init /\ [][Next]_vars

---------------------------------------------------------------------------
WatchTypeOK ==
  /\ phase \in {"off", "cycle", "batch", "end", "over"}
  /\ ready \subseteq Specs /\ needs \in [Specs -> SUBSET Specs] /\ kids \subseteq Specs
  /\ inRun \in 0 .. MaxCycles /\ streak \in 0 .. MaxCycles
  /\ stop \in BOOLEAN

TypeOK == SpecsTypeOK /\ WatchTypeOK

(* The watch, too, runs and has in hand only specs whose dependencies were *)
(* accepted when it read them, or whose file it read while a command was   *)
(* writing it (translocase.py:2343-2354, workflow.py:495-509).             *)
WatchWaitsForDependencies ==
  \A s \in ready \cup kids : needs[s] = Deps[s] => \A d \in Deps[s] : Accepted(d)

StartsWaitForDependencies == AllWaitsForDependencies /\ WatchWaitsForDependencies

(* A stop signal ends the watch once the batch in flight is over, whatever *)
(* is left to run (workflow.py:477-514).                                   *)
WatchStops == stop ~> phase = "over"

(* When nothing is ready any more the watch ends by itself, provided the   *)
(* streak it waits for fits into one run of the chain                      *)
(* (workflow.py:511-531).                                                  *)
WatchTires ==
  0 < StopAfter /\ StopAfter < MaxCycles =>
    ((<>[](ResolvedDag = {})) => <>(phase \in {"off", "over"}))
=============================================================================
