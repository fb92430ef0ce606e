------------------------------- MODULE MCSpecs --------------------------------
(***************************************************************************)
(* Instances of Watch and Specs for TLC: crews of shells that overlap, the *)
(* others never used.  Two that dispatch, of which one settles; one that   *)
(* dispatches and one that settles; one that does everything, with an edit *)
(* to ask for a spec again; and one beside the watch.                      *)
(***************************************************************************)
EXTENDS Watch, TLC
CONSTANTS p1, p2, p3, p4, p5, p6

MCDeps == [s \in Specs |-> IF s = 2 THEN {1} ELSE {}]
MCMay == p1 :> {"all"} @@ p2 :> {"spec", "list"}
         @@ p3 :> {"spec", "all"} @@ p4 :> {"reconcile", "list"}
         @@ p5 :> {"all", "done", "list"} @@ p6 :> {"done"}

Crew == {p \in Procs : proc[p] = Idle}

MCInit ==
  /\ Init
  /\ \/ phase = "off" /\ Crew \in {{p1, p2}, {p3, p4}} /\ edits = MaxEdits
     \/ phase = "off" /\ Crew = {p5} /\ edits = 0
     \/ phase = "cycle" /\ Crew = {p6} /\ edits = MaxEdits

MCSpec == MCInit /\ [][Next]_vars /\ Fairness
=============================================================================
