---------------------------- MODULE MCTranslation ----------------------------
(***************************************************************************)
(* Instances of Translation for TLC.                                       *)
(***************************************************************************)
EXTENDS Translation, TLC

Symmetry == Permutations(Edits)

(* What can still matter: the locals of an attempt that has ended are never *)
(* read again, so that states that differ in them only are the same.        *)
Locals == [a \in {b \in Attempts : pc[b] \notin Ended} |->
             <<rc[a], tried[a], base[a], seen[a]>>]
View == <<treeVars, refVars, pc, Locals, hostVars, serverVars, historyVars,
          flowVars>>

=============================================================================
