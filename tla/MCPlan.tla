-------------------------------- MODULE MCPlan --------------------------------
(***************************************************************************)
(* Instances of Plan for TLC: every plan of the given size is an initial   *)
(* state.                                                                  *)
(***************************************************************************)
EXTENDS Plan

=============================================================================
