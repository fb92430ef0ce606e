-------------------------------- MODULE Ledger --------------------------------
(***************************************************************************)
(* What the worker promises about the work of a task: an edit a harness    *)
(* has made is held in the worktree or is durable, it may become durable,  *)
(* and nothing is ever let go.  Durable is what is in a branch, on a       *)
(* remote or in a checkpoint ref, and what was in one when the tool that   *)
(* judges branches failed and so excused its owner from keeping it.  Which *)
(* step of which attempt, worker or harness makes an edit durable is not   *)
(* the promise's concern.                                                  *)
(***************************************************************************)
CONSTANT Edits

VARIABLES volatile,  \* edits only the worktree holds
          durable    \* edits that survive the worktree, or are excused

ledgerVars == <<volatile, durable>>

LedgerInit == volatile = {} /\ durable = {}

(* A harness writes something new.                                          *)
Produce ==
  \E e \in Edits \ (volatile \cup durable) :
    volatile' = volatile \cup {e} /\ durable' = durable

(* A commit or a checkpoint secures some of what only the worktree held.    *)
Secure ==
  /\ volatile' \subseteq volatile
  /\ durable' = durable \cup (volatile \ volatile')

LedgerSpec == LedgerInit /\ [][Produce \/ Secure]_ledgerVars

=============================================================================
