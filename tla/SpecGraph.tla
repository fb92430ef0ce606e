------------------------------ MODULE SpecGraph -------------------------------
(***************************************************************************)
(* What rptor computes from the specs of a plan directory: which of them   *)
(* may be dispatched, the buckets of the display, the audit and the        *)
(* ranking.  A directory is a function from the names it has (numbers,     *)
(* ordered as the code sorts them) to parsed specs; depends_on is a        *)
(* sequence and may hold names the directory does not have.  The search    *)
(* for cycles and the sort are in SpecOrder.                               *)
(*                                                                         *)
(* src/mtor/rptor.py                                                       *)
(***************************************************************************)
EXTENDS Integers, Sequences, FiniteSets, SequencesExt

Given(d)      == DOMAIN d
DepList(d, n) == IF n \in Given(d) THEN d[n].deps ELSE <<>>
DepsOf(d, n)  == ToSet(DepList(d, n))

(* resolve_dag, once _find_cycle has found none. *)
DoneNames(d) == {n \in Given(d) : d[n].status = "done"}
Dispatchable(d, n) == d[n].status = "ready" /\ DepsOf(d, n) \subseteq DoneNames(d)

(* display_dag *)
Bucket(d, n) ==
  CASE d[n].status = "done"                      -> "done"
    [] d[n].status = "dispatched"                -> "dispatched"
    [] d[n].status \in {"superseded", "stale"}   -> "superseded"
    [] Dispatchable(d, n)                        -> "ready"
    [] OTHER                                     -> "blocked"

(* audit_specs: the issues of one spec, from its status and what it holds. *)
Canonical == {"ready", "dispatched", "done", "failed", "stale", "superseded"}

Errors(s) ==
  (IF s.status \notin Canonical THEN {"invalid_status"} ELSE {})
  \cup (IF s.status = "done" /\ ~s.evidence THEN {"done_without_evidence"} ELSE {})

AuditWarnings(s) ==
  (IF s.status \in {"stale", "failed", "superseded"} /\ ~s.reason
   THEN {"without_reason"} ELSE {})
  \cup (IF s.status = "ready" /\ ~s.tests THEN {"ready_without_tests"} ELSE {})

AuditOk(d) == \A n \in Given(d) : Errors(d[n]) = {}

(* autotriage: five gates, and the dispatchable specs ranked by priority,  *)
(* score and name.                                                         *)
Rank(p) == CASE p = "high" -> 0 [] p = "medium" -> 1 [] p = "low" -> 2 [] OTHER -> 99

Gates(s) ==
  (IF s.priority \in {"high", "medium"} \/ "intent" \in s.body THEN {"intent_fit"} ELSE {})
  \cup (IF s.scope # {} \/ "path" \in s.body THEN {"inferable"} ELSE {})
  \cup (IF "verb" \in s.body THEN {"clear_fix"} ELSE {})
  \cup (IF s.tests \/ "check" \in s.body THEN {"verifiable"} ELSE {})
  \cup (IF s.scope # {} /\ Cardinality(s.scope) <= 5 /\ "broad" \notin s.scope
        THEN {"bounded_blast_radius"} ELSE {})

Score(s) == Cardinality(Gates(s))

RankedBefore(d, m, n) ==
  LET p == Rank(d[m].priority)  q == Rank(d[n].priority)
  IN \/ p < q
     \/ p = q /\ Score(d[m]) > Score(d[n])
     \/ p = q /\ Score(d[m]) = Score(d[n]) /\ m < n

(* What may be dispatched, with its place in the list. *)
Autotriage(d) ==
  LET ready == {n \in Given(d) : Dispatchable(d, n)}
  IN [n \in ready |-> 1 + Cardinality({m \in ready : RankedBefore(d, m, n)})]
=============================================================================
