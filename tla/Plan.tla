--------------------------------- MODULE Plan ---------------------------------
(***************************************************************************)
(* PlanWorkflow: the specs of a plan run as child TranslationWorkflows, in *)
(* waves.  A wave is every pending spec whose dependencies are completed;  *)
(* the next one is computed when all children of this one have closed.     *)
(*                                                                         *)
(* A spec is a slot of the list the workflow is given.  Names are numbers, *)
(* ordered as the code sorts them; the list is taken sorted by name, which *)
(* is the order in which the code walks it.  A name may be given twice, and *)
(* depends_on may hold names no slot has.                                  *)
(*                                                                         *)
(* src/mtor/worker/plan_workflow.py                                        *)
(***************************************************************************)
EXTENDS Naturals, FiniteSets

CONSTANTS
  NumSpecs,   \* bound: specs in a plan
  NumNames,   \* bound: names specs have and depend on
  MaxSignals  \* bound: names spec_completed is sent for from outside

ASSUME PlanAssumption ==
  NumSpecs \in Nat \ {0} /\ NumNames \in Nat \ {0} /\ MaxSignals \in Nat

Slots == 1 .. NumSpecs
Names == 1 .. NumNames

VARIABLES
  plan,       \* plan_specs: what each slot is called and depends on
  pending,    \* _pending: names not yet dispatched or blocked
  completed,  \* _completed
  failed,     \* _failed
  state,      \* what has become of each slot
  phase,      \* the run: "waves", "done" (returned) or "aborted"
  approved,   \* slots whose child's review approved its work
  signalled   \* names spec_completed was sent for

planVars ==
  <<plan, pending, completed, failed, state, phase, approved, signalled>>

Name(s) == plan[s].name
Deps(s) == plan[s].deps
Known   == {Name(s) : s \in Slots}

Plans == {p \in [Slots -> [name : Names, deps : SUBSET Names]] :
            \A s, t \in Slots : s <= t => p[s].name <= p[t].name}

Verdicts == {"unsatisfiable_dependency", "predecessor_failed", "blocked"}
(* A child closed with a success, with none, by raising in run, or with it. *)
Closed   == {"success", "zero", "error", "terminated"}

TypeOK ==
  /\ plan \in Plans
  /\ pending \subseteq Names /\ completed \subseteq Names /\ failed \subseteq Names
  /\ state \in [Slots -> {"waiting", "running"} \cup Closed \cup Verdicts]
  /\ phase \in {"waves", "done", "aborted"}
  /\ approved \subseteq Slots /\ signalled \subseteq Names

Init ==
  /\ plan \in Plans
  /\ pending = Known /\ completed = {} /\ failed = {}
  /\ state = [s \in Slots |-> "waiting"]
  /\ phase = "waves" /\ approved = {} /\ signalled = {}

Running == {s \in Slots : state[s] = "running"}

(* Ready with a bug: one completed dependency is enough; a signal does not  *)
(* count for a name that failed; what has left pending is ready again.      *)
ReadyOnAny    == {s \in Slots : /\ Name(s) \in pending
                                /\ Deps(s) = {} \/ Deps(s) \cap completed # {}}
ReadyUnfailed == {s \in Slots : /\ Name(s) \in pending
                                /\ Deps(s) \subseteq completed \ failed}
ReadyAgain    == {s \in Slots : Deps(s) \subseteq completed}

(* find_ready_specs                                                         *)
Ready == {s \in Slots : Name(s) \in pending /\ Deps(s) \subseteq completed}

(* Child ids are plan-child-<name>: of two slots of one name in a wave, the *)
(* later start is refused.                                                  *)
Clashes(s) == \E t \in Slots : t < s /\ Name(t) = Name(s) /\ state[t] # "waiting"

------------------------------------------------------------------------------
Dispatch ==
  /\ phase = "waves" /\ Running = {} /\ Ready # {}
  /\ pending' = pending \ {Name(s) : s \in Ready}
  /\ state' = [s \in Slots |-> IF s \in Ready THEN "running" ELSE state[s]]
  /\ UNCHANGED <<plan, completed, failed, phase, approved, signalled>>

(* A child TranslationWorkflow closes.  It counts as a success when one of  *)
(* its tasks succeeded, whatever the review of its work said: a success can *)
(* be rejected and a deferred run approved.                                 *)
ChildCloses(s) ==
  /\ phase = "waves" /\ s \in Running /\ ~Clashes(s)
  /\ approved' \in {approved, approved \cup {s}}
  /\ \/ /\ state' = [state EXCEPT ![s] = "success"]
        /\ completed' = completed \cup {Name(s)} /\ UNCHANGED failed
     \/ /\ state' = [state EXCEPT ![s] = "zero"]
        /\ failed' = failed \cup {Name(s)} /\ UNCHANGED completed
  /\ UNCHANGED <<plan, pending, phase, signalled>>

(* Starting or awaiting a child raises: gather, and with it the workflow,   *)
(* fails; the server terminates the children still open.                    *)
ChildRaises(s) ==
  /\ phase = "waves" /\ s \in Running
  /\ phase' = "aborted"
  /\ state' = [t \in Slots |-> IF t = s THEN "error"
                               ELSE IF t \in Running THEN "terminated" ELSE state[t]]
  /\ UNCHANGED <<plan, pending, completed, failed, approved, signalled>>

(* What a pending spec is recorded as when no spec is ready.  The walk is   *)
(* in name order and counts the names it has passed as failed.              *)
Verdict(s) ==
  LET blocking == Deps(s) \ completed
      passed   == {n \in pending : n < Name(s)}
  IN  CASE blocking \ Known # {} -> "unsatisfiable_dependency"
        [] blocking \subseteq Known /\ blocking \cap (failed \cup passed) # {}
             -> "predecessor_failed"
        [] OTHER -> "blocked"

(* Leads with a bug: a name given twice is never recorded.                  *)
HasNoTwin(s) == \A t \in Slots : Name(t) = Name(s) => s = t

(* The slot of its name the walk comes to first; it takes the name along.   *)
Leads(s) == \A t \in Slots : Name(t) = Name(s) => s <= t

Block ==
  /\ phase = "waves" /\ Running = {} /\ Ready = {} /\ pending # {}
  /\ state' = [s \in Slots |-> IF Name(s) \in pending /\ Leads(s)
                               THEN Verdict(s) ELSE state[s]]
  /\ failed' = failed \cup pending /\ pending' = {} /\ phase' = "done"
  /\ UNCHANGED <<plan, completed, approved, signalled>>

Return ==
  /\ phase = "waves" /\ Running = {} /\ pending = {}
  /\ phase' = "done"
  /\ UNCHANGED <<plan, pending, completed, failed, state, approved, signalled>>

(* The spec_completed signal.                                               *)
SpecCompleted(n) ==
  /\ phase = "waves" /\ n \notin signalled /\ Cardinality(signalled) < MaxSignals
  /\ completed' = completed \cup {n} /\ signalled' = signalled \cup {n}
  /\ UNCHANGED <<plan, pending, failed, state, phase, approved>>

(* The plan is cancelled or terminated, and its open children with it.      *)
Stop ==
  /\ phase = "waves" /\ phase' = "aborted"
  /\ state' = [s \in Slots |-> IF s \in Running THEN "terminated" ELSE state[s]]
  /\ UNCHANGED <<plan, pending, completed, failed, approved, signalled>>

Next ==
  \/ Dispatch \/ Block \/ Return \/ Stop
  \/ \E s \in Slots : ChildCloses(s) \/ ChildRaises(s)
  \/ \E n \in Names : SpecCompleted(n)

Spec == Init /\ [][Next]_planVars

(* The workflow task runs when it can, and every child closes: what         *)
(* Translate!EventuallyClosed says of its activity, the 30-minute limit of  *)
(* an approval and the 2-minute limits of review and PR.                    *)
FairSpec ==
  /\ Spec
  /\ WF_planVars(Dispatch) /\ WF_planVars(Block) /\ WF_planVars(Return)
  /\ \A s \in Slots : WF_planVars(ChildCloses(s) \/ ChildRaises(s))

------------------------------------------------------------------------------
(* Names some child's success has earned.                                   *)
Won == {Name(s) : s \in {t \in Slots : state[t] = "success"}}

(* A child is started only when every dependency has been won or signalled, *)
(* wherever the graph has cycles, missing names or names used twice.        *)
StartsInOrder ==
  \A s \in Slots :
    state[s] \in {"running"} \cup Closed => Deps(s) \subseteq Won \cup signalled

(* A spec is recorded as blocked only if it could not have run: the waves   *)
(* before it left one of its dependencies unwon.                            *)
SkippedForAReason ==
  \A s \in Slots : state[s] \in Verdicts => ~(Deps(s) \subseteq Won \cup signalled)

(* A returned plan has run or blocked every name it was given.              *)
NoneLeftOut ==
  phase = "done" =>
    \A s \in Slots : \E t \in Slots :
      Name(t) = Name(s) /\ state[t] \in {"success", "zero"} \cup Verdicts

(* The waves implement launching in precedence order, each spec at most     *)
(* once.                                                                    *)
Status(s) == CASE state[s] \in {"waiting", "running"} -> state[s]
               [] state[s] = "success" -> "won"
               [] OTHER -> "over"
Order == INSTANCE Precedence
           WITH status <- [s \in Slots |-> Status(s)], granted <- signalled
WavesKeepOrder == Order!PrecedenceSpec

(* The plan ends: no graph leaves it waiting with nothing in flight.        *)
EventuallyEnds == <>(phase # "waves")

(* The inductive invariant: completed is exactly what was won or signalled, *)
(* a name leaves pending when one of its slots is dispatched or blocked,    *)
(* and what the waves have not settled when they end is blocked.            *)
Waves ==
  /\ completed = Won \cup signalled
  /\ \A s \in Slots : state[s] # "waiting" => Name(s) \notin pending
  /\ \A s \in Slots : Name(s) \in pending
                     \/ \E t \in Slots : Name(t) = Name(s) /\ state[t] # "waiting"
  /\ \A s \in Slots : state[s] \in Verdicts => phase = "done"
  /\ \A s \in Slots : state[s] \in {"error", "terminated"} => phase = "aborted"
  /\ phase = "done" => pending = {} /\ Running = {}

PlanInv == TypeOK /\ Waves /\ StartsInOrder /\ SkippedForAReason

------------------------------------------------------------------------------
(* What the sources say that the code does not do.                          *)

(* plan_workflow.py:105 "A child that completes with zero successes (all    *)
(* tasks rejected/failed) must NOT satisfy `dep in completed`": a spec that *)
(* runs has no dependency whose review was a rejection.                     *)
NeverOnRejected ==
  \A s, t \in Slots :
    state[s] = "running" /\ Name(t) \in Deps(s) /\ state[t] = "success"
      => t \in approved

=============================================================================
