------------------------------ MODULE PlanProofs ------------------------------
(***************************************************************************)
(* The properties of Plan for every number of specs and names.  PlanInv is *)
(* inductive; the other invariants and the refinement follow from it.      *)
(***************************************************************************)
EXTENDS Plan, WellFoundedInduction, TLAPS

(* The invariant holds of every plan the workflow can be given.             *)
LEMMA PlanInit == Init => PlanInv
<1> SUFFICES ASSUME Init PROVE PlanInv
  OBVIOUS
<1>1. TypeOK
  BY DEF Init, TypeOK, Known, Name, Plans
<1>2. Waves
  BY DEF Init, Waves, Known, Won, Verdicts, Running
<1>3. StartsInOrder /\ SkippedForAReason
  BY DEF Init, StartsInOrder, SkippedForAReason, Closed, Verdicts
<1> QED BY <1>1, <1>2, <1>3 DEF PlanInv

(* Dispatching a wave starts only what is ready.                            *)
LEMMA DispatchStep ==
  ASSUME PlanInv, Dispatch
  PROVE  PlanInv'
<1> USE DEF PlanInv
<1>1. Ready \subseteq Slots /\ \A s \in Ready : state[s] = "waiting"
  BY DEF Ready, Waves
<1>2. /\ \A s \in Slots : state'[s] = IF s \in Ready THEN "running" ELSE state[s]
      /\ \A s \in Slots : Name(s)' = Name(s) /\ Deps(s)' = Deps(s)
  BY DEF Dispatch, Name, Deps
<1>3. Won' = Won
  BY <1>1, <1>2 DEF Won
<1>4. TypeOK'
  BY DEF Dispatch, TypeOK
<1>5. Waves'
  <2>1. \A s \in Slots : Name(s) \in pending'
          \/ \E t \in Slots : Name(t) = Name(s) /\ state'[t] # "waiting"
    <3> SUFFICES ASSUME NEW s \in Slots, Name(s) \notin pending'
                 PROVE  \E t \in Slots : Name(t) = Name(s) /\ state'[t] # "waiting"
      OBVIOUS
    <3>1. CASE Name(s) \in pending
      <4>1. PICK t \in Ready : Name(t) = Name(s)
        BY <3>1 DEF Dispatch
      <4> QED BY <4>1, <1>1, <1>2
    <3>2. CASE Name(s) \notin pending
      BY <3>2, <1>2 DEF Waves
    <3> QED BY <3>1, <3>2
  <2>2. \A s \in Slots : state'[s] # "waiting" => Name(s) \notin pending'
    BY <1>2 DEF Dispatch, Waves
  <2> QED BY <1>2, <1>3, <2>1, <2>2 DEF Dispatch, Waves, Verdicts
<1>6. StartsInOrder'
  BY <1>2, <1>3 DEF Dispatch, StartsInOrder, Ready, Waves
<1>7. SkippedForAReason'
  BY <1>2, <1>3 DEF Dispatch, SkippedForAReason, Verdicts
<1> QED BY <1>4, <1>5, <1>6, <1>7

(* A child's end may win its name and unwins none.                          *)
LEMMA ChildStep ==
  ASSUME PlanInv, NEW c \in Slots, ChildCloses(c) \/ ChildRaises(c)
  PROVE  PlanInv'
<1> USE DEF PlanInv
<1>1. /\ state[c] = "running" /\ phase = "waves"
      /\ UNCHANGED <<plan, pending, signalled>>
  BY DEF ChildCloses, ChildRaises, Running
<1>2. /\ \A s \in Slots : Name(s)' = Name(s) /\ Deps(s)' = Deps(s)
      /\ \A s \in Slots : state'[s] # state[s] => state[s] = "running"
      /\ \A s \in Slots : state[s] = "running" => state'[s] \in {"running"} \cup Closed
  BY <1>1 DEF ChildCloses, ChildRaises, Running, Name, Deps, TypeOK, Closed
<1>3. Won \subseteq Won' /\ completed' = Won' \cup signalled'
  <2>1. CASE ChildCloses(c)
    <3>1. \A s \in Slots \ {c} : state'[s] = state[s]
      BY <2>1 DEF ChildCloses, TypeOK
    <3>2. CASE state'[c] = "success"
      <4>1. completed' = completed \cup {Name(c)}
        BY <2>1, <3>2 DEF ChildCloses, TypeOK
      <4>2. Won' = Won \cup {Name(c)}
        BY <1>1, <1>2, <3>1, <3>2 DEF Won
      <4> QED BY <4>1, <4>2, <1>1 DEF Waves
    <3>3. CASE state'[c] # "success"
      <4>1. Won' = Won
        BY <1>1, <1>2, <3>1, <3>3 DEF Won
      <4>2. completed' = completed
        BY <2>1, <3>3 DEF ChildCloses, TypeOK
      <4> QED BY <4>1, <4>2, <1>1 DEF Waves
    <3> QED BY <3>2, <3>3
  <2>2. CASE ChildRaises(c)
    <3>1. Won' = Won
      BY <1>1, <1>2, <2>2 DEF ChildRaises, Running, Won
    <3> QED BY <3>1, <2>2, <1>1 DEF ChildRaises, Waves
  <2> QED BY <2>1, <2>2
<1>4. TypeOK'
  BY DEF ChildCloses, ChildRaises, TypeOK, Closed, Name, Plans, Running
<1>5. \A s \in Slots : state'[s] \notin Verdicts
  BY <1>1, <1>2 DEF Waves, Verdicts, Closed
<1>6. Waves'
  <2>1. \A s \in Slots : state'[s] \in {"error", "terminated"} => phase' = "aborted"
    BY <1>1 DEF ChildCloses, ChildRaises, Waves, TypeOK
  <2>2. phase' # "done"
    BY <1>1 DEF ChildCloses, ChildRaises
  <2>3. \A s \in Slots : state[s] # "waiting" <=> state'[s] # "waiting"
    BY <1>2 DEF Closed
  <2>4. /\ \A s \in Slots : state'[s] # "waiting" => Name(s) \notin pending
        /\ \A s \in Slots : Name(s) \in pending
             \/ \E t \in Slots : Name(t) = Name(s) /\ state'[t] # "waiting"
    BY <2>3 DEF Waves
  <2> QED BY <1>1, <1>2, <1>3, <1>5, <2>1, <2>2, <2>4 DEF Waves
<1>7. StartsInOrder'
  BY <1>1, <1>2, <1>3 DEF StartsInOrder
<1>8. SkippedForAReason'
  BY <1>5 DEF SkippedForAReason
<1> QED BY <1>4, <1>6, <1>7, <1>8

(* Some slot is the first of its name.                                      *)
LEMMA FirstSlot ==
  ASSUME NEW s \in Slots
  PROVE  \E t \in Slots : Name(t) = Name(s) /\ Leads(t)
<1> DEFINE Same == {t \in Slots : Name(t) = Name(s)}
<1>1. Same \subseteq Nat /\ Same # {}
  BY PlanAssumption DEF Slots
<1> HIDE DEF Same
<1>2. PICK t \in Same : \A u \in Same : ~(<<u, t>> \in OpToRel(<, Nat))
  BY <1>1, WFMin, NatLessThanWellFounded
<1>3. \A u \in Same : ~(u < t)
  BY <1>1, <1>2 DEF OpToRel
<1> QED BY <1>1, <1>3 DEF Same, Leads

(* When nothing is ready, a pending name's slots lack a dependency.         *)
LEMMA BlockStep ==
  ASSUME PlanInv, Block
  PROVE  PlanInv'
<1> USE DEF PlanInv
<1>1. /\ \A s \in Slots : Name(s)' = Name(s) /\ Deps(s)' = Deps(s)
      /\ \A s \in Slots : Verdict(s) \in Verdicts
      /\ \A s \in Slots : state'[s] = IF Name(s) \in pending /\ Leads(s)
                                      THEN Verdict(s) ELSE state[s]
  BY DEF Block, Name, Deps, Verdict, Verdicts
<1>2. \A s \in Slots : Name(s) \in pending => state[s] = "waiting"
  BY DEF Waves
<1>3. Won' = Won
  BY <1>1, <1>2 DEF Won, Verdicts
<1>4. TypeOK'
  BY <1>1 DEF Block, TypeOK
<1>5. Waves'
  <2>1. \A s \in Slots : \E t \in Slots : Name(t) = Name(s) /\ state'[t] # "waiting"
    <3> SUFFICES ASSUME NEW s \in Slots
                 PROVE  \E t \in Slots : Name(t) = Name(s) /\ state'[t] # "waiting"
      OBVIOUS
    <3>1. CASE Name(s) \in pending
      <4>1. PICK t \in Slots : Name(t) = Name(s) /\ Leads(t)
        BY FirstSlot
      <4> QED BY <4>1, <3>1, <1>1 DEF Verdicts
    <3>2. CASE Name(s) \notin pending
      <4>1. PICK t \in Slots : Name(t) = Name(s) /\ state[t] # "waiting"
        BY <3>2 DEF Waves
      <4> QED BY <4>1, <3>2, <1>1
    <3> QED BY <3>1, <3>2
  <2>2. Running' = {}
    BY <1>1 DEF Block, Running, Verdicts
  <2>3. \A s \in Slots : state'[s] \notin {"error", "terminated"}
    BY <1>1 DEF Block, Waves, Verdicts
  <2> QED BY <1>1, <1>3, <2>1, <2>2, <2>3 DEF Block, Waves
<1>6. StartsInOrder'
  BY <1>1, <1>3 DEF Block, StartsInOrder, Verdicts, Closed
<1>7. SkippedForAReason'
  BY <1>1, <1>3 DEF Block, SkippedForAReason, Ready, Waves
<1> QED BY <1>4, <1>5, <1>6, <1>7

(* Returning, a signal and a stop leave what was started as it is.          *)
LEMMA OtherStep ==
  ASSUME PlanInv,
         Return \/ Stop \/ (\E n \in Names : SpecCompleted(n)) \/ UNCHANGED planVars
  PROVE  PlanInv'
<1> USE DEF PlanInv
<1>1. /\ UNCHANGED <<plan, pending>>
      /\ \A s \in Slots : Name(s)' = Name(s) /\ Deps(s)' = Deps(s)
      /\ \A s \in Slots : state'[s] = state[s]
                         \/ (state[s] = "running" /\ state'[s] = "terminated")
  BY DEF Return, Stop, SpecCompleted, planVars, Running, Name, Deps
<1>2. Won' = Won /\ completed' = Won' \cup signalled' /\ signalled \subseteq signalled'
  <2>1. Won' = Won
    BY <1>1 DEF Won
  <2>2. /\ signalled \subseteq signalled'
        /\ completed' = Won \cup signalled'
    BY DEF Return, Stop, SpecCompleted, planVars, Waves
  <2> QED BY <2>1, <2>2
<1>3. TypeOK'
  BY DEF Return, Stop, SpecCompleted, planVars, TypeOK, Closed
<1>4. Waves'
  <2>1. CASE Return \/ Stop
    <3>1. \A s \in Slots : state[s] # "waiting" <=> state'[s] # "waiting"
      BY <1>1
    <3>2. \A s \in Slots : state'[s] \notin Verdicts
      BY <2>1, <1>1 DEF Return, Stop, Waves, Verdicts
    <3>3. \A s \in Slots : state'[s] \in {"error", "terminated"} => phase' = "aborted"
      BY <2>1 DEF Return, Stop, Waves, TypeOK
    <3>4. phase' = "done" => pending' = {} /\ Running' = {}
      BY <2>1, <1>1 DEF Return, Stop, Running
    <3>5. \A s \in Slots : Name(s) \in pending
             \/ \E t \in Slots : Name(t) = Name(s) /\ state'[t] # "waiting"
      BY <3>1 DEF Waves
    <3> QED BY <1>1, <1>2, <3>1, <3>2, <3>3, <3>4, <3>5 DEF Waves
  <2>2. CASE (\E n \in Names : SpecCompleted(n)) \/ UNCHANGED planVars
    <3>1. UNCHANGED <<plan, pending, state, phase>>
      BY <2>2 DEF SpecCompleted, planVars
    <3> QED BY <1>1, <1>2, <3>1 DEF Waves, Running
  <2> QED BY <2>1, <2>2
<1>5. StartsInOrder'
  BY <1>1, <1>2 DEF StartsInOrder
<1>6. SkippedForAReason'
  <2>1. CASE Return \/ Stop
    BY <2>1, <1>1 DEF Return, Stop, Waves, SkippedForAReason, Verdicts
  <2>2. CASE \E n \in Names : SpecCompleted(n)
    BY <2>2, <1>1 DEF SpecCompleted, Waves, SkippedForAReason
  <2>3. CASE UNCHANGED planVars
    BY <2>3, <1>1, <1>2 DEF planVars, SkippedForAReason
  <2> QED BY <2>1, <2>2, <2>3
<1> QED BY <1>3, <1>4, <1>5, <1>6

(* Every step preserves the invariant.                                      *)
LEMMA PlanNext ==
  ASSUME PlanInv, [Next]_planVars
  PROVE  PlanInv'
BY DispatchStep, ChildStep, BlockStep, OtherStep DEF Next

------------------------------------------------------------------------------
(* The invariant, of every plan, with or without signals from outside.      *)
THEOREM PlanInvariance == Spec => []PlanInv
BY PlanInit, PlanNext, PTL DEF Spec

(* A child is started only when everything its spec depends on is won or    *)
(* signalled, whatever the dependency graph looks like.                     *)
THEOREM InOrder == Spec => []StartsInOrder
<1>1. PlanInv => StartsInOrder
  BY DEF PlanInv
<1> QED BY <1>1, PlanInvariance, PTL

(* A spec recorded as blocked lacks a dependency for good.                  *)
THEOREM BlockedLacks == Spec => []SkippedForAReason
<1>1. PlanInv => SkippedForAReason
  BY DEF PlanInv
<1> QED BY <1>1, PlanInvariance, PTL

(* A returned plan accounts for every name it was given.                    *)
THEOREM AllAccounted == Spec => []NoneLeftOut
<1>1. PlanInv => NoneLeftOut
  <2> SUFFICES ASSUME PlanInv, phase = "done", NEW s \in Slots
               PROVE  \E t \in Slots :
                        /\ Name(t) = Name(s)
                        /\ state[t] \in {"success", "zero"} \cup Verdicts
    BY DEF NoneLeftOut
  <2>1. PICK t \in Slots : Name(t) = Name(s) /\ state[t] # "waiting"
    BY DEF PlanInv, Waves
  <2>2. state[t] \notin {"running", "error", "terminated"}
    BY DEF PlanInv, Waves, Running
  <2> QED BY <2>1, <2>2 DEF PlanInv, TypeOK, Closed
<1> QED BY <1>1, PlanInvariance, PTL

(* The waves implement launching in precedence order: a dispatch launches,  *)
(* the final walk gives up, and a child that closes, raises or is           *)
(* terminated ends.                                                         *)
THEOREM ImplementsOrder == Spec => WavesKeepOrder
<1> DEFINE status == [s \in Slots |-> Status(s)]
<1>1. Init => Order!PrecedenceInit
  BY DEF Init, Order!PrecedenceInit, Status
<1>2. ASSUME PlanInv, [Next]_planVars
      PROVE  [Order!Launch \/ Order!GiveUp \/ Order!End
                \/ Order!Grant]_(Order!precedenceVars)
  <2>1. Order!Won = Won
    BY DEF Order!Won, Won, Status, Name
  <2>2. \A s \in Slots : Order!Satisfied(s) <=> Deps(s) \subseteq completed
    BY <1>2, <2>1 DEF Order!Satisfied, Deps, PlanInv, Waves
  <2>3. CASE Dispatch
    <3>1. \A s \in Ready : status[s] = "waiting" /\ Order!Satisfied(s)
      BY <1>2, <2>2 DEF Ready, PlanInv, Waves, Status
    <3>2. status' = [s \in Slots |-> IF s \in Ready THEN "running" ELSE status[s]]
      BY <2>3 DEF Dispatch, Status
    <3>3. Ready \in SUBSET {s \in Slots : status[s] = "waiting" /\ Order!Satisfied(s)}
      BY <3>1 DEF Ready
    <3> HIDE DEF status
    <3> QED BY <3>2, <3>3, <2>3 DEF Dispatch, Order!Launch, status
  <2>4. CASE Block
    <3> DEFINE S == {s \in Slots : Name(s) \in pending /\ Leads(s)}
    <3>1. \A s \in S : status[s] = "waiting" /\ ~Order!Satisfied(s)
      BY <1>2, <2>2, <2>4 DEF Block, Ready, PlanInv, Waves, Status
    <3>2. \A s \in Slots : Verdict(s) \in Verdicts
      BY DEF Verdict, Verdicts
    <3>3. status' = [s \in Slots |-> IF s \in S THEN "over" ELSE status[s]]
      BY <2>4, <3>2 DEF Block, Status, Verdicts
    <3> QED BY <3>1, <3>3, <2>4 DEF Block, Order!GiveUp
  <2>5. ASSUME NEW c \in Slots, ChildCloses(c) PROVE Order!End
    <3> DEFINE w == IF state'[c] = "success" THEN {c} ELSE {}
    <3>1. c \in Slots /\ status[c] = "running" /\ UNCHANGED <<plan, signalled>>
      BY <2>5 DEF ChildCloses, Running, Status
    <3>2. status' = [s \in Slots |-> IF s \in w THEN "won"
                                  ELSE IF s \in {c} THEN "over" ELSE status[s]]
      BY <1>2, <2>5 DEF ChildCloses, Status, PlanInv, TypeOK
    <3>3. w \in SUBSET {c} /\ \A s, t \in w : s = t
      OBVIOUS
    <3>4. {c} \in SUBSET {s \in Slots : status[s] = "running"}
      BY <3>1
    <3> HIDE DEF w
    <3> QED BY <3>1, <3>2, <3>3, <3>4 DEF Order!End
  <2>6. CASE Stop \/ \E c \in Slots : ChildRaises(c)
    <3>1. status' = [s \in Slots |-> IF s \in {} THEN "won"
                                  ELSE IF s \in Running THEN "over" ELSE status[s]]
      BY <2>6 DEF Stop, ChildRaises, Status, Running
    <3>2. Running \in SUBSET {s \in Slots : status[s] = "running"}
      BY DEF Running, Status
    <3>3. {} \in SUBSET Running /\ UNCHANGED <<plan, signalled>>
      BY <2>6 DEF Stop, ChildRaises
    <3> QED BY <3>1, <3>2, <3>3 DEF Order!End
  <2>7. CASE \E n \in Names : SpecCompleted(n)
    BY <2>7 DEF SpecCompleted, Order!Grant, Status
  <2>8. CASE Return \/ UNCHANGED planVars
    BY <2>8 DEF Return, planVars, Order!precedenceVars, Status
  <2> QED BY <1>2, <2>3, <2>4, <2>5, <2>6, <2>7, <2>8 DEF Next
<1> QED BY <1>1, <1>2, PlanInvariance, PTL DEF Spec, WavesKeepOrder, Order!PrecedenceSpec

=============================================================================
