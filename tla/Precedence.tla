------------------------------ MODULE Precedence ------------------------------
(***************************************************************************)
(* What a plan promises: every spec is launched at most once and only when *)
(* each name it depends on has been won by a spec or granted from outside; *)
(* a spec is given up unlaunched only while one of those names is neither. *)
(***************************************************************************)
CONSTANT Slots

VARIABLES plan,     \* what each slot is called and depends on
          status,   \* "waiting", "running", "won" or "over"
          granted   \* names declared complete from outside

precedenceVars == <<plan, status, granted>>

Won == {plan[s].name : s \in {t \in Slots : status[t] = "won"}}

Satisfied(s) == plan[s].deps \subseteq Won \cup granted

PrecedenceInit == status = [s \in Slots |-> "waiting"] /\ granted = {}

Launch ==
  \E S \in SUBSET {s \in Slots : status[s] = "waiting" /\ Satisfied(s)} :
    /\ status' = [s \in Slots |-> IF s \in S THEN "running" ELSE status[s]]
    /\ UNCHANGED <<plan, granted>>

GiveUp ==
  \E S \in SUBSET {s \in Slots : status[s] = "waiting" /\ ~Satisfied(s)} :
    /\ status' = [s \in Slots |-> IF s \in S THEN "over" ELSE status[s]]
    /\ UNCHANGED <<plan, granted>>

(* Some running specs end, at most one of them won.                         *)
End ==
  \E S \in SUBSET {s \in Slots : status[s] = "running"} : \E w \in SUBSET S :
    /\ \A s, t \in w : s = t
    /\ status' = [s \in Slots |-> IF s \in w THEN "won"
                                  ELSE IF s \in S THEN "over" ELSE status[s]]
    /\ UNCHANGED <<plan, granted>>

Grant == granted \subseteq granted' /\ UNCHANGED <<plan, status>>

PrecedenceSpec ==
  PrecedenceInit /\ [][Launch \/ GiveUp \/ End \/ Grant]_precedenceVars

=============================================================================
