------------------------------- MODULE MCParts --------------------------------
(***************************************************************************)
(* Instances for TLC of the parts that stand alone: the routing of         *)
(* providers, the stall detector, the reaper, dispatch and deploy, the      *)
(* triage store, the order of a plan directory, and the functions that     *)
(* judge results and rewrite front matter.  A behaviour is one of one      *)
(* part; the others rest in an initial state.                              *)
(***************************************************************************)
EXTENDS Health, Stall, Review, SpecOrder, FrontMatter, Dispatch, Triage, Reap

VARIABLE part
partVars == <<healthVars, stallVars, result, dispatchVars, triageVars, reapVars, orderVars,
              matter, part>>

MCPriority == <<"zhipu", "next">>
MCLimit == [p \in Providers |-> 1]

(* Changes below, at and above each threshold of the numstat. *)
Row(f, a, r) == [file |-> f, added |-> a, removed |-> r]
Changes == {{}, {Row(1, 10, 5)}, {Row(1, 0, 6)}, {Row(1, 3, 11)}, {Row(1, 0, 200)},
            {Row(1, 0, 201), Row(2, 300, 0)}, {Row(1, 0, 200), Row(2, 150, 0), Row(3, 150, 0)}}

Evidence == {<<FALSE, 0, FALSE, FALSE>>, <<TRUE, 1, TRUE, TRUE>>, <<FALSE, 1, TRUE, FALSE>>,
             <<FALSE, 0, FALSE, TRUE>>, <<TRUE, 0, FALSE, TRUE>>}

MCResults ==
  {[exit |-> x, mode |-> m, said |-> s, diff |-> d, long |-> o # "none", printed |-> o,
    stat |-> e[1], commits |-> e[2], listed |-> e[3], patch |-> e[4], grown |-> c # {},
    files |-> c, nested |-> FALSE, missing |-> a, tests |-> b, fallback |-> b] :
     x \in {0, 1}, m \in {"build", "research"},
     s \in {{}, {"errors"}, {"destruction"}, {"placeholders", "hardcoded_home_path"}},
     d \in {{}, {"destruction"}, {"reflex_ban"}}, o \in {"none", "few", "enough"},
     e \in Evidence, c \in Changes, a \in BOOLEAN, b \in BOOLEAN}

ResultAtRest == CHOOSE r \in Results : TRUE

(* The empty directory, and those of three names with at most two          *)
(* dependencies each, repeated ones and a missing name among them.         *)
Lists == UNION {[1 .. n -> 1 .. 4] : n \in 0 .. 2}
Priorities == <<"low", "high", "medium">>
MCDirectories ==
  {<<>>} \cup {[n \in 1 .. 3 |-> [deps |-> l[n], status |-> "ready", priority |-> Priorities[n],
                                 scope |-> {}, tests |-> n = 2, body |-> {"verb"}]] :
               l \in [1 .. 3 -> Lists]}

(* Front matter of up to three fields in any order, some with no value, and *)
(* lists with items at the margin and under it; and what mtor init writes. *)
Blocks == {<<Key(0, "status", "ready")>>, <<Key(0, "status", "")>>,
           <<Key(0, "workflow_id", "w0")>>, <<Key(0, "workflow_id", "")>>,
           <<Key(0, "verdict", "rejected")>>,
           <<Key(0, "depends_on", "a")>>, <<Key(0, "depends_on", ""), Item(2, "a"), Item(2, "b")>>,
           <<Key(0, "scope", ""), Item(0, "s")>>,
           <<Key(0, "tests", ""), Key(2, "run", "t")>>,
           <<Key(0, "tests", ""), Key(2, "run", ""), Item(4, "t")>>, <<Blank>>}
Fields(b) == b[1].key
MCTexts == STRING
MCMatters ==
  {Scaffold("plan"), Scaffold("spec")} \cup {FlattenSeq(bs) : bs \in UNION {{q \in [1 .. n -> Blocks] :
     \A i, j \in 1 .. n : i # j => Fields(q[i]) # Fields(q[j])} : n \in 1 .. 3}}

OneInit(p) ==
  /\ part = p
  /\ HealthInit
  /\ StallInit /\ (p # "stall" => ~skip)
  /\ DispatchInit /\ (p # "dispatch" => ~germline)
  /\ TriageInit /\ ReapInit
  /\ OrderInit /\ (p # "graph" => dir = <<>>)
  /\ IF p = "review" THEN ReviewInit ELSE result = ResultAtRest
  /\ IF p = "matter" THEN matter \in Matters ELSE matter = <<>>

MCInit == \E p \in {"health", "stall", "dispatch", "triage", "reap", "review",
                      "graph", "matter"} : OneInit(p)

MCNext ==
  /\ \/ /\ part = "health" /\ HealthNext
        /\ UNCHANGED <<stallVars, dispatchVars, triageVars, reapVars, orderVars>>
     \/ /\ part = "stall" /\ StallNext
        /\ UNCHANGED <<healthVars, dispatchVars, triageVars, reapVars, orderVars>>
     \/ /\ part = "dispatch" /\ DispatchNext
        /\ UNCHANGED <<healthVars, stallVars, triageVars, reapVars, orderVars>>
     \/ /\ part = "triage" /\ TriageNext
        /\ UNCHANGED <<healthVars, stallVars, dispatchVars, reapVars, orderVars>>
     \/ /\ part = "reap" /\ ReapNext
        /\ UNCHANGED <<healthVars, stallVars, dispatchVars, triageVars, orderVars>>
     \/ /\ part = "graph" /\ OrderNext
        /\ UNCHANGED <<healthVars, stallVars, dispatchVars, triageVars, reapVars>>
  /\ UNCHANGED <<result, matter, part>>

MCSpec == MCInit /\ [][MCNext]_partVars
=============================================================================
