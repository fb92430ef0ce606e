--------------------------- MODULE TranslateProofs ---------------------------
(***************************************************************************)
(* Proofs that Translate keeps what TranslateProps states, when no attempt *)
(* is given up on while it goes on.                                        *)
(*                                                                         *)
(* One lemma for each action shows that it keeps IndInv.  What is common   *)
(* to the steps of attempts, program counters and the server's reaction to *)
(* an end, is Advance; Assemble completes an action's own part.            *)
(***************************************************************************)
EXTENDS TranslateProps, FiniteSetTheorems, TLAPS

USE DEF treeVars, refVars, attemptVars, hostVars, serverVars, historyVars, Kept

(* What every step of an executing attempt does to the program counters and *)
(* to the server: the attempt goes on to a step in T, or it ends; ending it *)
(* may have the server retry, or close the activity with a result of one of *)
(* the given kinds.                                                         *)
Advance(a, T, kinds) ==
  /\ pc' \in [Attempts -> {"idle"} \cup Executions \cup Ended]
  /\ \A b \in Attempts \ {a} : pc'[b] = pc[b]
  /\ \/ pc'[a] \in T /\ UNCHANGED serverVars
     \/ pc'[a] \in Ended /\ UNCHANGED serverVars
     \/ pc'[a] \in Ended /\ Listening(a) /\ Retry
     \/ /\ pc'[a] \in Ended /\ Listening(a)
        /\ server' = "closed" /\ outcome' \in kinds /\ reviewed' = seen[a]
        /\ UNCHANGED current

Still == {"idle"} \cup Ended
(* Every kind of result but a success and the record of a cancelled run.    *)
Failures == Outcomes \ {"success", "cancelled"}

(* Such a step leaves only the attempt the server counts executing, keeps   *)
(* the server's variables typed, and makes a result only of the given       *)
(* kinds.                                                                   *)
LEMMA AdvanceAlone ==
  ASSUME TypeOK, Alone, Settled, NEW a \in Attempts, Executing(a),
         NEW T \in SUBSET Executions, NEW kinds \in SUBSET Outcomes,
         Advance(a, T, kinds)
  PROVE  /\ Alone'
         /\ \A b \in Attempts \ {a} : pc[b] \in Still /\ pc'[b] = pc[b]
         /\ server' \in {"scheduled", "started", "closed"}
         /\ current' \in Attempts /\ outcome' \in Outcomes
         /\ reviewed' \in Snapshots
         /\ outcome' = "cancelled" => "cancelled" \in kinds \/ outcome = "cancelled"
         /\ outcome' = "success" =>
              /\ "success" \in kinds /\ pc'[a] \in Ended
              /\ server' = "closed" /\ reviewed' = seen[a]
<1> USE MaxAttemptsAssumption
    DEF TypeOK, Attempts, Executing, Executions, Ended, SetupSteps, FinishSteps, Still
<1>1. a = current /\ \A b \in Attempts \ {a} : pc[b] \in Still
  BY DEF Alone
<1>2. \A b \in Attempts \ {a} : pc'[b] = pc[b]
  BY <1>1 DEF Advance
<1>3. outcome # "success"
  BY DEF Settled
<1>6. current' \in Attempts
  BY DEF Advance, serverVars, Retry
<1>4. Alone'
  <2>1. \/ pc'[a] \in T /\ current' = current /\ server' = server
        \/ pc'[a] \in Ended /\ current' \in {current, current + 1}
           /\ (current' # current => server' = "scheduled")
    BY DEF Advance, Retry
  <2>2. server' = "scheduled" => current' = current + 1
    BY <1>1 DEF Advance, Alone, Retry
  <2>3. \A b \in Attempts : Executing(b)' => b = current' /\ server' # "scheduled"
    BY <1>1, <1>2, <2>1, <2>2 DEF Alone
  <2>4. \A b \in Attempts : b > current' => pc'[b] = "idle"
    BY <1>1, <1>2, <2>1 DEF Alone
  <2>5. server' = "scheduled" => pc'[current'] = "idle"
    BY <1>1, <1>2, <1>6, <2>2 DEF Alone
  <2> QED BY <2>3, <2>4, <2>5 DEF Alone
<1>5. server' \in {"scheduled", "started", "closed"}
  BY DEF Advance, serverVars, Retry
<1>7. outcome' \in Outcomes
  BY DEF Advance, serverVars, Retry, Outcomes
<1>8. outcome' = "success" =>
        /\ "success" \in kinds /\ pc'[a] \in Ended
        /\ server' = "closed" /\ reviewed' = seen[a]
  BY <1>3 DEF Advance, serverVars, Retry
<1>9. reviewed' \in Snapshots
  BY DEF Advance, serverVars, Retry
<1>10. outcome' = "cancelled" => "cancelled" \in kinds \/ outcome = "cancelled"
  BY DEF Advance, serverVars, Retry
<1> QED BY <1>1, <1>2, <1>4, <1>5, <1>6, <1>7, <1>8, <1>9, <1>10

(* The server's and the counters' share of TypeOK.                          *)
LEMMA AdvanceTyped ==
  ASSUME IndInv, NEW a \in Attempts, Executing(a),
         NEW T \in SUBSET Executions, NEW kinds \in SUBSET Outcomes,
         Advance(a, T, kinds)
  PROVE  /\ pc' \in [Attempts -> {"idle"} \cup Executions \cup Ended]
         /\ server' \in {"scheduled", "started", "closed"} /\ current' \in Attempts
         /\ outcome' \in Outcomes /\ reviewed' \in Snapshots
<1> QED BY AdvanceAlone DEF IndInv, Advance

(* An action of an executing attempt keeps the invariant if it keeps the    *)
(* types, the tree, its own phase and the edits; the other attempts, and    *)
(* what an accepted result needs, follow.                                   *)
LEMMA Assemble ==
  ASSUME IndInv, NEW a \in Attempts, Executing(a),
         NEW T \in SUBSET Executions, NEW kinds \in SUBSET Failures,
         Advance(a, T, kinds),
         \A b \in Attempts \ {a} : tried'[b] = tried[b],
         TypeOK', Tidy', Phase(a)', NoWorkLost'
  PROVE  IndInv'
<1> USE DEF IndInv
<1>1. kinds \in SUBSET Outcomes /\ "success" \notin kinds /\ "cancelled" \notin kinds
  BY DEF Failures
<1>2. /\ Alone' /\ outcome' # "success"
      /\ \A b \in Attempts \ {a} : pc[b] \in Still /\ pc'[b] = pc[b]
  BY <1>1, AdvanceAlone
<1>3. ASSUME NEW b \in Attempts \ {a} PROVE Phase(b)'
  <2>1. pc'[b] \in Still /\ pc'[b] = pc[b] /\ tried'[b] = tried[b]
    BY <1>2
  <2>2. Phase(b)
    OBVIOUS
  <2> QED BY <2>1, <2>2
             DEF Phase, Still, Ended, FirstSteps, QuietSteps, BareSteps,
                 SavedSteps, BranchSteps, ReportSteps, Executions, SetupSteps,
                 FinishSteps
<1>4. Settled' /\ NothingUnreviewedOnBranch'
  BY <1>2 DEF Settled, NothingUnreviewedOnBranch
<1>5. DrainIsNoResult'
  BY <1>1, AdvanceAlone DEF DrainIsNoResult
<1> QED BY <1>2, <1>3, <1>4, <1>5

(* An attempt passes its gates, is refused, or answers from a cached        *)
(* report.                                                                  *)
LEMMA GateStep ==
  ASSUME IndInv, NEW a \in Attempts, Gate(a)
  PROVE  IndInv'
<1> USE DEF IndInv
<1>0. /\ {"census"} \in SUBSET Executions
      /\ Failures \in SUBSET Failures /\ Failures \in SUBSET Outcomes
  BY DEF Failures, Executions, SetupSteps
<1>1. Executing(a) /\ Advance(a, {"census"}, Failures)
  BY DEF Gate, TypeOK, Phase, Advance, Fail, FailAt, Return, Continue, Goto,
         Listening, Executing, Executions, SetupSteps, Ended, Failures,
         Outcomes
<1>2. TypeOK'
  BY <1>0, <1>1, AdvanceTyped DEF Gate, TypeOK
<1>3. Tidy'
  BY DEF Gate, Tidy
<1>4. Phase(a)'
  BY <1>1, MaxProvidersAssumption
     DEF Gate, TypeOK, Tidy, Fail, FailAt, Return, Continue, Goto, Listening,
         Durable, Phase, Ended, FirstSteps, QuietSteps, BareSteps, SavedSteps,
         BranchSteps, ReportSteps
<1>5. NoWorkLost'
  BY DEF Gate, NoWorkLost, Durable
<1>6. \A b \in Attempts \ {a} : tried'[b] = tried[b]
  BY DEF Gate
<1> QED BY <1>0, <1>1, <1>2, <1>3, <1>4, <1>5, <1>6, Assemble

(* Set-up goes past a tree only when nothing lives in it.                   *)
LEMMA CensusExistingStep ==
  ASSUME IndInv, NEW a \in Attempts, CensusExisting(a)
  PROVE  IndInv'
<1> USE DEF IndInv
<1>0. /\ {"guard", "ckpt"} \in SUBSET Executions
      /\ {} \in SUBSET Failures /\ {} \in SUBSET Outcomes
  BY DEF Executions, SetupSteps
<1>1. Executing(a) /\ Advance(a, {"guard", "ckpt"}, {})
  BY DEF CensusExisting, TypeOK, Phase, Advance, Fail, FailAt, Return,
         Continue, Goto, Listening, Executing, Executions, SetupSteps, Ended
<1>2. TypeOK'
  BY <1>0, <1>1, AdvanceTyped DEF CensusExisting, TypeOK
<1>3. Tidy'
  BY DEF CensusExisting, Tidy
<1>4. Phase(a)'
  BY <1>1, MaxProvidersAssumption
     DEF CensusExisting, TypeOK, Tidy, Fail, FailAt, Return, Continue, Goto,
         Listening, Durable, Occupied, Phase, Ended, FirstSteps, QuietSteps,
         BareSteps, SavedSteps, BranchSteps, ReportSteps
<1>5. NoWorkLost'
  BY DEF CensusExisting, NoWorkLost, Durable
<1>6. \A b \in Attempts \ {a} : tried'[b] = tried[b]
  BY DEF CensusExisting
<1> QED BY <1>0, <1>1, <1>2, <1>3, <1>4, <1>5, <1>6, Assemble

(* What an old tree holds is durable before set-up goes on to remove it.    *)
LEMMA CheckpointExistingStep ==
  ASSUME IndInv, NEW a \in Attempts, CheckpointExisting(a)
  PROVE  IndInv'
<1> USE DEF IndInv
<1>0. /\ {"rm"} \in SUBSET Executions
      /\ {} \in SUBSET Failures /\ {} \in SUBSET Outcomes
  BY DEF Executions, SetupSteps
<1>1. Executing(a) /\ Advance(a, {"rm"}, {})
  BY DEF CheckpointExisting, TypeOK, Phase, Advance, Fail, FailAt, Return,
         Continue, Goto, Listening, Executing, Executions, SetupSteps, Ended
<1>2. TypeOK'
  BY <1>0, <1>1, AdvanceTyped, MaxProvidersAssumption
     DEF CheckpointExisting, TypeOK, Checkpoint, CheckpointFails
<1>3. Tidy'
  BY DEF CheckpointExisting, Tidy, TypeOK, Phase, QuietSteps, SavedSteps,
         Checkpoint, CheckpointFails
<1>4. Phase(a)'
  BY <1>1, MaxProvidersAssumption
     DEF CheckpointExisting, TypeOK, Tidy, Fail, FailAt, Return, Continue,
         Goto, Listening, Durable, NothingToSave, CanSave, SaveFails,
         Checkpoint, CheckpointFails, Phase, Ended, FirstSteps, QuietSteps,
         BareSteps, SavedSteps, BranchSteps, ReportSteps
<1>5. NoWorkLost'
  BY DEF CheckpointExisting, NoWorkLost, Durable, Tidy, Phase, Checkpoint,
         CheckpointFails
<1>6. \A b \in Attempts \ {a} : tried'[b] = tried[b]
  BY DEF CheckpointExisting
<1> QED BY <1>0, <1>1, <1>2, <1>3, <1>4, <1>5, <1>6, Assemble

(* The old tree goes only when nothing lives in it and all is saved.        *)
LEMMA RemoveExistingStep ==
  ASSUME IndInv, NEW a \in Attempts, RemoveExisting(a)
  PROVE  IndInv'
<1> USE DEF IndInv
<1>0. /\ {"guard"} \in SUBSET Executions
      /\ {} \in SUBSET Failures /\ {} \in SUBSET Outcomes
  BY DEF Executions, SetupSteps
<1>1. Executing(a) /\ Advance(a, {"guard"}, {})
  BY DEF RemoveExisting, TypeOK, Phase, Advance, Fail, FailAt, Return,
         Continue, Goto, Listening, Executing, Executions, SetupSteps, Ended
<1>2. TypeOK'
  BY <1>0, <1>1, AdvanceTyped DEF RemoveExisting, TypeOK, RemoveTree
<1>3. Tidy'
  BY DEF RemoveExisting, Tidy, TypeOK, Phase, QuietSteps, SavedSteps,
         RemoveTree
<1>4. Phase(a)'
  BY <1>1, MaxProvidersAssumption
     DEF RemoveExisting, TypeOK, Tidy, Fail, FailAt, Return, Continue, Goto,
         Listening, Durable, Occupied, RemoveTree, Phase, Ended, FirstSteps,
         QuietSteps, BareSteps, SavedSteps, BranchSteps, ReportSteps
<1>5. NoWorkLost'
  BY DEF RemoveExisting, NoWorkLost, Durable, Phase, SavedSteps
<1>6. \A b \in Attempts \ {a} : tried'[b] = tried[b]
  BY DEF RemoveExisting
<1> QED BY <1>0, <1>1, <1>2, <1>3, <1>4, <1>5, <1>6, Assemble

(* A branch set-up goes on to delete is on a remote, or was misread.        *)
LEMMA GuardBranchDeleteStep ==
  ASSUME IndInv, NEW a \in Attempts, GuardBranchDelete(a)
  PROVE  IndInv'
<1> USE DEF IndInv
<1>0. /\ {"delete", "add"} \in SUBSET Executions
      /\ {} \in SUBSET Failures /\ {} \in SUBSET Outcomes
  BY DEF Executions, SetupSteps
<1>1. Executing(a) /\ Advance(a, {"delete", "add"}, {})
  BY DEF GuardBranchDelete, TypeOK, Phase, Advance, Fail, FailAt, Return,
         Continue, Goto, Listening, Executing, Executions, SetupSteps
<1>2. TypeOK'
  BY <1>0, <1>1, AdvanceTyped DEF GuardBranchDelete, GuardPasses, GuardKeeps, TypeOK
<1>3. Tidy'
  BY DEF GuardBranchDelete, Tidy, TypeOK
<1>4. Phase(a)'
  BY <1>1, MaxProvidersAssumption
     DEF GuardBranchDelete, GuardPasses, GuardKeeps, TypeOK, Tidy, Continue,
         Goto, Listening, Durable, HasUnmerged, FastForwards, Phase, Ended,
         FirstSteps, QuietSteps, BareSteps, BranchSteps, ReportSteps
<1>5. NoWorkLost'
  BY DEF GuardBranchDelete, GuardPasses, GuardKeeps, NoWorkLost, Durable,
         FastForwards
<1>6. \A b \in Attempts \ {a} : tried'[b] = tried[b]
  BY DEF GuardBranchDelete
<1> QED BY <1>0, <1>1, <1>2, <1>3, <1>4, <1>5, <1>6, Assemble

(* Deleting the branch loses nothing but what was misread.                  *)
LEMMA DeleteBranchStep ==
  ASSUME IndInv, NEW a \in Attempts, DeleteBranch(a)
  PROVE  IndInv'
<1> USE DEF IndInv
<1>0. /\ {"add"} \in SUBSET Executions
      /\ {} \in SUBSET Failures /\ {} \in SUBSET Outcomes
  BY DEF Executions, SetupSteps
<1>1. Executing(a) /\ Advance(a, {"add"}, {})
  BY DEF DeleteBranch, TypeOK, Phase, Advance, Fail, FailAt, Return, Continue,
         Goto, Listening, Executing, Executions, SetupSteps
<1>2. TypeOK'
  BY <1>0, <1>1, AdvanceTyped DEF DeleteBranch, TypeOK
<1>3. Tidy'
  BY DEF DeleteBranch, Tidy
<1>4. Phase(a)'
  BY <1>1, MaxProvidersAssumption
     DEF DeleteBranch, TypeOK, Tidy, Fail, FailAt, Return, Continue, Goto,
         Listening, Durable, Phase, Ended, FirstSteps, QuietSteps, BareSteps,
         BranchSteps, ReportSteps
<1>5. NoWorkLost'
  BY DEF DeleteBranch, NoWorkLost, Durable, Phase
<1>6. \A b \in Attempts \ {a} : tried'[b] = tried[b]
  BY DEF DeleteBranch
<1> QED BY <1>0, <1>1, <1>2, <1>3, <1>4, <1>5, <1>6, Assemble

(* A new tree and its branch appear together, both empty.                   *)
LEMMA AddWorktreeStep ==
  ASSUME IndInv, NEW a \in Attempts, AddWorktree(a)
  PROVE  IndInv'
<1> USE DEF IndInv
<1>0. /\ {"prepare"} \in SUBSET Executions
      /\ {} \in SUBSET Failures /\ {} \in SUBSET Outcomes
  BY DEF Executions
<1>1. Executing(a) /\ Advance(a, {"prepare"}, {})
  BY DEF AddWorktree, TypeOK, Phase, Advance, Fail, FailAt, Return, Continue,
         Goto, Listening, Executing, Executions, Ended
<1>2. TypeOK'
  BY <1>0, <1>1, AdvanceTyped DEF AddWorktree, TypeOK
<1>7. live' = {} /\ dirty' = {} /\ staged' = {} /\ branch' = branch
  BY DEF AddWorktree, Phase, QuietSteps, SavedSteps, Tidy, BareSteps
<1>3. Tidy'
  <2>1. (~branchExists' => branch' = {} /\ ~wtExists') /\ (~wtExists' => ~locked')
    <3>1. CASE UNCHANGED <<wtExists, branchExists, locked>>
      BY <1>7, <3>1 DEF Tidy
    <3>2. CASE branchExists' /\ (locked' => wtExists')
      BY <3>2
    <3>3. CASE branchExists' /\ wtExists'
      BY <3>3
    <3> QED BY <3>1, <3>2, <3>3 DEF AddWorktree
  <2> QED BY <1>7, <2>1 DEF Tidy
<1>4. Phase(a)'
  <2>1. /\ pc'[a] \in {"prepare", "noworktree"}
        /\ pc'[a] = "prepare" => branchExists'
        /\ tried'[a] = tried[a] /\ worker' = worker
    BY DEF AddWorktree, TypeOK, FailAt, Continue, Goto
  <2>2. tried[a] = 0 /\ worker # "down"
    BY DEF AddWorktree, Phase, FirstSteps, Executions, SetupSteps
  <2> QED BY <1>7, <2>1, <2>2
             DEF Phase, FirstSteps, QuietSteps, BareSteps, BranchSteps,
                 ReportSteps, Executions, SetupSteps, FinishSteps
<1>5. NoWorkLost'
  BY DEF AddWorktree, NoWorkLost, Durable
<1>6. \A b \in Attempts \ {a} : tried'[b] = tried[b]
  BY DEF AddWorktree
<1> QED BY <1>0, <1>1, <1>2, <1>3, <1>4, <1>5, <1>6, Assemble

(* Reading the new tree's HEAD changes nothing else.                        *)
LEMMA PrepareStep ==
  ASSUME IndInv, NEW a \in Attempts, Prepare(a)
  PROVE  IndInv'
<1> USE DEF IndInv
<1>0. /\ {"spawn"} \in SUBSET Executions
      /\ {} \in SUBSET Failures /\ {} \in SUBSET Outcomes
  BY DEF Executions
<1>1. Executing(a) /\ Advance(a, {"spawn"}, {})
  BY DEF Prepare, TypeOK, Phase, Advance, Fail, FailAt, Return, Continue,
         Goto, Listening, Executing, Executions
<1>2. TypeOK'
  BY <1>0, <1>1, AdvanceTyped DEF Prepare, TypeOK
<1>3. Tidy'
  BY DEF Prepare, Tidy
<1>4. Phase(a)'
  BY <1>1, MaxProvidersAssumption
     DEF Prepare, TypeOK, Tidy, Fail, FailAt, Return, Continue, Goto,
         Listening, Durable, Phase, Ended, FirstSteps, QuietSteps, BareSteps,
         SavedSteps, BranchSteps, ReportSteps
<1>5. NoWorkLost'
  BY DEF Prepare, NoWorkLost, Durable
<1>6. \A b \in Attempts \ {a} : tried'[b] = tried[b]
  BY DEF Prepare
<1> QED BY <1>0, <1>1, <1>2, <1>3, <1>4, <1>5, <1>6, Assemble

(* A harness starts where none lives, while a provider is untried.          *)
LEMMA SpawnStep ==
  ASSUME IndInv, NEW a \in Attempts, Spawn(a)
  PROVE  IndInv'
<1> USE DEF IndInv
<1>0. /\ {"run"} \in SUBSET Executions
      /\ {} \in SUBSET Failures /\ {} \in SUBSET Outcomes
  BY DEF Executions
<1>1. Executing(a) /\ Advance(a, {"run"}, {})
  BY DEF Spawn, TypeOK, Phase, Advance, Fail, FailAt, Return, Continue, Goto,
         Listening, Executing, Executions, Ended
<1>2. TypeOK'
  <2>1. /\ tried' \in [Attempts -> 0 .. MaxProviders]
        /\ rc' \in [Attempts -> {"none", "ok", "fail", "limit", "timeout", "cancel"}]
    BY MaxProvidersAssumption DEF Spawn, TypeOK, Phase
  <2>2. live' \in SUBSET Attempts
    BY DEF Spawn, TypeOK
  <2> QED BY <1>0, <1>1, <2>1, <2>2, AdvanceTyped DEF Spawn, TypeOK
<1>3. Tidy'
  BY DEF Spawn, Tidy, Phase, QuietSteps, SavedSteps
<1>4. Phase(a)'
  BY <1>1, MaxProvidersAssumption
     DEF Spawn, TypeOK, Tidy, Fail, FailAt, Return, Continue, Goto, Listening,
         Durable, Phase, Ended, FirstSteps, QuietSteps, BareSteps, SavedSteps,
         BranchSteps, ReportSteps
<1>5. NoWorkLost'
  BY DEF Spawn, NoWorkLost, Durable
<1>6. \A b \in Attempts \ {a} : tried'[b] = tried[b]
  BY DEF Spawn, TypeOK
<1> QED BY <1>0, <1>1, <1>2, <1>3, <1>4, <1>5, <1>6, Assemble

(* A wrapper exits, with or without its descendants.                        *)
LEMMA HarnessExitStep ==
  ASSUME IndInv, NEW a \in Attempts, HarnessExit(a)
  PROVE  IndInv'
<1> USE DEF IndInv
<1>0. /\ {"reap"} \in SUBSET Executions
      /\ {} \in SUBSET Failures /\ {} \in SUBSET Outcomes
  BY DEF Executions
<1>1. Executing(a) /\ Advance(a, {"reap"}, {})
  BY DEF HarnessExit, TypeOK, Phase, Advance, Fail, FailAt, Return, Continue,
         Goto, Listening, Executing, Executions
<1>2. TypeOK'
  <2>1. rc' \in [Attempts -> {"none", "ok", "fail", "limit", "timeout", "cancel"}]
    BY DEF HarnessExit, TypeOK
  <2>2. live' \in SUBSET Attempts
    BY DEF HarnessExit, TypeOK
  <2> QED BY <1>0, <1>1, <2>1, <2>2, AdvanceTyped DEF HarnessExit, TypeOK
<1>3. Tidy'
  BY DEF HarnessExit, Tidy
<1>4. Phase(a)'
  BY <1>1, MaxProvidersAssumption
     DEF HarnessExit, TypeOK, Tidy, Fail, FailAt, Return, Continue, Goto,
         Listening, Durable, Phase, Ended, FirstSteps, QuietSteps, BareSteps,
         SavedSteps, BranchSteps, ReportSteps
<1>5. NoWorkLost'
  BY DEF HarnessExit, NoWorkLost, Durable
<1>6. \A b \in Attempts \ {a} : tried'[b] = tried[b]
  BY DEF HarnessExit
<1> QED BY <1>0, <1>1, <1>2, <1>3, <1>4, <1>5, <1>6, Assemble

(* A run is given up on; while the server listens only a drain cancels it.  *)
LEMMA InterruptStep ==
  ASSUME IndInv, NEW a \in Attempts, Interrupt(a)
  PROVE  IndInv'
<1> USE DEF IndInv
<1>0. /\ {"reap"} \in SUBSET Executions
      /\ {} \in SUBSET Failures /\ {} \in SUBSET Outcomes
  BY DEF Executions
<1>1. Executing(a) /\ Advance(a, {"reap"}, {})
  BY DEF Interrupt, TypeOK, Phase, Advance, Fail, FailAt, Return, Continue,
         Goto, Listening, Executing, Executions
<1>2. TypeOK'
  BY <1>0, <1>1, AdvanceTyped DEF Interrupt, TypeOK
<1>3. Tidy'
  BY DEF Interrupt, Tidy
<1>4. Phase(a)'
  BY <1>1, MaxProvidersAssumption
     DEF Interrupt, TypeOK, Tidy, Fail, FailAt, Return, Continue, Goto,
         Listening, Durable, Phase, Ended, FirstSteps, QuietSteps, BareSteps,
         SavedSteps, BranchSteps, ReportSteps
<1>5. NoWorkLost'
  BY DEF Interrupt, NoWorkLost, Durable
<1>6. \A b \in Attempts \ {a} : tried'[b] = tried[b]
  BY DEF Interrupt
<1> QED BY <1>0, <1>1, <1>2, <1>3, <1>4, <1>5, <1>6, Assemble

(* After the kill nothing lives in the tree, or the attempt raises.         *)
LEMMA ReapStep ==
  ASSUME IndInv, NEW a \in Attempts, Reap(a)
  PROVE  IndInv'
<1> USE DEF IndInv
<1>0. /\ {"stopsave", "autocommit", "save"} \in SUBSET Executions
      /\ {} \in SUBSET Failures /\ {} \in SUBSET Outcomes
  BY DEF Executions
<1>1. Executing(a) /\ Advance(a, {"stopsave", "autocommit", "save"}, {})
  BY DEF Reap, TypeOK, Phase, Advance, Fail, FailAt, Return, Continue, Goto,
         Listening, Executing, Executions, Ended
<1>2. TypeOK'
  BY <1>0, <1>1, AdvanceTyped DEF Reap, TypeOK
<1>3. Tidy'
  BY DEF Reap, Tidy
<1>4. Phase(a)'
  BY <1>1, MaxProvidersAssumption
     DEF Reap, TypeOK, Tidy, Fail, FailAt, Return, Continue, Goto, Listening,
         Durable, Phase, Ended, FirstSteps, QuietSteps, BareSteps, SavedSteps,
         BranchSteps, ReportSteps
<1>5. NoWorkLost'
  BY DEF Reap, NoWorkLost, Durable
<1>6. \A b \in Attempts \ {a} : tried'[b] = tried[b]
  BY DEF Reap
<1> QED BY <1>0, <1>1, <1>2, <1>3, <1>4, <1>5, <1>6, Assemble

(* A run given up on is saved; a drain's cancellation is not returned.      *)
LEMMA StopSaveStep ==
  ASSUME IndInv, NEW a \in Attempts, StopSave(a)
  PROVE  IndInv'
<1> USE DEF IndInv
<1>0. /\ {} \in SUBSET Executions
      /\ {"timeout"} \in SUBSET Failures /\ {"timeout"} \in SUBSET Outcomes
  BY DEF Failures, Outcomes
<1>1. Executing(a) /\ Advance(a, {}, {"timeout"})
  BY DEF StopSave, ShutdownRequested, TypeOK, Phase, Advance, Fail, FailAt,
         Return, Continue, Goto, Listening, Executing, Ended
<1>2. TypeOK'
  BY <1>0, <1>1, AdvanceTyped, MaxProvidersAssumption
     DEF StopSave, TypeOK, Checkpoint, CheckpointFails
<1>3. Tidy'
  BY DEF StopSave, Tidy, TypeOK, Phase, QuietSteps, SavedSteps, Checkpoint,
         CheckpointFails
<1>4. Phase(a)'
  BY <1>1, MaxProvidersAssumption
     DEF StopSave, ShutdownRequested, TypeOK, Tidy, Fail, FailAt, Return,
         Continue, Goto, Listening, Durable, NothingToSave, CanSave, SaveFails,
         Checkpoint, CheckpointFails, Phase, Ended, FirstSteps, QuietSteps,
         BareSteps, SavedSteps, BranchSteps, ReportSteps
<1>5. NoWorkLost'
  BY DEF StopSave, NoWorkLost, Durable, Tidy, Phase, Checkpoint,
         CheckpointFails
<1>6. \A b \in Attempts \ {a} : tried'[b] = tried[b]
  BY DEF StopSave
<1> QED BY <1>0, <1>1, <1>2, <1>3, <1>4, <1>5, <1>6, Assemble

(* A commit moves every edit of the tree to the branch, or fails.           *)
LEMMA AutoCommitStep ==
  ASSUME IndInv, NEW a \in Attempts, AutoCommit(a)
  PROVE  IndInv'
<1> USE DEF IndInv
<1>0. /\ {"judge", "save"} \in SUBSET Executions
      /\ {} \in SUBSET Failures /\ {} \in SUBSET Outcomes
  BY DEF Executions
<1>1. Executing(a) /\ Advance(a, {"judge", "save"}, {})
  BY DEF AutoCommit, TypeOK, Phase, Advance, Fail, FailAt, Return, Continue,
         Goto, Listening, Executing, Executions
<1>2. TypeOK'
  BY <1>0, <1>1, AdvanceTyped DEF AutoCommit, CommitsLate, TypeOK
<1>3. Tidy'
  BY DEF AutoCommit, Tidy, TypeOK, Phase
<1>4. Phase(a)'
  BY <1>1, MaxProvidersAssumption
     DEF AutoCommit, TypeOK, Tidy, Fail, FailAt, Return, Continue, Goto,
         Listening, Durable, NothingToSave, CanSave, SaveFails, Phase, Ended,
         FirstSteps, QuietSteps, BareSteps, SavedSteps, BranchSteps,
         ReportSteps
<1>5. NoWorkLost'
  BY DEF AutoCommit, NoWorkLost, Durable
<1>6. \A b \in Attempts \ {a} : tried'[b] = tried[b]
  BY DEF AutoCommit
<1> QED BY <1>0, <1>1, <1>2, <1>3, <1>4, <1>5, <1>6, Assemble

(* What was not committed is durable before the run is cleaned or judged.   *)
LEMMA SaveUncommittedStep ==
  ASSUME IndInv, NEW a \in Attempts, SaveUncommitted(a)
  PROVE  IndInv'
<1> USE DEF IndInv
<1>0. /\ {"judge", "clean"} \in SUBSET Executions
      /\ {} \in SUBSET Failures /\ {} \in SUBSET Outcomes
  BY DEF Executions
<1>1. Executing(a) /\ Advance(a, {"judge", "clean"}, {})
  BY DEF SaveUncommitted, TypeOK, Phase, Advance, Fail, FailAt, Return,
         Continue, Goto, Listening, Executing, Executions, Ended
<1>2. TypeOK'
  BY <1>0, <1>1, AdvanceTyped, MaxProvidersAssumption
     DEF SaveUncommitted, TypeOK, Checkpoint, CheckpointFails
<1>3. Tidy'
  BY DEF SaveUncommitted, Tidy, TypeOK, Phase, QuietSteps, SavedSteps,
         Checkpoint, CheckpointFails
<1>4. Phase(a)'
  BY <1>1, MaxProvidersAssumption
     DEF SaveUncommitted, TypeOK, Tidy, Fail, FailAt, Return, Continue, Goto,
         Listening, Durable, NothingToSave, CanSave, SaveFails, Checkpoint,
         CheckpointFails, Phase, Ended, FirstSteps, QuietSteps, BareSteps,
         SavedSteps, BranchSteps, ReportSteps
<1>5. NoWorkLost'
  BY DEF SaveUncommitted, NoWorkLost, Durable, Tidy, Phase, Checkpoint,
         CheckpointFails
<1>6. \A b \in Attempts \ {a} : tried'[b] = tried[b]
  BY DEF SaveUncommitted
<1> QED BY <1>0, <1>1, <1>2, <1>3, <1>4, <1>5, <1>6, Assemble

(* Cleaning drops files whose edits are durable.                            *)
LEMMA CleanFailedStep ==
  ASSUME IndInv, NEW a \in Attempts, CleanFailed(a)
  PROVE  IndInv'
<1> USE DEF IndInv
<1>0. /\ {"judge"} \in SUBSET Executions
      /\ {} \in SUBSET Failures /\ {} \in SUBSET Outcomes
  BY DEF Executions
<1>1. Executing(a) /\ Advance(a, {"judge"}, {})
  BY DEF CleanFailed, TypeOK, Phase, Advance, Fail, FailAt, Return, Continue,
         Goto, Listening, Executing, Executions, Ended
<1>2. TypeOK'
  BY <1>0, <1>1, AdvanceTyped DEF CleanFailed, TypeOK
<1>3. Tidy'
  BY DEF CleanFailed, Tidy
<1>4. Phase(a)'
  BY <1>1, MaxProvidersAssumption
     DEF CleanFailed, TypeOK, Tidy, Fail, FailAt, Return, Continue, Goto,
         Listening, Durable, Occupied, Phase, Ended, FirstSteps, QuietSteps,
         BareSteps, SavedSteps, BranchSteps, ReportSteps
<1>5. NoWorkLost'
  BY DEF CleanFailed, NoWorkLost, Durable, Phase, SavedSteps
<1>6. \A b \in Attempts \ {a} : tried'[b] = tried[b]
  BY DEF CleanFailed
<1> QED BY <1>0, <1>1, <1>2, <1>3, <1>4, <1>5, <1>6, Assemble

(* A fallback starts only while a provider is untried.                      *)
LEMMA JudgeStep ==
  ASSUME IndInv, NEW a \in Attempts, Judge(a)
  PROVE  IndInv'
<1> USE DEF IndInv
<1>0. /\ {"spawn", "snap", "test"} \in SUBSET Executions
      /\ Failures \in SUBSET Failures /\ Failures \in SUBSET Outcomes
  BY DEF Failures, Executions, FinishSteps
<1>1. Executing(a) /\ Advance(a, {"spawn", "snap", "test"}, Failures)
  BY DEF Judge, TypeOK, Phase, Advance, Fail, FailAt, Return, Continue, Goto,
         Listening, Executing, Executions, FinishSteps, Ended, Failures,
         Outcomes
<1>2. TypeOK'
  BY <1>0, <1>1, AdvanceTyped DEF Judge, TypeOK
<1>3. Tidy'
  BY DEF Judge, Tidy
<1>4. Phase(a)'
  BY <1>1, MaxProvidersAssumption
     DEF Judge, Untried, TypeOK, Tidy, Fail, FailAt, Return, Continue, Goto,
         Listening, Durable, HeadMoved, Phase, Ended, FirstSteps, QuietSteps,
         BareSteps, SavedSteps, BranchSteps, ReportSteps
<1>5. NoWorkLost'
  BY DEF Judge, NoWorkLost, Durable
<1>6. \A b \in Attempts \ {a} : tried'[b] = tried[b]
  BY DEF Judge
<1> QED BY <1>0, <1>1, <1>2, <1>3, <1>4, <1>5, <1>6, Assemble

(* Tests change neither tree nor branch.                                    *)
LEMMA RunTestsStep ==
  ASSUME IndInv, NEW a \in Attempts, RunTests(a)
  PROVE  IndInv'
<1> USE DEF IndInv
<1>0. /\ {"early", "snap"} \in SUBSET Executions
      /\ {} \in SUBSET Failures /\ {} \in SUBSET Outcomes
  BY DEF Executions, FinishSteps
<1>1. Executing(a) /\ Advance(a, {"early", "snap"}, {})
  BY DEF RunTests, TypeOK, Phase, Advance, Fail, FailAt, Return, Continue,
         Goto, Listening, Executing, Executions, FinishSteps, Ended
<1>2. TypeOK'
  BY <1>0, <1>1, AdvanceTyped DEF RunTests, TypeOK
<1>3. Tidy'
  BY DEF RunTests, Tidy
<1>4. Phase(a)'
  BY <1>1, MaxProvidersAssumption
     DEF RunTests, TypeOK, Tidy, Fail, FailAt, Return, Continue, Goto,
         Listening, Durable, Phase, Ended, FirstSteps, QuietSteps, BareSteps,
         SavedSteps, BranchSteps, ReportSteps
<1>5. NoWorkLost'
  BY DEF RunTests, NoWorkLost, Durable
<1>6. \A b \in Attempts \ {a} : tried'[b] = tried[b]
  BY DEF RunTests
<1> QED BY <1>0, <1>1, <1>2, <1>3, <1>4, <1>5, <1>6, Assemble

(* What is reported is the branch, which nothing can change from here on.   *)
LEMMA SnapshotStep ==
  ASSUME IndInv, NEW a \in Attempts, Snapshot(a)
  PROVE  IndInv'
<1> USE DEF IndInv
<1>0. /\ {"drop", "push"} \in SUBSET Executions
      /\ {} \in SUBSET Failures /\ {} \in SUBSET Outcomes
  BY DEF Executions, FinishSteps
<1>1. Executing(a) /\ Advance(a, {"drop", "push"}, {})
  BY DEF Snapshot, TypeOK, Phase, Advance, Fail, FailAt, Return, Continue,
         Goto, Listening, Executing, Executions, FinishSteps
<1>2. TypeOK'
  <2>1. PICK shown \in BOOLEAN, counted \in BOOLEAN :
          seen' = [seen EXCEPT ![a] =
                     [held |-> branch, shown |-> shown, counted |-> counted]]
    BY SwitchAssumption DEF Snapshot
  <2>2. [held |-> branch, shown |-> shown, counted |-> counted] \in Snapshots
    BY DEF Snapshots, TypeOK
  <2>3. seen' \in [Attempts -> Snapshots]
    BY <2>1, <2>2 DEF TypeOK
  <2> QED BY <1>0, <1>1, <2>3, AdvanceTyped DEF Snapshot, TypeOK
<1>3. Tidy'
  BY DEF Snapshot, Tidy
<1>4. Phase(a)'
  BY <1>1, MaxProvidersAssumption
     DEF Snapshot, TypeOK, Tidy, Fail, FailAt, Return, Continue, Goto,
         Listening, Durable, Phase, Ended, FirstSteps, QuietSteps, BareSteps,
         SavedSteps, BranchSteps
<1>5. NoWorkLost'
  BY DEF Snapshot, NoWorkLost, Durable
<1>6. \A b \in Attempts \ {a} : tried'[b] = tried[b]
  BY DEF Snapshot
<1> QED BY <1>0, <1>1, <1>2, <1>3, <1>4, <1>5, <1>6, Assemble

(* A push to origin only extends it.                                        *)
LEMMA PushEarlyStep ==
  ASSUME IndInv, NEW a \in Attempts, PushEarly(a)
  PROVE  IndInv'
<1> USE DEF IndInv
<1>0. /\ {"dropearly"} \in SUBSET Executions
      /\ {} \in SUBSET Failures /\ {} \in SUBSET Outcomes
  BY DEF Executions, FinishSteps
<1>1. Executing(a) /\ Advance(a, {"dropearly"}, {})
  BY DEF PushEarly, TypeOK, Phase, Advance, Fail, FailAt, Return, Continue,
         Goto, Listening, Executing, Executions, FinishSteps, Ended
<1>2. TypeOK'
  BY <1>0, <1>1, AdvanceTyped DEF PushEarly, TypeOK
<1>3. Tidy'
  BY DEF PushEarly, Tidy
<1>4. Phase(a)'
  BY <1>1, MaxProvidersAssumption
     DEF PushEarly, TypeOK, Tidy, Fail, FailAt, Return, Continue, Goto,
         Listening, Durable, FastForwards, Phase, Ended, FirstSteps,
         QuietSteps, BareSteps, SavedSteps, BranchSteps, ReportSteps
<1>5. NoWorkLost'
  BY DEF PushEarly, NoWorkLost, Durable, FastForwards
<1>6. \A b \in Attempts \ {a} : tried'[b] = tried[b]
  BY DEF PushEarly
<1> QED BY <1>0, <1>1, <1>2, <1>3, <1>4, <1>5, <1>6, Assemble

(* The tree goes only when all it holds is durable.                         *)
LEMMA DropWorktreeStep ==
  ASSUME IndInv, NEW a \in Attempts, DropWorktree(a)
  PROVE  IndInv'
<1> USE DEF IndInv
<1>0. /\ {"report"} \in SUBSET Executions
      /\ {} \in SUBSET Failures /\ {} \in SUBSET Outcomes
  BY DEF Executions, FinishSteps
<1>1. Executing(a) /\ Advance(a, {"report"}, {})
  BY DEF DropWorktree, TypeOK, Phase, Advance, Fail, FailAt, Return, Continue,
         Goto, Listening, Executing, Executions, FinishSteps, Ended
<1>2. TypeOK'
  BY <1>0, <1>1, AdvanceTyped DEF DropWorktree, TypeOK, RemoveTree
<1>3. Tidy'
  BY DEF DropWorktree, Tidy, TypeOK, Phase, QuietSteps, SavedSteps, RemoveTree
<1>4. Phase(a)'
  BY <1>1, MaxProvidersAssumption
     DEF DropWorktree, TypeOK, Tidy, Fail, FailAt, Return, Continue, Goto,
         Listening, Durable, Occupied, RemoveTree, Phase, Ended, FirstSteps,
         QuietSteps, BareSteps, SavedSteps, BranchSteps, ReportSteps
<1>5. NoWorkLost'
  BY DEF DropWorktree, NoWorkLost, Durable, Phase, SavedSteps
<1>6. \A b \in Attempts \ {a} : tried'[b] = tried[b]
  BY DEF DropWorktree
<1> QED BY <1>0, <1>1, <1>2, <1>3, <1>4, <1>5, <1>6, Assemble

(* A drain cancels an attempt outside of its harness runs.                  *)
LEMMA CancelDrainedStep ==
  ASSUME IndInv, NEW a \in Attempts, CancelDrained(a)
  PROVE  IndInv'
<1> USE DEF IndInv
<1>0. /\ {} \in SUBSET Executions
      /\ {} \in SUBSET Failures /\ {} \in SUBSET Outcomes
  OBVIOUS
<1>1. Executing(a) /\ Advance(a, {}, {})
  BY DEF CancelDrained, Awaiting, TypeOK, Phase, Advance, Fail, FailAt, Return,
         Continue, Goto, Listening, Executing, Ended
<1>2. TypeOK'
  BY <1>1, AdvanceTyped DEF CancelDrained, TypeOK
<1>3. Tidy'
  BY DEF CancelDrained, Tidy
<1>4. Phase(a)'
  BY <1>1, MaxProvidersAssumption
     DEF CancelDrained, TypeOK, Tidy, Fail, FailAt, Return, Continue, Goto,
         Listening, Durable, Phase, Ended, FirstSteps, QuietSteps, BareSteps,
         SavedSteps, BranchSteps, ReportSteps
<1>5. NoWorkLost'
  BY DEF CancelDrained, NoWorkLost, Durable
<1>6. \A b \in Attempts \ {a} : tried'[b] = tried[b]
  BY DEF CancelDrained
<1> QED BY <1>0, <1>1, <1>2, <1>3, <1>4, <1>5, <1>6, Assemble

(* A success is accepted while its attempt is the only one there: what it   *)
(* reports is the branch, and nobody is left who could change that.         *)
LEMMA ReportStep ==
  ASSUME IndInv, NEW a \in Attempts, Report(a)
  PROVE  IndInv'
<1> USE DEF IndInv
<1> DEFINE kinds == {"success", "incomplete", "failure"}
<1>1. Executing(a) /\ Advance(a, {}, kinds) /\ pc'[a] \in Ended
  BY DEF Report, TypeOK, Advance, Return, Goto, Listening, Executing,
         Executions, SetupSteps, FinishSteps, Ended, Outcomes
<1>2. {} \in SUBSET Executions /\ kinds \in SUBSET Outcomes
  BY DEF Outcomes
<1> HIDE DEF kinds
<1>3. TypeOK'
  BY <1>1, <1>2, AdvanceTyped DEF Report, TypeOK
<1>4. /\ Alone' /\ \A b \in Attempts \ {a} : pc[b] \in Still /\ pc'[b] = pc[b]
      /\ outcome' = "success" => server' = "closed" /\ reviewed' = seen[a]
      /\ outcome' = "cancelled" => "cancelled" \in kinds \/ outcome = "cancelled"
  BY <1>1, <1>2, AdvanceAlone
<1>5. \A b \in Attempts : ~Executing(b)'
  BY <1>1, <1>4 DEF Executing, Still, Ended, Executions, SetupSteps, FinishSteps
<1>6. live = {} /\ seen[a].held = branch
  BY DEF Report, Phase, QuietSteps, ReportSteps
<1>7. Settled' /\ NothingUnreviewedOnBranch'
  BY <1>4, <1>5, <1>6 DEF Report, Settled, NothingUnreviewedOnBranch
<1>8. DrainIsNoResult'
  BY <1>4 DEF DrainIsNoResult, kinds
<1>9. ASSUME NEW b \in Attempts PROVE Phase(b)'
  <2>1. Phase(b) /\ pc'[b] \in Still /\ (b = a \/ pc'[b] = pc[b])
    BY <1>1, <1>4 DEF Still
  <2> QED BY <1>1, <2>1
             DEF Report, Phase, Still, Ended, FirstSteps, QuietSteps,
                 BareSteps, SavedSteps, BranchSteps, ReportSteps, Executions,
                 SetupSteps, FinishSteps
<1>10. Tidy' /\ NoWorkLost'
  BY DEF Report, Tidy, NoWorkLost, Durable
<1> QED BY <1>3, <1>4, <1>7, <1>8, <1>9, <1>10

(* The program counters and the server stand still while a harness works.   *)
(* An attempt that relies on a quiet tree excludes a live harness.          *)
LEMMA HarnessStep ==
  ASSUME IndInv, NEW a \in Attempts, Harness(a)
  PROVE  IndInv'
<1> USE DEF IndInv
<1>1. /\ UNCHANGED <<pc, serverVars, attemptVars, worker, wtExists, locked, branchExists>>
      /\ a \in live /\ live' \subseteq live
  BY DEF Harness, HarnessWrite, HarnessCommit, OrphanExit
<1>2. TypeOK'
  BY DEF Harness, HarnessWrite, HarnessCommit, CommitsLate, OrphanExit, TypeOK
<1>3. Alone' /\ Settled' /\ DrainIsNoResult' /\ live # {}
  BY <1>1 DEF Alone, Settled, DrainIsNoResult, Executing
<1>4. Tidy'
  BY <1>1 DEF Harness, HarnessWrite, HarnessCommit, OrphanExit, Tidy
<1>5. ASSUME NEW b \in Attempts PROVE Phase(b)'
  <2>1. Phase(b) /\ pc[b] \notin QuietSteps
    BY <1>3 DEF Phase
  <2> QED BY <1>1, <2>1
             DEF Phase, Listening, QuietSteps, SavedSteps, BareSteps,
                 ReportSteps
<1>6. NoWorkLost'
  BY DEF Harness, HarnessWrite, HarnessCommit, OrphanExit, NoWorkLost, Durable
<1>7. NothingUnreviewedOnBranch'
  BY <1>1, <1>3 DEF NothingUnreviewedOnBranch, Settled
<1> QED BY <1>2, <1>3, <1>4, <1>5, <1>6, <1>7

(* While the worker process changes nothing executes, or what executed dies.*)
LEMMA HostStep ==
  ASSUME IndInv, Host
  PROVE  IndInv'
<1> USE DEF IndInv
<1>1. CASE BeginDrain
  <2> USE <1>1 DEF BeginDrain
  <2>1. Tidy' /\ NoWorkLost' /\ NothingUnreviewedOnBranch' /\ DrainIsNoResult'
    BY DEF Tidy, NoWorkLost, Durable, NothingUnreviewedOnBranch, DrainIsNoResult
  <2>4. TypeOK'
    BY MaxStopsAssumption DEF TypeOK
  <2>2. Alone' /\ Settled'
    BY DEF Alone, Settled, Executing
  <2>3. ASSUME NEW a \in Attempts PROVE Phase(a)'
    BY DEF Phase, Listening, Durable
  <2> QED BY <2>1, <2>2, <2>3, <2>4
<1>2. CASE StopWorker
  <2> USE <1>2 DEF StopWorker
  <2>1. Tidy' /\ NoWorkLost' /\ NothingUnreviewedOnBranch' /\ DrainIsNoResult'
    BY DEF Tidy, NoWorkLost, Durable, NothingUnreviewedOnBranch, DrainIsNoResult
  <2>4. TypeOK'
    BY MaxStopsAssumption DEF TypeOK
  <2>2. Alone' /\ Settled'
    BY DEF Alone, Settled, Executing
  <2>3. ASSUME NEW a \in Attempts PROVE Phase(a)'
    BY DEF Phase, Listening, Durable, Executing, Executions, SetupSteps
  <2> QED BY <2>1, <2>2, <2>3, <2>4
<1>3. CASE Crash
  <2> USE <1>3 DEF Crash
  <2>1. TypeOK'
    <3>1. pc' \in [Attempts -> {"idle"} \cup Executions \cup Ended]
      BY DEF TypeOK, Ended
    <3>2. stops' \in 0 .. MaxStops /\ live' \in SUBSET Attempts
      BY MaxStopsAssumption DEF TypeOK
    <3> QED BY <3>1, <3>2 DEF TypeOK
  <2>2. /\ \A a \in Attempts : ~Executing(a)' /\ pc'[a] \in {pc[a], "dead"}
        /\ \A a \in Attempts : pc[a] = "idle" => pc'[a] = "idle"
    BY DEF TypeOK, Executing, Executions, SetupSteps, FinishSteps
  <2>3. Alone' /\ Settled'
    BY <2>2 DEF Alone, Settled, TypeOK
  <2>4. Tidy' /\ NoWorkLost' /\ NothingUnreviewedOnBranch' /\ DrainIsNoResult'
    BY DEF Tidy, NoWorkLost, Durable, NothingUnreviewedOnBranch, DrainIsNoResult
  <2>5. ASSUME NEW a \in Attempts PROVE Phase(a)'
    <3>1. pc'[a] \notin Executions /\ pc'[a] \in {pc[a], "dead"} /\ tried'[a] = tried[a]
      BY <2>2 DEF Executing
    <3> QED BY <3>1
               DEF Phase, FirstSteps, QuietSteps, SavedSteps, BareSteps,
                   BranchSteps, ReportSteps, Executions, SetupSteps,
                   FinishSteps
  <2> QED BY <2>1, <2>3, <2>4, <2>5
<1>4. CASE Restart \/ RestartAndCollect
  <2>1. /\ UNCHANGED <<pc, serverVars, attemptVars, live, stops, cached>>
        /\ worker = "down" /\ worker' = "up"
    BY <1>4 DEF Restart, RestartAndCollect
  <2>2. TypeOK'
    BY <1>4
       DEF Restart, RestartAndCollect, TypeOK, Checkpoint, CanSave, RemoveTree,
           GuardPasses, GuardKeeps
  <2>3. Alone' /\ Settled' /\ DrainIsNoResult'
    BY <2>1 DEF Alone, Settled, DrainIsNoResult, Executing
  <2>4. Tidy'
    BY <1>4
       DEF Restart, RestartAndCollect, Tidy, Checkpoint, RemoveTree, Occupied,
           GuardPasses, GuardKeeps, HasUnmerged
  <2>5. NoWorkLost'
    <3>1. CASE Restart
      BY <3>1 DEF Restart, NoWorkLost, Durable, Checkpoint
    <3>2. CASE RestartAndCollect
      <4>1. dirty \cup staged \subseteq checkpoints'
        BY <3>2 DEF RestartAndCollect
      <4>2. branch \subseteq branch' \cup ganglion' \cup origin \cup misread'
        BY <3>2 DEF RestartAndCollect, GuardPasses, GuardKeeps
      <4>3. ganglion \subseteq ganglion' /\ misread \subseteq misread'
        BY <3>2 DEF RestartAndCollect, GuardPasses, GuardKeeps, FastForwards
      <4>4. checkpoints \subseteq checkpoints' /\ origin' = origin /\ produced' = produced
        BY <3>2 DEF RestartAndCollect
      <4> QED BY <4>1, <4>2, <4>3, <4>4 DEF NoWorkLost, Durable
    <3> QED BY <1>4, <3>1, <3>2
  <2>6. NothingUnreviewedOnBranch'
    BY <1>4
       DEF Restart, RestartAndCollect, NothingUnreviewedOnBranch, Checkpoint,
           RemoveTree, GuardPasses, GuardKeeps
  <2>7. ASSUME NEW a \in Attempts PROVE Phase(a)'
    <3>1. Phase(a) /\ pc[a] \notin Executions /\ pc'[a] = pc[a] /\ tried'[a] = tried[a]
      BY <2>1 DEF Phase
    <3> QED BY <3>1
               DEF Phase, FirstSteps, QuietSteps, SavedSteps, BareSteps,
                   BranchSteps, ReportSteps, Executions, SetupSteps,
                   FinishSteps
  <2> QED BY <2>2, <2>3, <2>4, <2>5, <2>6, <2>7
<1> QED BY <1>1, <1>2, <1>3, <1>4 DEF Host

(* The server starts an attempt, notices that one is dead or closes the     *)
(* workflow; none of it touches the repository.                             *)
LEMMA ServerStep ==
  ASSUME IndInv, Server, ~CanLapse
  PROVE  IndInv'
<1> USE DEF IndInv
<1>1. StartAttempt \/ DetectDead \/ CancelWorkflow
  BY DEF Server, Lapse
<1>2. /\ UNCHANGED <<treeVars, refVars, attemptVars, hostVars, historyVars>>
  BY <1>1 DEF StartAttempt, DetectDead, CancelWorkflow
<1>3. TypeOK'
  <2>1. CASE StartAttempt
    BY <2>1, <1>2 DEF StartAttempt, Goto, TypeOK, Executions
  <2>2. CASE DetectDead
    BY <2>2, <1>2, MaxAttemptsAssumption
       DEF DetectDead, Retry, TypeOK, Outcomes, Attempts
  <2>3. CASE CancelWorkflow
    BY <2>3, <1>2 DEF CancelWorkflow, TypeOK, Outcomes
  <2> QED BY <1>1, <2>1, <2>2, <2>3
<1>4. Tidy' /\ NoWorkLost'
  BY <1>2 DEF Tidy, NoWorkLost, Durable
<1>5. Alone'
  <2>1. CASE StartAttempt
    BY <2>1 DEF StartAttempt, Goto, TypeOK, Alone, Executing, Attempts
  <2>2. CASE DetectDead
    BY <2>2, MaxAttemptsAssumption
       DEF DetectDead, Retry, TypeOK, Alone, Executing, Attempts, Executions,
           SetupSteps, FinishSteps
  <2>3. CASE CancelWorkflow
    BY <2>3 DEF CancelWorkflow, Alone, Executing
  <2> QED BY <1>1, <2>1, <2>2, <2>3
<1>6. Settled' /\ NothingUnreviewedOnBranch' /\ DrainIsNoResult'
  <2>1. outcome' # "success" \/ UNCHANGED outcome
    BY <1>1 DEF StartAttempt, DetectDead, CancelWorkflow, Retry
  <2>2. CASE StartAttempt
    BY <2>2, <1>2
       DEF StartAttempt, Settled, NothingUnreviewedOnBranch, DrainIsNoResult
  <2>3. CASE DetectDead
    BY <2>3, <1>2
       DEF DetectDead, Retry, Settled, NothingUnreviewedOnBranch,
           DrainIsNoResult
  <2>4. CASE CancelWorkflow
    BY <2>4, <1>2
       DEF CancelWorkflow, Settled, NothingUnreviewedOnBranch, DrainIsNoResult
  <2> QED BY <1>1, <2>2, <2>3, <2>4
<1>7. ASSUME NEW a \in Attempts PROVE Phase(a)'
  <2>1. CASE StartAttempt
    <3>1. pc'[a] = pc[a] \/ (a = current /\ pc'[a] = "gate" /\ pc[a] = "idle")
      BY <2>1 DEF StartAttempt, Goto, TypeOK, Alone
    <3>2. worker # "down" /\ Phase(a) /\ rc'[a] = rc[a] /\ tried'[a] = tried[a]
      BY <2>1, <1>2 DEF StartAttempt
    <3>3. pc[a] \notin {"reap", "stopsave"}
      BY <2>1 DEF StartAttempt, Alone, Executing, Executions
    <3> QED BY <1>2, <3>1, <3>2, <3>3
               DEF Phase, FirstSteps, QuietSteps, SavedSteps, BareSteps,
                   BranchSteps, ReportSteps, Durable
  <2>2. CASE DetectDead
    <3>1. Phase(a) /\ pc[a] \notin Executions /\ pc'[a] = pc[a] /\ tried'[a] = tried[a]
      BY <2>2
         DEF DetectDead, Alone, Executing, Executions, SetupSteps, FinishSteps
    <3> QED BY <3>1
               DEF Phase, FirstSteps, QuietSteps, SavedSteps, BareSteps,
                   BranchSteps, ReportSteps, Executions, SetupSteps,
                   FinishSteps
  <2>3. CASE CancelWorkflow
    BY <2>3, <1>2 DEF CancelWorkflow, Phase, Listening, Durable
  <2> QED BY <1>1, <2>1, <2>2, <2>3
<1> QED BY <1>3, <1>4, <1>5, <1>6, <1>7

------------------------------------------------------------------------------
(* The invariant holds initially and is preserved by every step.            *)
LEMMA InitInd == Init => IndInv
<1> SUFFICES ASSUME Init PROVE IndInv
  OBVIOUS
<1> USE DEF Init
<1>1. TypeOK
  <2>1. current \in Attempts /\ outcome \in Outcomes
    BY MaxAttemptsAssumption DEF Attempts, Outcomes
  <2>2. 0 \in 0 .. MaxProviders /\ stops \in 0 .. MaxStops
    BY MaxProvidersAssumption, MaxStopsAssumption
  <2>3. NoSnapshot \in Snapshots
    BY DEF NoSnapshot, Snapshots
  <2> QED BY <2>1, <2>2, <2>3 DEF TypeOK
<1>2. Tidy /\ Settled
  BY DEF Tidy, Settled
<1>5. Alone
  <2>1. \A a \in Attempts : ~Executing(a) /\ pc[a] = "idle"
    BY DEF Executing, Executions, SetupSteps, FinishSteps
  <2>2. current \in Attempts
    BY MaxAttemptsAssumption DEF Attempts
  <2> QED BY <2>1, <2>2 DEF Alone
<1>3. \A a \in Attempts : Phase(a)
  BY DEF Phase, FirstSteps, QuietSteps, SavedSteps, BareSteps, BranchSteps,
         ReportSteps, Executions, SetupSteps, FinishSteps
<1>4. NoWorkLost /\ NothingUnreviewedOnBranch /\ DrainIsNoResult
  BY DEF NoWorkLost, NothingUnreviewedOnBranch, DrainIsNoResult, Durable
<1> QED BY <1>1, <1>2, <1>3, <1>4, <1>5 DEF IndInv

(* Every step keeps the inductive invariant.                                *)
LEMMA NextInd ==
  ASSUME IndInv, [Next]_vars, ~CanLapse
  PROVE  IndInv'
<1>1. CASE UNCHANGED vars
  BY <1>1
     DEF vars, IndInv, TypeOK, Alone, Tidy, Phase, Settled, NoWorkLost,
         Listening, NothingUnreviewedOnBranch, DrainIsNoResult, Executing,
         Durable
<1>2. ASSUME NEW a \in Attempts, Setup(a) PROVE IndInv'
  BY <1>2, GateStep, CensusExistingStep, CheckpointExistingStep,
     RemoveExistingStep, GuardBranchDeleteStep, DeleteBranchStep,
     AddWorktreeStep, PrepareStep
     DEF Setup
<1>3. ASSUME NEW a \in Attempts, Run(a) PROVE IndInv'
  BY <1>3, SpawnStep, HarnessExitStep, InterruptStep, ReapStep, StopSaveStep
     DEF Run
<1>4. ASSUME NEW a \in Attempts, Finish(a) PROVE IndInv'
  BY <1>4, AutoCommitStep, SaveUncommittedStep, CleanFailedStep, JudgeStep,
     RunTestsStep, SnapshotStep, PushEarlyStep, DropWorktreeStep, ReportStep
     DEF Finish
<1> QED BY <1>1, <1>2, <1>3, <1>4, HarnessStep, CancelDrainedStep, HostStep,
           ServerStep
           DEF Next

------------------------------------------------------------------------------
(* The invariant, of every instance in which the server gives up on no      *)
(* attempt that goes on.                                                    *)
THEOREM Invariance ==
  ASSUME ~CanLapse
  PROVE  Spec => []IndInv
<1>1. Init => IndInv
  BY InitInd
<1>2. IndInv /\ [Next]_vars => IndInv'
  BY NextInd
<1> QED BY <1>1, <1>2, PTL DEF Spec

(* Every variable keeps its type; the providers a run has tried never       *)
(* outnumber those there are, because Judge stops before.                   *)
THEOREM TypeCorrect ==
  ASSUME ~CanLapse
  PROVE  Spec => []TypeOK
<1>1. IndInv => TypeOK
  BY DEF IndInv
<1> QED BY <1>1, Invariance, PTL

(* No edit a harness has made is lost, whatever attempts, crashes, drains,  *)
(* restarts, collections, failed git commands and failed kills come between;*)
(* but for what was on a branch whose guard took a failed `git log` for     *)
(* "nothing unmerged", which is all that `misread` holds.                   *)
THEOREM WorkSurvives ==
  ASSUME ~CanLapse
  PROVE  Spec => []NoWorkLost
<1>1. IndInv => NoWorkLost
  BY DEF IndInv
<1> QED BY <1>1, Invariance, PTL

(* Two harnesses are never alive in the worktree at once.                   *)
THEOREM HarnessesExclude ==
  ASSUME ~CanLapse
  PROVE  Spec => []OneHarness
<1>1. ASSUME IndInv PROVE OneHarness
  <2>1. \A a, b \in live : a = b
    BY <1>1 DEF IndInv, Tidy
  <2>2. CASE live = {}
    BY <2>2, FS_EmptySet DEF OneHarness
  <2>3. CASE live # {}
    <3>1. PICK a : a \in live
      BY <2>3
    <3>2. live = {a}
      BY <2>1, <3>1
    <3> QED BY <3>2, FS_Singleton DEF OneHarness
  <2> QED BY <2>2, <2>3
<1> QED BY <1>1, Invariance, PTL

(* What HEAD held when a successful result's diff was taken is what the     *)
(* branch holds, for as long as there is a branch: however little of it the *)
(* diff shows, nothing is on the branch that came after.                    *)
THEOREM ReviewedIsBranch ==
  ASSUME ~CanLapse
  PROVE  Spec => []NothingUnreviewedOnBranch
<1>1. IndInv => NothingUnreviewedOnBranch
  BY DEF IndInv
<1> QED BY <1>1, Invariance, PTL

(* Stopping the worker never yields a cancelled result.                     *)
THEOREM DrainRetries ==
  ASSUME ~CanLapse
  PROVE  Spec => []DrainIsNoResult
<1>1. IndInv => DrainIsNoResult
  BY DEF IndInv
<1> QED BY <1>1, Invariance, PTL

------------------------------------------------------------------------------
(* The worker implements the ledger.                                        *)

(* A step that writes nothing new: what was kept stays, what becomes so was *)
(* in the worktree, and what leaves the worktree is kept.                   *)
Keeps ==
  /\ Kept \subseteq Kept'
  /\ Kept' \subseteq Kept \cup dirty \cup staged
  /\ dirty \cup staged \subseteq dirty' \cup staged' \cup Kept'
  /\ dirty' \cup staged' \subseteq dirty \cup staged

(* A step that writes nothing and keeps what is durable is a Secure of      *)
(* Ledger.                                                                  *)
LEMMA KeptSecures == Keeps => Work!Secure
BY DEF Keeps, Work!Secure

(* The steps of Setup, together.                                            *)
LEMMA SetupKeeps ==
  ASSUME IndInv, NEW a \in Attempts, Setup(a)
  PROVE  Keeps
<1> USE DEF IndInv, Keeps, Durable
<1>1. CASE Gate(a) \/ CensusExisting(a) \/ AddWorktree(a) \/ Prepare(a)
  BY <1>1 DEF Gate, CensusExisting, AddWorktree, Prepare
<1>2. CASE CheckpointExisting(a)
  BY <1>2 DEF CheckpointExisting, Checkpoint, CheckpointFails
<1>3. CASE RemoveExisting(a)
  BY <1>3 DEF RemoveExisting, RemoveTree, Phase, SavedSteps
<1>4. CASE GuardBranchDelete(a)
  BY <1>4 DEF GuardBranchDelete, GuardPasses, GuardKeeps, FastForwards
<1>5. CASE DeleteBranch(a)
  BY <1>5 DEF DeleteBranch, Phase
<1> QED BY <1>1, <1>2, <1>3, <1>4, <1>5 DEF Setup

(* The steps of Run, together.                                              *)
LEMMA RunKeeps ==
  ASSUME IndInv, NEW a \in Attempts, Run(a) \/ Finish(a) \/ CancelDrained(a)
  PROVE  Keeps
<1> USE DEF IndInv, Keeps, Durable
<1>1. CASE Spawn(a) \/ HarnessExit(a) \/ Interrupt(a) \/ Reap(a) \/ CancelDrained(a)
  BY <1>1 DEF Spawn, HarnessExit, Interrupt, Reap, CancelDrained
<1>2. CASE StopSave(a) \/ SaveUncommitted(a)
  BY <1>2 DEF StopSave, SaveUncommitted, Checkpoint, CheckpointFails
<1>3. CASE AutoCommit(a)
  BY <1>3 DEF AutoCommit
<1>4. CASE CleanFailed(a)
  BY <1>4 DEF CleanFailed, Phase, SavedSteps
<1>5. CASE Judge(a) \/ RunTests(a) \/ Snapshot(a) \/ Report(a)
  BY <1>5 DEF Judge, RunTests, Snapshot, Report
<1>6. CASE PushEarly(a)
  BY <1>6 DEF PushEarly, FastForwards
<1>7. CASE DropWorktree(a)
  BY <1>7 DEF DropWorktree, RemoveTree, Phase, SavedSteps
<1> QED BY <1>1, <1>2, <1>3, <1>4, <1>5, <1>6, <1>7 DEF Run, Finish

(* Drains, crashes, restarts and the collector keep the invariant.          *)
LEMMA HostKeeps ==
  ASSUME IndInv, Host
  PROVE  Keeps
<1> USE DEF IndInv, Keeps, Durable
<1>1. CASE BeginDrain \/ StopWorker \/ Crash
  BY <1>1 DEF BeginDrain, StopWorker, Crash
<1>2. CASE Restart
  BY <1>2 DEF Restart, Checkpoint
<1>3. CASE RestartAndCollect
  BY <1>3 DEF RestartAndCollect, RemoveTree, GuardPasses, GuardKeeps,
              FastForwards
<1> QED BY <1>1, <1>2, <1>3 DEF Host

(* A harness that writes produces; one that commits secures.                *)
LEMMA HarnessKeeps ==
  ASSUME NEW a \in Attempts, Harness(a)
  PROVE  Work!Secure \/ Work!Produce
<1>1. CASE HarnessCommit(a) \/ OrphanExit(a)
  <2>1. Keeps
    BY <1>1 DEF HarnessCommit, OrphanExit, Keeps, Durable
  <2> QED BY <2>1, KeptSecures
<1>2. CASE HarnessWrite(a)
  <2>1. PICK e \in Edits \ produced : dirty' = dirty \cup {e}
    BY <1>2 DEF HarnessWrite
  <2>2. staged' = staged /\ Kept' = Kept
    BY <1>2 DEF HarnessWrite, Durable
  <2>3. CASE e \in dirty \cup staged \cup Kept
    BY <2>1, <2>2, <2>3 DEF Work!Secure
  <2>4. CASE e \notin dirty \cup staged \cup Kept
    BY <2>1, <2>2, <2>4 DEF Work!Produce
  <2> QED BY <2>3, <2>4
<1> QED BY <1>1, <1>2 DEF Harness

(* Each step is one of the ledger's, or leaves it as it is.                 *)
LEMMA StepsOfLedger ==
  ASSUME IndInv, [Next]_vars
  PROVE  [Work!Produce \/ Work!Secure]_(Work!ledgerVars)
<1>1. CASE UNCHANGED vars
  BY <1>1 DEF vars, Work!ledgerVars, Durable
<1>2. CASE Server
  <2>1. UNCHANGED <<treeVars, refVars, historyVars>>
    BY <1>2 DEF Server, StartAttempt, DetectDead, Lapse, CancelWorkflow
  <2> QED BY <2>1 DEF Work!ledgerVars, Durable
<1>3. CASE Host
  BY <1>3, HostKeeps, KeptSecures
<1>4. ASSUME NEW a \in Attempts,
             Setup(a) \/ Run(a) \/ Finish(a) \/ Harness(a) \/ CancelDrained(a)
      PROVE  Work!Produce \/ Work!Secure
  BY <1>4, SetupKeeps, RunKeeps, HarnessKeeps, KeptSecures
<1> QED BY <1>1, <1>2, <1>3, <1>4 DEF Next

(* Every behaviour is one of the ledger: what a harness made is in the      *)
(* worktree or kept, becomes so at some step, and is never dropped, but for *)
(* what a guard misread.                                                    *)
THEOREM ImplementsLedger ==
  ASSUME ~CanLapse
  PROVE  Spec => WorkIsKept
<1>1. Init => Work!LedgerInit
  BY DEF Init, Work!LedgerInit, Durable
<1>2. ASSUME IndInv, [Next]_vars
      PROVE  [Work!Produce \/ Work!Secure]_(Work!ledgerVars)
  BY <1>2, StepsOfLedger
<1>3. Spec => []IndInv
  BY Invariance
<1> QED BY <1>1, <1>2, <1>3, PTL DEF Spec, WorkIsKept, Work!LedgerSpec

=============================================================================
