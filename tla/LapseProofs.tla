------------------------------ MODULE LapseProofs ------------------------------
(***************************************************************************)
(* What still holds of Translate when the server may give up on an attempt *)
(* that goes on, in whatever step it is: uncommitted edits can then be     *)
(* lost.  Of committed ones, what a guard pushed or misread is accounted   *)
(* for, and what landed after its look at the branch is `late`; so what a  *)
(* branch holds that an attempt is about to delete is on a remote, misread *)
(* or late, and the delete takes nothing else.                             *)
(*                                                                         *)
(* One lemma for each action: most of them stand (Stands), the ones that   *)
(* make or remove the tree or write the branch are argued on their own.    *)
(***************************************************************************)
EXTENDS TranslateProps, TLAPS

USE DEF treeVars, refVars, attemptVars, hostVars, serverVars, historyVars

Steps == {"idle"} \cup Executions \cup Ended

(* What a delete of the branch cannot take, or is excused for.              *)
Excused == ganglion \cup origin \cup misread \cup late

(* A live process keeps the tree, the tree keeps the branch, and a branch   *)
(* that an attempt is about to delete holds nothing unaccounted for.        *)
LInv ==
  /\ pc \in [Attempts -> Steps]
  /\ live # {} => wtExists
  /\ ~wtExists => dirty = {} /\ staged = {}
  /\ ~branchExists => branch = {} /\ ~wtExists
  /\ \A a \in Attempts : pc[a] = "delete" => branch \subseteq Excused

(* Each step keeps the invariant and loses nothing committed.               *)
CommittedKept == Durable \subseteq Durable' \cup misread' \cup late'
Good == LInv' /\ CommittedKept

(* What a step of attempt a does to the counters, when it is not the one    *)
(* that goes on to delete the branch.                                       *)
Moves(a) ==
  /\ pc' \in [Attempts -> Steps]
  /\ \A b \in Attempts : pc'[b] = "delete" => pc[b] = "delete"

(* What most steps do to the repository: no tree or branch comes or goes.   *)
Stands ==
  /\ live' # {} => wtExists
  /\ UNCHANGED <<wtExists, branchExists, branch>>
  /\ dirty' \cup staged' \subseteq dirty \cup staged
  /\ ganglion \subseteq ganglion' /\ origin \subseteq origin'
  /\ checkpoints \subseteq checkpoints'
  /\ misread \subseteq misread' /\ late \subseteq late'

(* Such a step keeps everything.                                            *)
LEMMA StandsKeeps ==
  ASSUME LInv, NEW a, Moves(a), Stands
  PROVE  Good
<1>1. Excused \subseteq Excused'
  BY DEF Excused, Stands
<1>2. LInv'
  BY <1>1 DEF LInv, Moves, Stands
<1> QED BY <1>2 DEF Good, CommittedKept, Stands, Durable

(* An attempt that goes on or ends, and does not go on to the delete.       *)
LEMMA GoesOn ==
  ASSUME LInv, NEW a \in Attempts,
         NEW s \in Steps, s # "delete", Goto(a, s)
  PROVE  Moves(a)
BY DEF LInv, Goto, Moves

(* The ways in which translate ends are such steps.                         *)
LEMMA Ends ==
  ASSUME LInv, NEW a \in Attempts,
         Fail(a) \/ FailAt(a, "noworktree") \/ \E kind \in Outcomes : Return(a, kind)
  PROVE  Moves(a)
<1>1. /\ "failed" \in Steps /\ "noworktree" \in Steps /\ "returned" \in Steps
  BY DEF Steps, Ended
<1>2. Goto(a, "failed") \/ Goto(a, "noworktree") \/ Goto(a, "returned")
  BY DEF Fail, FailAt, Return
<1> QED BY <1>1, <1>2, GoesOn

(* The steps an attempt goes on to, but for the delete.                     *)
LEMMA Continues ==
  ASSUME LInv, NEW a \in Attempts,
         NEW s \in Executions \ {"delete"}, Continue(a, s)
  PROVE  Moves(a)
BY GoesOn DEF Continue, Steps

(* The step after a set-up step that may not go on to a delete.             *)
LEMMA EarlySteps ==
  /\ "census" \in Executions /\ "guard" \in Executions /\ "ckpt" \in Executions
  /\ "rm" \in Executions /\ "add" \in Executions /\ "prepare" \in Executions
  /\ "spawn" \in Executions /\ "run" \in Executions /\ "reap" \in Executions
  /\ "stopsave" \in Executions /\ "autocommit" \in Executions
  /\ "save" \in Executions /\ "clean" \in Executions /\ "judge" \in Executions
BY DEF Executions, SetupSteps

(* The steps an attempt ends with.                                          *)
LEMMA LateSteps ==
  /\ "snap" \in Executions /\ "test" \in Executions /\ "early" \in Executions
  /\ "push" \in Executions /\ "drop" \in Executions /\ "report" \in Executions
  /\ "dropearly" \in Executions /\ "gate" \in Executions
BY DEF Executions, FinishSteps

(* The kinds of result.                                                     *)
LEMMA Kinds ==
  /\ "gated" \in Outcomes /\ "cached" \in Outcomes /\ "timeout" \in Outcomes
  /\ "cancelled" \in Outcomes /\ "bloat" \in Outcomes /\ "exhausted" \in Outcomes
  /\ "deferred" \in Outcomes /\ "success" \in Outcomes
  /\ "incomplete" \in Outcomes /\ "failure" \in Outcomes
BY DEF Outcomes

------------------------------------------------------------------------------
(* The steps of an attempt that move no tree and no branch: gates, looks at *)
(* the tree, checkpoints, the harness's start and end.                      *)
LEMMA EarlyStands ==
  ASSUME LInv, NEW a \in Attempts,
         \/ Gate(a) \/ CensusExisting(a) \/ CheckpointExisting(a) \/ Prepare(a)
         \/ Spawn(a) \/ HarnessExit(a) \/ Interrupt(a) \/ Reap(a) \/ StopSave(a)
  PROVE  Good
<1>1. CASE Gate(a)
  <2>1. Moves(a)
    BY <1>1, EarlySteps, Kinds, Ends, Continues DEF Gate
  <2>2. Stands
    BY <1>1 DEF Gate, LInv, Stands
  <2> QED BY <2>1, <2>2, StandsKeeps
<1>2. CASE CensusExisting(a)
  <2>1. Moves(a)
    BY <1>2, EarlySteps, Ends, Continues DEF CensusExisting
  <2>2. Stands
    BY <1>2 DEF CensusExisting, LInv, Stands
  <2> QED BY <2>1, <2>2, StandsKeeps
<1>3. CASE CheckpointExisting(a)
  <2>1. Moves(a)
    BY <1>3, EarlySteps, Ends, Continues DEF CheckpointExisting
  <2>2. Stands
    BY <1>3 DEF CheckpointExisting, Checkpoint, CheckpointFails, LInv, Stands
  <2> QED BY <2>1, <2>2, StandsKeeps
<1>4. CASE Prepare(a)
  <2>1. Moves(a)
    BY <1>4, EarlySteps, Continues DEF Prepare
  <2>2. Stands
    BY <1>4 DEF Prepare, LInv, Stands
  <2> QED BY <2>1, <2>2, StandsKeeps
<1>5. CASE Spawn(a)
  <2>1. Moves(a)
    BY <1>5, EarlySteps, Ends, Continues DEF Spawn
  <2>2. Stands
    BY <1>5 DEF Spawn, LInv, Stands
  <2> QED BY <2>1, <2>2, StandsKeeps
<1>6. CASE HarnessExit(a)
  <2>1. Moves(a)
    BY <1>6, EarlySteps, Continues DEF HarnessExit
  <2>2. Stands
    BY <1>6 DEF HarnessExit, LInv, Stands
  <2> QED BY <2>1, <2>2, StandsKeeps
<1>7. CASE Interrupt(a)
  <2>1. Moves(a)
    BY <1>7, EarlySteps, Continues DEF Interrupt
  <2>2. Stands
    BY <1>7 DEF Interrupt, LInv, Stands
  <2> QED BY <2>1, <2>2, StandsKeeps
<1>8. CASE Reap(a)
  <2>1. Moves(a)
    BY <1>8, EarlySteps, Ends, Continues DEF Reap
  <2>2. Stands
    BY <1>8 DEF Reap, LInv, Stands
  <2> QED BY <2>1, <2>2, StandsKeeps
<1>9. CASE StopSave(a)
  <2>1. Moves(a)
    BY <1>9, Kinds, Ends DEF StopSave
  <2>2. Stands
    BY <1>9 DEF StopSave, Checkpoint, CheckpointFails, LInv, Stands
  <2> QED BY <2>1, <2>2, StandsKeeps
<1> QED BY <1>1, <1>2, <1>3, <1>4, <1>5, <1>6, <1>7, <1>8, <1>9

(* The same of what comes after the run.                                    *)
LEMMA FinishStands ==
  ASSUME LInv, NEW a \in Attempts,
         \/ SaveUncommitted(a) \/ CleanFailed(a) \/ Judge(a) \/ RunTests(a)
         \/ Snapshot(a) \/ PushEarly(a) \/ Report(a) \/ CancelDrained(a)
  PROVE  Good
<1>1. CASE SaveUncommitted(a)
  <2>1. Moves(a)
    BY <1>1, EarlySteps, Ends, Continues DEF SaveUncommitted
  <2>2. Stands
    BY <1>1 DEF SaveUncommitted, Checkpoint, CheckpointFails, LInv, Stands
  <2> QED BY <2>1, <2>2, StandsKeeps
<1>2. CASE CleanFailed(a)
  <2>1. Moves(a)
    BY <1>2, EarlySteps, Ends, Continues DEF CleanFailed
  <2>2. Stands
    BY <1>2 DEF CleanFailed, LInv, Stands
  <2> QED BY <2>1, <2>2, StandsKeeps
<1>3. CASE Judge(a)
  <2>1. Moves(a)
    BY <1>3, EarlySteps, LateSteps, Kinds, Ends, Continues DEF Judge
  <2>2. Stands
    BY <1>3 DEF Judge, LInv, Stands
  <2> QED BY <2>1, <2>2, StandsKeeps
<1>4. CASE RunTests(a)
  <2>1. Moves(a)
    BY <1>4, LateSteps, Ends, Continues DEF RunTests
  <2>2. Stands
    BY <1>4 DEF RunTests, LInv, Stands
  <2> QED BY <2>1, <2>2, StandsKeeps
<1>5. CASE Snapshot(a)
  <2>1. Moves(a)
    BY <1>5, LateSteps, Continues DEF Snapshot
  <2>2. Stands
    BY <1>5 DEF Snapshot, LInv, Stands
  <2> QED BY <2>1, <2>2, StandsKeeps
<1>6. CASE PushEarly(a)
  <2>1. Moves(a)
    BY <1>6, LateSteps, Ends, Continues DEF PushEarly
  <2>2. Stands
    BY <1>6 DEF PushEarly, FastForwards, LInv, Stands
  <2> QED BY <2>1, <2>2, StandsKeeps
<1>7. CASE Report(a)
  <2>1. Moves(a)
    BY <1>7, Kinds, Ends DEF Report
  <2>2. Stands
    BY <1>7 DEF Report, LInv, Stands
  <2> QED BY <2>1, <2>2, StandsKeeps
<1>8. CASE CancelDrained(a)
  <2>1. Moves(a)
    BY <1>8, Ends DEF CancelDrained
  <2>2. Stands
    BY <1>8 DEF CancelDrained, LInv, Stands
  <2> QED BY <2>1, <2>2, StandsKeeps
<1> QED BY <1>1, <1>2, <1>3, <1>4, <1>5, <1>6, <1>7, <1>8

------------------------------------------------------------------------------
(* A tree goes only when nothing lives in it; no ref is touched.            *)
LEMMA RemovalKeeps ==
  ASSUME LInv, NEW a \in Attempts, RemoveExisting(a) \/ DropWorktree(a)
  PROVE  Good
<1>1. Moves(a)
  <2>1. CASE RemoveExisting(a)
    BY <2>1, EarlySteps, Ends, Continues DEF RemoveExisting
  <2>2. CASE DropWorktree(a)
    BY <2>2, LateSteps, Ends, Continues DEF DropWorktree
  <2> QED BY <2>1, <2>2
<1>2. /\ UNCHANGED refVars /\ UNCHANGED historyVars /\ live' = live
      /\ \/ UNCHANGED treeVars
         \/ live = {} /\ wtExists' = FALSE /\ dirty' = {} /\ staged' = {}
  BY DEF RemoveExisting, DropWorktree, Occupied, RemoveTree
<1>3. Excused' = Excused /\ Durable' = Durable
  BY <1>2 DEF Excused, Durable
<1>4. LInv'
  BY <1>1, <1>2, <1>3 DEF LInv, Moves
<1> QED BY <1>3, <1>4 DEF Good, CommittedKept

(* The guard lets a branch go that it has pushed, or that it misread.       *)
LEMMA GuardKeepsAll ==
  ASSUME LInv, NEW a \in Attempts, GuardBranchDelete(a)
  PROVE  Good
<1>1. /\ UNCHANGED <<wtExists, dirty, staged, live, branchExists, branch>>
      /\ UNCHANGED <<origin, checkpoints, late>>
      /\ ganglion \subseteq ganglion' /\ misread \subseteq misread'
  BY DEF GuardBranchDelete, GuardPasses, GuardKeeps, FastForwards
<1>2. Excused \subseteq Excused' /\ CommittedKept
  BY <1>1 DEF Excused, CommittedKept, Durable
<1>3. CASE GuardPasses /\ Continue(a, "delete")
  <2>1. branch \subseteq Excused'
    BY <1>1, <1>3 DEF GuardPasses, Excused
  <2>2. pc' \in [Attempts -> Steps]
    BY <1>3 DEF LInv, Continue, Goto, Steps, Executions, SetupSteps
  <2>3. LInv'
    BY <1>1, <2>1, <2>2 DEF LInv
  <2> QED BY <1>2, <2>3 DEF Good
<1>4. CASE GuardKeeps /\ Continue(a, "add")
  <2>1. Moves(a)
    BY <1>4, EarlySteps, Continues
  <2>2. LInv'
    BY <1>1, <1>2, <2>1 DEF LInv, Moves
  <2> QED BY <1>2, <2>2 DEF Good
<1> QED BY <1>3, <1>4 DEF GuardBranchDelete

(* What goes with the branch is accounted for.                              *)
LEMMA DeleteKeeps ==
  ASSUME LInv, NEW a \in Attempts, DeleteBranch(a)
  PROVE  Good
<1>1. Moves(a)
  BY EarlySteps, Continues DEF DeleteBranch
<1>2. /\ UNCHANGED <<wtExists, dirty, staged, live, ganglion, origin>>
      /\ UNCHANGED <<checkpoints, misread, late>>
      /\ \/ ~wtExists /\ branchExists' = FALSE /\ branch' = {}
         \/ UNCHANGED <<branchExists, branch>>
  BY DEF DeleteBranch
<1>3. branch \subseteq Excused
  BY DEF DeleteBranch, LInv
<1>4. Excused' = Excused /\ CommittedKept
  BY <1>2, <1>3 DEF Excused, CommittedKept, Durable
<1>5. LInv'
  BY <1>1, <1>2, <1>4 DEF LInv, Moves
<1> QED BY <1>4, <1>5 DEF Good

(* A tree comes with its branch, and comes empty.                           *)
LEMMA AddKeeps ==
  ASSUME LInv, NEW a \in Attempts, AddWorktree(a)
  PROVE  Good
<1>1. Moves(a)
  BY EarlySteps, Ends, Continues DEF AddWorktree
<1>2. /\ UNCHANGED <<dirty, staged, live, branch, ganglion, origin>>
      /\ UNCHANGED <<checkpoints, misread, late>>
      /\ \/ UNCHANGED <<wtExists, branchExists>>
         \/ ~wtExists /\ branchExists' = TRUE
  BY DEF AddWorktree
<1>3. Excused' = Excused /\ CommittedKept
  BY <1>2 DEF Excused, CommittedKept, Durable
<1>4. LInv'
  BY <1>1, <1>2, <1>3 DEF LInv, Moves
<1> QED BY <1>3, <1>4 DEF Good

(* A commit adds to the branch; while a delete is due, what it adds is late.*)
LEMMA CommitKeeps ==
  ASSUME LInv, NEW S, branch' = branch \cup S, CommitsLate(S), branchExists,
         pc' \in [Attempts -> Steps],
         \A b \in Attempts : pc'[b] = "delete" => pc[b] = "delete",
         UNCHANGED <<wtExists, branchExists, live, ganglion, origin>>,
         UNCHANGED <<checkpoints, misread>>,
         dirty' \cup staged' \subseteq dirty \cup staged
  PROVE  Good
<1>1. late \subseteq late'
  BY DEF CommitsLate
<1>2. ASSUME NEW b \in Attempts, pc'[b] = "delete"
      PROVE  branch' \subseteq Excused'
  <2>1. pc[b] = "delete" /\ branch \subseteq Excused
    BY <1>2 DEF LInv
  <2>2. S \subseteq late'
    BY <2>1 DEF CommitsLate
  <2> QED BY <1>1, <2>1, <2>2 DEF Excused
<1>3. LInv'
  BY <1>2 DEF LInv
<1> QED BY <1>1, <1>3 DEF Good, CommittedKept, Durable

(* The commits that translate makes.                                        *)
LEMMA AutoCommitKeeps ==
  ASSUME LInv, NEW a \in Attempts, AutoCommit(a)
  PROVE  Good
<1>1. Moves(a)
  BY EarlySteps, Continues DEF AutoCommit
<1>2. CASE CanSave /\ branch' = branch \cup dirty \cup staged
  <2>1. branchExists
    BY <1>2 DEF CanSave, LInv
  <2>2. CASE CommitsLate(dirty \cup staged) /\ dirty' = {} /\ staged' = {}
    BY <1>1, <1>2, <2>1, <2>2, CommitKeeps DEF AutoCommit, Moves
  <2>3. CASE UNCHANGED <<branch, late>> /\ dirty' \cup staged' \subseteq dirty \cup staged
    <3>1. Stands
      BY <2>3 DEF AutoCommit, LInv, Stands
    <3> QED BY <1>1, <3>1, StandsKeeps
  <2> QED BY <2>2, <2>3 DEF AutoCommit
<1>3. CASE UNCHANGED <<branch, late>> /\ dirty' \cup staged' \subseteq dirty \cup staged
  <2>1. Stands
    BY <1>3 DEF AutoCommit, LInv, Stands
  <2> QED BY <1>1, <2>1, StandsKeeps
<1> QED BY <1>2, <1>3 DEF AutoCommit

(* The harness writes into its tree, commits to its branch, and exits.      *)
LEMMA HarnessKeeps ==
  ASSUME LInv, NEW a \in Attempts, Harness(a)
  PROVE  Good
<1>1. Moves(a)
  BY DEF Harness, HarnessWrite, HarnessCommit, OrphanExit, LInv, Moves
<1>2. CASE HarnessWrite(a)
  <2>1. wtExists /\ Excused' = Excused /\ Durable' = Durable
    BY <1>2 DEF HarnessWrite, LInv, Excused, Durable
  <2>2. LInv'
    BY <1>2, <2>1 DEF HarnessWrite, LInv
  <2> QED BY <2>1, <2>2 DEF Good, CommittedKept
<1>3. CASE HarnessCommit(a)
  <2>1. PICK S \in SUBSET dirty :
          /\ branch' = branch \cup staged \cup S /\ CommitsLate(staged \cup S)
          /\ dirty' = dirty \ S /\ staged' = {}
    BY <1>3 DEF HarnessCommit
  <2>2. branchExists
    BY <1>3 DEF HarnessCommit, LInv
  <2>3. /\ branch' = branch \cup (staged \cup S)
        /\ dirty' \cup staged' \subseteq dirty \cup staged
    BY <2>1
  <2> QED BY <1>1, <1>3, <2>1, <2>2, <2>3, CommitKeeps DEF HarnessCommit, Moves
<1>4. CASE OrphanExit(a)
  <2>1. Stands
    BY <1>4 DEF OrphanExit, LInv, Stands
  <2> QED BY <1>1, <2>1, StandsKeeps
<1> QED BY <1>2, <1>3, <1>4 DEF Harness

------------------------------------------------------------------------------
(* The worker process stops, dies and comes back; the collector keeps what  *)
(* the guard keeps.                                                         *)
LEMMA HostKeeps ==
  ASSUME LInv, Host
  PROVE  Good
<1>1. CASE BeginDrain \/ StopWorker
  <2>1. Moves(1) /\ Stands
    BY <1>1 DEF BeginDrain, StopWorker, LInv, Moves, Stands
  <2> QED BY <2>1, StandsKeeps
<1>2. CASE Crash
  <2>1. "dead" \in Steps
    BY DEF Steps, Ended
  <2>2. Moves(1)
    BY <1>2, <2>1 DEF Crash, LInv, Moves
  <2>3. Stands
    BY <1>2 DEF Crash, LInv, Stands
  <2> QED BY <2>2, <2>3, StandsKeeps
<1>3. CASE Restart
  <2>1. Moves(1) /\ Stands
    BY <1>3 DEF Restart, Checkpoint, LInv, Moves, Stands
  <2> QED BY <2>1, StandsKeeps
<1>4. CASE RestartAndCollect
  <2>1. /\ UNCHANGED <<pc, origin, late, live>> /\ live = {}
        /\ ~wtExists' /\ dirty' = {} /\ staged' = {}
        /\ checkpoints \subseteq checkpoints'
        /\ ganglion \subseteq ganglion' /\ misread \subseteq misread'
    BY <1>4 DEF RestartAndCollect, RemoveTree, Occupied, GuardPasses,
                GuardKeeps, FastForwards
  <2>2. \/ UNCHANGED <<branchExists, branch>>
        \/ /\ branchExists' = FALSE /\ branch' = {}
           /\ branch \subseteq ganglion' \cup origin \cup misread'
    BY <1>4 DEF RestartAndCollect, GuardPasses
  <2>3. Excused \subseteq Excused'
    BY <2>1 DEF Excused
  <2>4. LInv'
    BY <2>1, <2>2, <2>3 DEF LInv
  <2>5. CommittedKept
    BY <2>1, <2>2 DEF CommittedKept, Durable
  <2> QED BY <2>4, <2>5 DEF Good
<1> QED BY <1>1, <1>2, <1>3, <1>4 DEF Host

(* The server touches nothing of the repository.                            *)
LEMMA ServerKeeps ==
  ASSUME LInv, Server
  PROVE  Good
<1>1. UNCHANGED treeVars /\ UNCHANGED refVars /\ UNCHANGED historyVars /\ live' = live
  BY DEF Server, StartAttempt, DetectDead, Lapse, CancelWorkflow
<1>2. Stands
  BY <1>1 DEF LInv, Stands
<1>3. Moves(1)
  <2>1. pc' = pc \/ pc' = [pc EXCEPT ![current] = "gate"]
    BY DEF Server, StartAttempt, DetectDead, Lapse, CancelWorkflow, Goto
  <2>2. "gate" \in Steps
    BY LateSteps DEF Steps
  <2> QED BY <2>1, <2>2 DEF LInv, Moves
<1> QED BY <1>2, <1>3, StandsKeeps

(* CommittedWorkKept: every step keeps what branch, remotes and checkpoints *)
(* hold, but for what a guard misread and for commits that came late,       *)
(* whatever the server gives up on and in whatever step.                    *)
THEOREM CommittedSurvives == Spec => CommittedWorkKept
<1>1. ASSUME Init PROVE LInv
  BY <1>1 DEF Init, LInv, Steps
<1>2. ASSUME LInv, [Next]_vars PROVE Good
  <2>1. CASE UNCHANGED vars
    <3>1. LInv'
      BY <1>2, <2>1 DEF LInv, vars, Excused
    <3> QED BY <2>1, <3>1 DEF Good, CommittedKept, vars, Durable
  <2>2. ASSUME NEW a \in Attempts, Setup(a) PROVE Good
    BY <1>2, <2>2, EarlyStands, RemovalKeeps, GuardKeepsAll, DeleteKeeps, AddKeeps
       DEF Setup
  <2>3. ASSUME NEW a \in Attempts, Run(a) PROVE Good
    BY <1>2, <2>3, EarlyStands DEF Run
  <2>4. ASSUME NEW a \in Attempts, Finish(a) \/ CancelDrained(a) PROVE Good
    BY <1>2, <2>4, FinishStands, AutoCommitKeeps, RemovalKeeps DEF Finish
  <2> QED BY <1>2, <2>1, <2>2, <2>3, <2>4, HarnessKeeps, HostKeeps, ServerKeeps
             DEF Next
<1>3. Good => LInv' /\ (Durable \subseteq Durable' \cup misread' \cup late')
  BY DEF Good, CommittedKept
<1> QED BY <1>1, <1>2, <1>3, PTL DEF Spec, CommittedWorkKept

=============================================================================
