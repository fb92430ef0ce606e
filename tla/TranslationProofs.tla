--------------------------- MODULE TranslationProofs ---------------------------
(***************************************************************************)
(* What holds of Translation for every number of attempts, providers,      *)
(* stops and edits, in every mode, with every fault and whatever the       *)
(* default branch is called, as long as no attempt is given up on while it *)
(* goes on: the invariant WorkflowInv and the safety properties in it.  It *)
(* rests on the step lemma of TranslateProofs: a step of the workflow      *)
(* leaves the activity alone, but for the push of create_pr.               *)
(***************************************************************************)
EXTENDS Translation, TranslateProofs

USE DEF treeVars, refVars, attemptVars, hostVars, serverVars, historyVars, Kept

(* The attempts' own steps, by what they do to the server.                  *)
Own(a) == Setup(a) \/ Run(a) \/ Finish(a) \/ CancelDrained(a)

(* An attempt that takes a step of its own is executing.                    *)
LEMMA OwnExecutes ==
  ASSUME NEW a \in Attempts, Own(a)
  PROVE  Executing(a)
<1> USE DEF Executing, Executions, SetupSteps, FinishSteps
<1>1. CASE Setup(a)
  BY <1>1
     DEF Setup, Gate, CensusExisting, CheckpointExisting, RemoveExisting,
         GuardBranchDelete, DeleteBranch, AddWorktree, Prepare
<1>2. CASE Run(a) \/ CancelDrained(a)
  BY <1>2
     DEF Run, Spawn, HarnessExit, Interrupt, Reap, StopSave, CancelDrained, Awaiting
<1>3. CASE Finish(a)
  BY <1>3
     DEF Finish, AutoCommit, SaveUncommitted, CleanFailed, Judge, RunTests,
         Snapshot, PushEarly, DropWorktree, Report
<1> QED BY <1>1, <1>2, <1>3 DEF Own

(* What an attempt's step can tell the server: nothing once the activity is *)
(* closed, and a success only by Report.                                    *)
Told(a) ==
  /\ server = "closed" => UNCHANGED serverVars
  /\ Report(a) \/ outcome' = outcome \/ outcome' # "success"

(* The ways an attempt's step ends.                                         *)
LEMMA Tells ==
  ASSUME NEW a \in Attempts
  PROVE  /\ \A step : Continue(a, step) => Told(a)
         /\ \A end : FailAt(a, end) => Told(a)
         /\ \A kind : kind # "success" /\ Return(a, kind) => Told(a)
BY DEF Continue, FailAt, Retry, Return, Listening, Told

(* Every step of an attempt ends in one of these ways.                      *)
LEMMA OwnTells ==
  ASSUME NEW a \in Attempts, Own(a)
  PROVE  Told(a)
<1>1. CASE Setup(a)
  BY <1>1, Tells
     DEF Setup, Gate, CensusExisting, CheckpointExisting, RemoveExisting,
         GuardBranchDelete, DeleteBranch, AddWorktree, Prepare, Fail
<1>2. CASE Run(a) \/ CancelDrained(a)
  BY <1>2, Tells
     DEF Run, Spawn, HarnessExit, Interrupt, Reap, StopSave, CancelDrained, Fail
<1>3. CASE Finish(a)
  <2>1. CASE Report(a)
    BY <2>1 DEF Report, Return, Listening, Told
  <2>2. CASE ~Report(a)
    BY <1>3, <2>2, Tells
       DEF Finish, AutoCommit, SaveUncommitted, CleanFailed, Judge, RunTests,
           Snapshot, PushEarly, DropWorktree, Fail
  <2> QED BY <2>1, <2>2
<1> QED BY <1>1, <1>2, <1>3 DEF Own

(* Once the activity is closed its result stays what it is.                 *)
LEMMA ClosedStays ==
  ASSUME [Next]_vars, server = "closed"
  PROVE  UNCHANGED <<server, outcome, reviewed>>
<1>1. CASE UNCHANGED vars
  BY <1>1 DEF vars
<1>2. ASSUME NEW a \in Attempts, Own(a)
      PROVE  UNCHANGED <<server, outcome, reviewed>>
  BY <1>2, OwnTells DEF Told
<1>3. ASSUME NEW a \in Attempts, Harness(a)
      PROVE  UNCHANGED <<server, outcome, reviewed>>
  BY <1>3 DEF Harness, HarnessWrite, HarnessCommit, OrphanExit
<1>4. CASE Host
  BY <1>4
     DEF Host, BeginDrain, StopWorker, Crash, Restart, RestartAndCollect
<1>5. CASE Server
  BY <1>5 DEF Server, StartAttempt, DetectDead, Lapse, CancelWorkflow
<1> QED BY <1>1, <1>2, <1>3, <1>4, <1>5 DEF Next, Own

(* After a success only the worker process and its collector are left to    *)
(* act on the repository: what the remote holds stays, and what the success *)
(* reported stays on a branch.                                              *)
LEMMA SuccessStays ==
  ASSUME IndInv, [Next]_vars, outcome = "success"
  PROVE  origin' = origin /\ (ReviewedIsKept => ReviewedIsKept')
<1>1. /\ server = "closed" /\ live = {} /\ \A a \in Attempts : ~Executing(a)
      /\ ~branchExists => branch = {}
  BY DEF IndInv, Settled, Tidy
<1>2. UNCHANGED <<outcome, reviewed>>
  BY <1>1, ClosedStays
<1>3. CASE UNCHANGED vars
  BY <1>3 DEF vars, ReviewedIsKept
<1>4. \A a \in Attempts : ~Own(a) /\ ~Harness(a)
  <2>1. \A a \in Attempts : ~Own(a)
    BY <1>1, OwnExecutes
  <2>2. \A a \in Attempts : ~Harness(a)
    BY <1>1 DEF Harness, HarnessWrite, HarnessCommit, OrphanExit
  <2> QED BY <2>1, <2>2
<1>5. CASE Server \/ BeginDrain \/ StopWorker \/ Crash \/ Restart
  BY <1>2, <1>5
     DEF Server, StartAttempt, DetectDead, Lapse, CancelWorkflow, BeginDrain,
         StopWorker, Crash, Restart, Checkpoint, ReviewedIsKept
<1>6. CASE RestartAndCollect
  BY <1>1, <1>2, <1>6
     DEF RestartAndCollect, GuardPasses, GuardKeeps, HasUnmerged, FastForwards,
         ReviewedIsKept
<1> QED BY <1>3, <1>4, <1>5, <1>6 DEF Next, Own, Host

(* A success is reported from the branch, and stays on one.                 *)
LEMMA KeptStep ==
  ASSUME IndInv, IndInv', [Next]_vars, ReviewedIsKept
  PROVE  ReviewedIsKept'
<1>1. CASE outcome = "success"
  BY <1>1, SuccessStays
<1>2. CASE outcome # "success" /\ outcome' = "success"
  <2>1. PICK a \in Attempts : Report(a)
    <3>1. ~UNCHANGED vars /\ ~Host
      BY <1>2
         DEF vars, Host, BeginDrain, StopWorker, Crash, Restart,
             RestartAndCollect
    <3>2. ~Server
      BY <1>2 DEF Server, StartAttempt, DetectDead, Lapse, CancelWorkflow, Retry
    <3>3. \A a \in Attempts : ~Harness(a)
      BY <1>2 DEF Harness, HarnessWrite, HarnessCommit, OrphanExit
    <3>4. \A a \in Attempts : Own(a) => Report(a)
      BY <1>2, OwnTells DEF Told
    <3> QED BY <3>1, <3>2, <3>3, <3>4 DEF Next, Own
  <2>2. branchExists' /\ branch' = branch
    BY <2>1 DEF Report, IndInv, Phase, BranchSteps
  <2>3. branch' = reviewed'.held
    BY <1>2, <2>2 DEF IndInv, NothingUnreviewedOnBranch
  <2> QED BY <2>3 DEF ReviewedIsKept
<1> QED BY <1>1, <1>2 DEF ReviewedIsKept

------------------------------------------------------------------------------
(* The push of create_pr.                                                   *)

(* It leaves the activity as it is and makes the remote what the branch is, *)
(* which it may only extend.                                                *)
LEMMA PushBranchStep ==
  ASSUME IndInv, PushBranch
  PROVE  /\ IndInv'
         /\ UNCHANGED <<server, outcome, reviewed, branch, branchExists, ganglion,
                      misread>>
         /\ origin' = origin \/ (branchExists /\ origin' = branch)
         /\ origin \subseteq origin'
<1>1. /\ UNCHANGED <<treeVars, attemptVars, hostVars, serverVars, pc>>
      /\ UNCHANGED historyVars
      /\ UNCHANGED <<branchExists, branch, ganglion, checkpoints>>
      /\ origin' = origin \/ (branchExists /\ origin' = branch)
      /\ origin \subseteq origin'
  BY DEF PushBranch, FastForwards
<1>2. Durable \subseteq Durable' /\ TypeOK'
  BY <1>1 DEF IndInv, TypeOK, Durable
<1>3. \A a \in Attempts : Phase(a)'
  BY <1>1, <1>2 DEF IndInv, Phase, Listening
<1>4. Alone' /\ Tidy' /\ Settled'
  BY <1>1 DEF IndInv, Alone, Tidy, Settled, Executing
<1>5. NoWorkLost' /\ NothingUnreviewedOnBranch' /\ DrainIsNoResult'
  BY <1>1, <1>2 DEF IndInv, NoWorkLost, NothingUnreviewedOnBranch, DrainIsNoResult
<1> QED BY <1>1, <1>2, <1>3, <1>4, <1>5 DEF IndInv

(* What an ending create_pr attempt leaves of the workflow.                 *)
LEMMA PrEnds ==
  ASSUME WorkflowTypeOK, Ahead, prStep \in ProposedSteps,
         PrRaises \/ PrReturns("created") \/ PrReturns("error")
  PROVE  /\ phase \in {"pr", "ended"} /\ phase' \in {phase, "ended"}
         /\ prStep' \in {"idle", "scheduled"}
         /\ prTry' \in 0 .. PrAttempts
         /\ prResult' \in {"none", "created", "error"}
<1>1. phase \in {"pr", "ended"}
  BY DEF WorkflowTypeOK, Ahead, ProposedSteps
<1>2. prTry < PrAttempts => prTry + 1 \in 0 .. PrAttempts
  BY DEF WorkflowTypeOK, PrAttempts
<1> QED BY <1>1, <1>2 DEF PrRaises, PrReturns, WorkflowTypeOK

(* The steps of create_pr keep the workflow's invariant.                    *)
LEMMA PrStep ==
  ASSUME WorkflowInv, PrSteps
  PROVE  WorkflowInv'
<1>1. /\ IndInv'
      /\ UNCHANGED <<server, outcome, reviewed, branch, branchExists, ganglion,
                      misread>>
      /\ origin' = origin \/ (branchExists /\ origin' = branch)
      /\ origin \subseteq origin'
  <2>1. CASE PushBranch
    BY <2>1, PushBranchStep DEF WorkflowInv
  <2>2. CASE CheckAhead \/ CreatePr \/ PrLost
    <3>1. UNCHANGED vars
      BY <2>2 DEF CheckAhead, CreatePr, PrLost
    <3> QED BY <3>1
            DEF vars, WorkflowInv, IndInv, TypeOK, Alone, Tidy, Phase, Settled,
                NoWorkLost, Listening, NothingUnreviewedOnBranch,
                DrainIsNoResult, Executing, Durable
  <2> QED BY <2>1, <2>2 DEF PrSteps
<1>2. /\ prStep \in ProposedSteps /\ UNCHANGED <<verdict, signal, cancelledIn>>
      /\ \/ PrRaises \/ PrReturns("created") \/ PrReturns("error")
         \/ prStep' \in {"push", "create"} /\ UNCHANGED <<phase, prTry, prResult>>
      /\ pr' \in {pr, "open"}
  BY DEF PrSteps, CheckAhead, PushBranch, CreatePr, PrLost, PrUnchanged,
         ProposedSteps
<1>3. /\ phase \in {"pr", "ended"} /\ phase' \in {phase, "ended"}
      /\ prStep' \in {"idle", "scheduled", "push", "create"}
      /\ prTry' \in 0 .. PrAttempts
      /\ prResult' \in {"none", "created", "error"}
  BY <1>2, PrEnds DEF WorkflowInv, WorkflowTypeOK, Ahead, ProposedSteps
<1>4. WorkflowTypeOK'
  BY <1>2, <1>3 DEF WorkflowInv, WorkflowTypeOK
<1>5. verdict # "none" /\ Ahead'
  BY <1>1, <1>2, <1>3 DEF WorkflowInv, WorkflowTypeOK, Ahead, ProposedSteps
<1>6. outcome = "success" /\ branchExists => branch = reviewed.held
  BY DEF WorkflowInv, IndInv, NothingUnreviewedOnBranch
<1>7. Pushed'
  <2>1. \/ outcome = "success" /\ verdict \in {"approved", "review_error"}
        \/ outcome = "deferred" /\ verdict = "deferred_approved"
    BY <1>2 DEF WorkflowInv, Pushed
  <2>2. prStep' = "create" /\ outcome = "success" => origin' = reviewed.held
    BY <1>2, <1>3, <1>6
       DEF PrSteps, CheckAhead, PushBranch, CreatePr, PrLost, PrRaises, PrReturns
  <2> QED BY <1>1, <1>2, <2>1, <2>2 DEF Pushed
<1>8. ProposedIsReviewed'
  <2>1. CASE pr = "open"
    BY <1>1, <1>6, <2>1 DEF WorkflowInv, ProposedIsReviewed
  <2>2. CASE pr # "open" /\ pr' = "open"
    <3>1. CreatePr
      BY <2>2 DEF PrSteps, CheckAhead, PushBranch, PrLost
    <3> QED BY <1>1, <3>1 DEF CreatePr, WorkflowInv, Pushed, ProposedIsReviewed, vars
  <2> QED BY <2>1, <2>2 DEF ProposedIsReviewed
<1>9. OnlyAcceptedProposed' /\ ReviewedIsKept'
  BY <1>1, <1>7 DEF WorkflowInv, Pushed, OnlyAcceptedProposed, ReviewedIsKept
<1> QED BY <1>1, <1>4, <1>5, <1>7, <1>8, <1>9 DEF WorkflowInv

------------------------------------------------------------------------------
(* The steps of the workflow itself, which leave the activity alone.        *)

(* Where nothing of the activity changes, neither does its invariant.       *)
LEMMA Untouched ==
  ASSUME WorkflowInv, UNCHANGED vars
  PROVE  IndInv' /\ ReviewedIsKept'
BY DEF vars, WorkflowInv, IndInv, TypeOK, Alone, Tidy, Phase, Settled,
       NoWorkLost, Listening, NothingUnreviewedOnBranch, DrainIsNoResult,
       Executing, Durable, ReviewedIsKept

(* Conclusions that start a pull request are those Pushed allows.           *)
LEMMA Concludes ==
  ASSUME WorkflowInv, UNCHANGED vars, UNCHANGED signal,
         cancelledIn' \in {"none", "review", "await", "pr"},
         phase \in {"translate", "review", "await"}, server = "closed",
         NEW v \in Verdicts \ {"none"}, Conclude(v),
         v \in {"approved", "review_error"} =>
           phase = "review" /\ (v = "approved" => outcome = "success"),
         v = "deferred_approved" => outcome = "deferred"
  PROVE  WorkflowInv'
<1>1. IndInv' /\ ReviewedIsKept'
  BY Untouched
<1>2. UNCHANGED <<server, outcome, reviewed, origin, pr, prResult>> /\ verdict' = v
  BY DEF vars, Conclude
<1>3. prStep = "idle" /\ pr = "none"
  BY DEF WorkflowInv, Ahead
<1>4. \/ phase' = "pr" /\ prStep' = "scheduled" /\ prTry' = 1
      \/ phase' = "ended" /\ UNCHANGED <<prStep, prTry>>
  BY DEF Conclude
<1>5. phase' = "pr" => \/ outcome = "success" /\ v \in {"approved", "review_error"}
                       \/ outcome = "deferred" /\ v = "deferred_approved"
  BY DEF Conclude, Accepted, NamesBranch
<1>6. WorkflowTypeOK'
  BY <1>2, <1>4 DEF WorkflowInv, WorkflowTypeOK, PrAttempts
<1>7. Ahead' /\ Pushed' /\ ProposedIsReviewed' /\ OnlyAcceptedProposed'
  BY <1>2, <1>3, <1>4, <1>5
     DEF Ahead, Pushed, ProposedIsReviewed, OnlyAcceptedProposed, ProposedSteps
<1> QED BY <1>1, <1>6, <1>7 DEF WorkflowInv

(* The review, the decision and what comes before them.                     *)
LEMMA ReviewingStep ==
  ASSUME WorkflowInv, Reviewing
  PROVE  WorkflowInv'
<1> USE DEF Verdicts
<1>1. UNCHANGED vars /\ UNCHANGED <<signal, cancelledIn>>
  BY DEF Reviewing, TranslateReturns, Chaperone, ChaperoneFails, Decided,
         ApprovalTimesOut
<1>2. cancelledIn' \in {"none", "review", "await", "pr"}
  BY <1>1 DEF WorkflowInv, WorkflowTypeOK
<1>3. phase \in {"review", "await"} => server = "closed"
  BY DEF WorkflowInv, Ahead
<1>4. CASE TranslateReturns
  <2>1. CASE Conclude("rejected")
    BY <1>1, <1>2, <1>4, <2>1, Concludes DEF TranslateReturns
  <2>2. CASE ~Conclude("rejected")
    <3>1. /\ phase' \in {"await", "review"} /\ server = "closed"
          /\ UNCHANGED <<verdict, prStep, prTry, prResult, pr>>
          /\ prStep = "idle" /\ pr = "none"
          /\ phase' = "await" => outcome = "deferred"
          /\ phase' = "review" => outcome \notin {"error", "terminated", "deferred"}
      BY <1>4, <2>2 DEF TranslateReturns, WorkflowInv, Ahead
    <3>2. WorkflowTypeOK'
      BY <1>1, <3>1 DEF WorkflowInv, WorkflowTypeOK
    <3>3. Ahead' /\ Pushed' /\ ProposedIsReviewed' /\ OnlyAcceptedProposed'
      BY <1>1, <3>1
         DEF vars, WorkflowInv, Ahead, Pushed, ProposedIsReviewed,
             OnlyAcceptedProposed, ProposedSteps
    <3> QED BY <1>1, <3>2, <3>3, Untouched DEF WorkflowInv
  <2> QED BY <2>1, <2>2
<1>5. CASE Chaperone
  BY <1>1, <1>2, <1>3, <1>5, Concludes DEF Chaperone
<1>6. CASE ChaperoneFails
  BY <1>1, <1>2, <1>3, <1>6, Concludes DEF ChaperoneFails
<1>7. CASE Decided \/ ApprovalTimesOut
  <2>1. outcome = "deferred"
    BY <1>7 DEF Decided, ApprovalTimesOut, WorkflowInv, Ahead
  <2> QED BY <1>1, <1>2, <1>3, <1>7, <2>1, Concludes DEF Decided, ApprovalTimesOut
<1> QED BY <1>4, <1>5, <1>6, <1>7 DEF Reviewing

(* Decisions, cancellation and termination.                                 *)
LEMMA OperatorStep ==
  ASSUME WorkflowInv, Decision \/ Cancel \/ Terminate
  PROVE  WorkflowInv'
<1>1. UNCHANGED vars
  BY DEF Decision, Cancel, Terminate
<1>2. CASE Cancel /\ Conclude("review_error") /\ phase = "review"
  <2>1. server = "closed" /\ cancelledIn' = "review" /\ UNCHANGED signal
    BY <1>2 DEF Cancel, WorkflowInv, Ahead
  <2> QED BY <1>1, <1>2, <2>1, Concludes DEF Verdicts
<1>3. CASE ~(Cancel /\ Conclude("review_error") /\ phase = "review")
  <2>1. /\ phase' = phase \/ (phase' = "ended" /\ phase # "translate")
        /\ prStep' \in {prStep, "idle"} /\ UNCHANGED <<verdict, prTry, pr>>
        /\ signal' \in {"none", "approve", "reject"}
        /\ prResult' \in {"none", "created", "error"}
        /\ cancelledIn' \in {"none", "review", "await", "pr"}
    BY <1>3 DEF Decision, Cancel, Terminate, WorkflowInv, WorkflowTypeOK
  <2>2. WorkflowTypeOK'
    BY <2>1 DEF WorkflowInv, WorkflowTypeOK
  <2>3. Ahead' /\ Pushed' /\ ProposedIsReviewed' /\ OnlyAcceptedProposed'
    BY <1>1, <2>1
       DEF vars, WorkflowInv, Ahead, Pushed, ProposedIsReviewed,
           OnlyAcceptedProposed, ProposedSteps
  <2> QED BY <1>1, <2>2, <2>3, Untouched DEF WorkflowInv
<1> QED BY <1>2, <1>3

(* The activity's own steps, with the worker taking create_pr down with it. *)
LEMMA BeneathStep ==
  ASSUME WorkflowInv, Next /\ Follow, ~CanLapse
  PROVE  WorkflowInv'
<1>1. IndInv' /\ ReviewedIsKept'
  BY NextInd, KeptStep DEF WorkflowInv
<1>2. server = "closed" => UNCHANGED <<server, outcome, reviewed>>
  BY ClosedStays
<1>3. outcome = "success" => origin' = origin
  BY SuccessStays DEF WorkflowInv
<1>4. /\ UNCHANGED <<phase, verdict, signal, prTry, prResult, pr, cancelledIn>>
      /\ prStep' = prStep \/ (prStep' = "lost" /\ prStep \in {"push", "create"})
  BY DEF Follow
<1>5. WorkflowTypeOK'
  BY <1>4 DEF WorkflowInv, WorkflowTypeOK
<1>6. phase = "translate" \/ (server = "closed" /\ phase = phase')
  BY <1>4 DEF WorkflowInv, Ahead
<1>7. Ahead' /\ Pushed' /\ ProposedIsReviewed' /\ OnlyAcceptedProposed'
  <2>1. CASE phase = "translate"
    BY <1>4, <2>1
       DEF WorkflowInv, Ahead, Pushed, ProposedIsReviewed,
           OnlyAcceptedProposed, ProposedSteps
  <2>2. CASE server = "closed"
    BY <1>2, <1>3, <1>4, <2>2
       DEF WorkflowInv, Ahead, Pushed, ProposedIsReviewed,
           OnlyAcceptedProposed, ProposedSteps
  <2> QED BY <1>6, <2>1, <2>2
<1> QED BY <1>1, <1>5, <1>7 DEF WorkflowInv

------------------------------------------------------------------------------
(* Every state of the workflow, above whatever the activity does.           *)
THEOREM WorkflowInvariance ==
  ASSUME ~CanLapse
  PROVE  WorkflowSpec => []WorkflowInv
<1>1. ASSUME WorkflowInit PROVE WorkflowInv
  <2>1. IndInv
    BY <1>1, InitInd DEF WorkflowInit
  <2>2. outcome # "success"
    BY <1>1 DEF WorkflowInit, Init
  <2> QED BY <1>1, <2>1, <2>2
          DEF WorkflowInit, WorkflowInv, WorkflowTypeOK, Verdicts, PrAttempts,
              Ahead, Pushed, ProposedSteps, ProposedIsReviewed,
              OnlyAcceptedProposed, ReviewedIsKept
<1>2. ASSUME WorkflowInv, [WorkflowNext]_allVars PROVE WorkflowInv'
  <2>1. CASE UNCHANGED allVars
    BY <1>2, <2>1, Untouched
       DEF allVars, flowVars, vars, WorkflowInv, WorkflowTypeOK, Ahead, Pushed,
           ProposedIsReviewed, OnlyAcceptedProposed
  <2>2. CASE WorkflowNext
    BY <1>2, <2>2, BeneathStep, ReviewingStep, PrStep, OperatorStep
       DEF WorkflowNext
  <2> QED BY <1>2, <2>1, <2>2
<1> QED BY <1>1, <1>2, PTL DEF WorkflowSpec

(* A pull request of a finished run holds exactly the commits that HEAD     *)
(* held when its diff was taken for the review.                             *)
THEOREM ReviewedIsProposed ==
  ASSUME ~CanLapse
  PROVE  WorkflowSpec => []ProposedIsReviewed
<1>1. WorkflowInv => ProposedIsReviewed
  BY DEF WorkflowInv
<1> QED BY <1>1, WorkflowInvariance, PTL

(* Only a success that was not rejected and an approved deferral are ever   *)
(* proposed.                                                                *)
THEOREM AcceptedIsProposed ==
  ASSUME ~CanLapse
  PROVE  WorkflowSpec => []OnlyAcceptedProposed
<1>1. WorkflowInv => OnlyAcceptedProposed
  BY DEF WorkflowInv
<1> QED BY <1>1, WorkflowInvariance, PTL

(* What a success was made of can be proposed, or recovered from a branch,  *)
(* for ever: the collector takes the last of it only where its guard        *)
(* misread a failed git log.                                                *)
THEOREM ReviewedSurvives ==
  ASSUME ~CanLapse
  PROVE  WorkflowSpec => []ReviewedIsKept
<1>1. WorkflowInv => ReviewedIsKept
  BY DEF WorkflowInv
<1> QED BY <1>1, WorkflowInvariance, PTL

(* The ledger holds of the whole workflow: proposing work loses none of it, *)
(* and nothing else does but what a guard misread.                          *)
THEOREM WorkflowImplementsLedger ==
  ASSUME ~CanLapse
  PROVE  WorkflowSpec => WorkIsKept
<1>1. WorkflowInit => Work!LedgerInit
  BY DEF WorkflowInit, Init, Work!LedgerInit, Durable
<1>2. ASSUME WorkflowInv, [WorkflowNext]_allVars
      PROVE  [Work!Produce \/ Work!Secure]_(Work!ledgerVars)
  <2>1. CASE UNCHANGED vars
    BY <2>1 DEF vars, Work!ledgerVars, Durable
  <2>2. CASE Next
    BY <1>2, <2>2, StepsOfLedger DEF WorkflowInv
  <2>3. CASE PushBranch
    <3>1. Keeps
      BY <2>3 DEF PushBranch, FastForwards, Keeps, Durable
    <3> QED BY <3>1, KeptSecures
  <2> QED BY <1>2, <2>1, <2>2, <2>3
          DEF WorkflowNext, allVars, Reviewing, TranslateReturns, Chaperone,
              ChaperoneFails, Decided, ApprovalTimesOut, PrSteps, CheckAhead,
              CreatePr, PrLost, Decision, Cancel, Terminate
<1>3. WorkflowSpec => []WorkflowInv
  BY WorkflowInvariance
<1> QED BY <1>1, <1>2, <1>3, PTL DEF WorkflowSpec, WorkIsKept, Work!LedgerSpec

=============================================================================
