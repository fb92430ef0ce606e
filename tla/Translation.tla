----------------------------- MODULE Translation -----------------------------
(***************************************************************************)
(* TranslationWorkflow of one task, on top of Translate: what becomes of   *)
(* the activity's result.  It is reviewed by the chaperone or, when a      *)
(* supervised run was deferred, decided on by a human within half an hour; *)
(* what is accepted is pushed and proposed as a pull request by create_pr, *)
(* an activity of its own that is tried twice.  All of it goes on while    *)
(* the worker that hosts it drains, crashes, restarts and collects         *)
(* worktrees, and while an operator cancels or terminates the workflow.    *)
(*                                                                         *)
(* Every dispatch path makes one task per workflow (workflow.py:185), so   *)
(* there is one task and one stage.                                        *)
(*                                                                         *)
(* src/mtor/worker/workflow.py          TranslationWorkflow                *)
(* src/mtor/worker/chaperone_review.py  the verdict                        *)
(* src/mtor/worker/git_ops.py           _create_pr_impl                    *)
(***************************************************************************)
EXTENDS TranslateProps

VARIABLES
  phase,        \* where _execute_one is: "translate", "review", "await" (a
                \* decision), "pr" or "ended"
  verdict,      \* the review's verdict, "none" before there is one
  signal,       \* _approval_signals: the last decision sent
  prStep,       \* where the create_pr attempt is; it outlives a cancelled
                \* workflow, because it runs in a thread
  prTry,        \* create_pr attempts made, at most PrAttempts
  prResult,     \* what the workflow's result says: "none", "created", "error"
  pr,           \* the pull request on GitHub: "none" or "open"
  cancelledIn   \* history: the phase in which a cancellation was requested

flowVars == <<phase, verdict, signal, prStep, prTry, prResult, pr, cancelledIn>>
allVars == <<vars, flowVars>>

(* _RETRY_POLICY.maximum_attempts                                           *)
PrAttempts == 2

Verdicts == {"none", "approved", "rejected", "incomplete", "review_error",
             "deferred_approved", "deferred_rejected", "deferred_timeout"}

WorkflowTypeOK ==
  /\ phase \in {"translate", "review", "await", "pr", "ended"}
  /\ verdict \in Verdicts /\ signal \in {"none", "approve", "reject"}
  /\ prStep \in {"idle", "scheduled", "push", "create", "lost"}
  /\ prTry \in 0 .. PrAttempts /\ prResult \in {"none", "created", "error"}
  /\ pr \in {"none", "open"}
  /\ cancelledIn \in {"none", "review", "await", "pr"}

WorkflowInit ==
  /\ Init
  /\ phase = "translate" /\ verdict = "none" /\ signal = "none"
  /\ prStep = "idle" /\ prTry = 0 /\ prResult = "none" /\ pr = "none"
  /\ cancelledIn = "none"

------------------------------------------------------------------------------
(* Accepted with a bug: unfinished work is proposed with the rest.          *)
AcceptedUnfinished(v) ==
  v \in {"approved", "incomplete", "deferred_approved", "review_error"}

(* The review accepts: an approve-class verdict, or a review that could not *)
(* be made of a run that says it succeeded.                                 *)
Accepted(v) ==
  \/ v \in {"approved", "deferred_approved"}
  \/ v = "review_error" /\ outcome \in {"success", "cached"}

(* The results that carry a branch_name; a cached one does not.             *)
NamesBranch == outcome \in {"success", "incomplete", "failure", "deferred"}

(* The review is concluded: accepted work becomes a PR.                     *)
Conclude(v) ==
  /\ verdict' = v
  /\ \/ /\ Accepted(v) /\ NamesBranch
        /\ phase' = "pr" /\ prStep' = "scheduled" /\ prTry' = 1
     \/ /\ ~(Accepted(v) /\ NamesBranch)
        /\ phase' = "ended" /\ UNCHANGED <<prStep, prTry>>
  /\ UNCHANGED <<prResult, pr>>

(* execute_activity(translate) comes back: an exception is a rejected       *)
(* result, a deferral waits for a decision, anything else is reviewed.      *)
TranslateReturns ==
  /\ phase = "translate" /\ server = "closed" /\ worker = "up"
  /\ \/ outcome \in {"error", "terminated"} /\ Conclude("rejected")
     \/ /\ outcome = "deferred" /\ phase' = "await"
        /\ UNCHANGED <<verdict, prStep, prTry, prResult, pr>>
     \/ /\ outcome \notin {"error", "terminated", "deferred"} /\ phase' = "review"
        /\ UNCHANGED <<verdict, prStep, prTry, prResult, pr>>
  /\ UNCHANGED <<signal, cancelledIn>> /\ UNCHANGED vars

(* chaperone: a run that exited 0 can be approved, when there is evidence   *)
(* that it committed, in the diff or only in its repaired commit_count, or  *)
(* it was not meant to; one that failed with commits is incomplete;         *)
(* blocking flags reject either.  A cached result shows no commits and      *)
(* names no mode.                                                           *)
Evidence == reviewed.shown \/ reviewed.counted \/ Mode # "build"

Chaperone ==
  /\ phase = "review" /\ worker = "up"
  /\ \/ outcome = "success" /\ Evidence /\ Conclude("approved")
     \/ outcome = "incomplete" /\ Conclude("incomplete")
     \/ Conclude("rejected")
  /\ UNCHANGED <<signal, cancelledIn>> /\ UNCHANGED vars

(* The review raises or its two minutes pass; it is not tried again.        *)
ChaperoneFails ==
  /\ phase = "review" /\ worker = "up" /\ Faults
  /\ Conclude("review_error")
  /\ UNCHANGED <<signal, cancelledIn>> /\ UNCHANGED vars

(* `mtor approve` and `mtor deny`, at any moment; the last one is kept.     *)
Decision ==
  /\ phase # "ended"
  /\ signal' \in {"approve", "reject"}
  /\ UNCHANGED <<phase, verdict, prStep, prTry, prResult, pr, cancelledIn>>
  /\ UNCHANGED vars

(* wait_condition: a decision that is there ends the wait.                  *)
Decided ==
  /\ phase = "await" /\ worker = "up"
  /\ \/ signal = "approve" /\ Conclude("deferred_approved")
     \/ signal = "reject" /\ Conclude("deferred_rejected")
  /\ UNCHANGED <<signal, cancelledIn>> /\ UNCHANGED vars

(* Its time limit; signals are applied before timers fire.                  *)
ApprovalTimesOut ==
  /\ phase = "await" /\ worker = "up" /\ signal = "none"
  /\ Conclude("deferred_timeout")
  /\ UNCHANGED <<signal, cancelledIn>> /\ UNCHANGED vars

------------------------------------------------------------------------------
(* create_pr.                                                               *)

(* The attempt returns, to a workflow that may have stopped listening.      *)
PrReturns(result) ==
  /\ prStep' = "idle" /\ UNCHANGED prTry
  /\ \/ phase = "pr" /\ phase' = "ended" /\ prResult' = result
     \/ phase # "pr" /\ UNCHANGED <<phase, prResult>>

(* PrRaises with a bug: nothing bounds the attempts.                        *)
PrRaisesForEver ==
  /\ prStep' = "scheduled" /\ UNCHANGED <<prTry, phase, prResult>>

(* The attempt raises, or is found lost: tried again, or told as an error.  *)
PrRaises ==
  \/ /\ phase = "pr" /\ prTry < PrAttempts
     /\ prStep' = "scheduled" /\ prTry' = prTry + 1
     /\ UNCHANGED <<phase, prResult>>
  \/ (phase # "pr" \/ prTry = PrAttempts) /\ PrReturns("error")

PrUnchanged == UNCHANGED <<verdict, signal, cancelledIn>>

(* `git log main..branch`: an empty branch is skipped; a missing one, and   *)
(* any other failure of the command, does not stop the attempt.             *)
CheckAhead ==
  /\ prStep = "scheduled" /\ worker = "up"
  /\ \/ branchExists /\ ~HasUnmerged /\ DefaultBranch = "main" /\ PrReturns("error")
     \/ /\ HasUnmerged \/ ~branchExists \/ LogFails
        /\ prStep' = "push" /\ UNCHANGED <<phase, prTry, prResult>>
     \/ Faults /\ PrRaises
  /\ UNCHANGED pr /\ PrUnchanged /\ UNCHANGED vars

(* `git push origin branch`: refused, accepted, or accepted and not told.   *)
PushBranch ==
  /\ prStep = "push"
  /\ \/ /\ branchExists /\ FastForwards(origin) /\ origin' = branch
        /\ \/ prStep' = "create" /\ UNCHANGED <<phase, prTry, prResult>>
           \/ Faults /\ PrRaises
     \/ /\ ~branchExists \/ ~FastForwards(origin) \/ Faults
        /\ UNCHANGED origin /\ PrReturns("error")
     \/ Faults /\ UNCHANGED origin /\ PrRaises
  /\ UNCHANGED pr /\ PrUnchanged
  /\ UNCHANGED <<branchExists, branch, ganglion, checkpoints, pc>>
  /\ UNCHANGED historyVars /\ UNCHANGED treeVars /\ UNCHANGED attemptVars /\ UNCHANGED hostVars
  /\ UNCHANGED serverVars

(* `gh pr create`: GitHub opens one PR for a branch with commits and        *)
(* refuses the next; its answer can be lost to the 30 second limit.         *)
CreatePr ==
  /\ prStep = "create"
  /\ \/ /\ pr = "none" /\ origin # {} /\ DefaultBranch = "main" /\ pr' = "open"
        /\ PrReturns("created") \/ (Faults /\ PrRaises)
     \/ /\ pr = "open" \/ origin = {} \/ DefaultBranch # "main" \/ Faults
        /\ UNCHANGED pr /\ PrReturns("error")
     \/ Faults /\ UNCHANGED pr /\ PrRaises
  /\ PrUnchanged /\ UNCHANGED vars

(* start_to_close reveals an attempt that died with its worker.             *)
PrLost ==
  /\ prStep = "lost" /\ PrRaises
  /\ UNCHANGED pr /\ PrUnchanged /\ UNCHANGED vars

------------------------------------------------------------------------------
(* An operator, and the activity underneath.                                *)

(* batch-cancel, once: the await that the workflow is at is cancelled.  A   *)
(* cancelled review is an exception like any other, a cancelled wait ends   *)
(* the workflow, and a cancelled create_pr is told as an error while its    *)
(* attempt goes on.  (Translate has the cancellation of its own activity.)  *)
Cancel ==
  /\ cancelledIn = "none" /\ worker = "up" /\ phase \in {"review", "await", "pr"}
  /\ cancelledIn' = phase
  /\ \/ phase = "review" /\ Conclude("review_error")
     \/ /\ phase \in {"await", "pr"} /\ phase' = "ended"
        /\ prResult' = IF phase = "pr" THEN "error" ELSE prResult
        /\ prStep' = IF prStep = "scheduled" THEN "idle" ELSE prStep
        /\ UNCHANGED <<verdict, prTry, pr>>
  /\ UNCHANGED signal /\ UNCHANGED vars

(* `mtor cancel` and `mtor terminate`: nothing more of the workflow runs.   *)
Terminate ==
  /\ phase \in {"review", "await", "pr"} /\ phase' = "ended"
  /\ prStep' = IF prStep = "scheduled" THEN "idle" ELSE prStep
  /\ UNCHANGED <<verdict, signal, prTry, prResult, pr, cancelledIn>>
  /\ UNCHANGED vars

(* What a step of Translate does to the workflow: a worker that goes down   *)
(* takes a create_pr attempt with it.                                       *)
Follow ==
  /\ \/ /\ worker' = "down" /\ prStep \in {"push", "create"}
        /\ prStep' = "lost"
     \/ /\ worker' # "down" \/ prStep \notin {"push", "create"}
        /\ UNCHANGED prStep
  /\ UNCHANGED <<phase, verdict, signal, prTry, prResult, pr, cancelledIn>>

PrSteps == CheckAhead \/ PushBranch \/ CreatePr \/ PrLost

Reviewing == TranslateReturns \/ Chaperone \/ ChaperoneFails \/ Decided
             \/ ApprovalTimesOut

WorkflowNext ==
  \/ Next /\ Follow
  \/ Reviewing \/ PrSteps
  \/ Decision \/ Cancel \/ Terminate

WorkflowSpec == WorkflowInit /\ [][WorkflowNext]_allVars

(* The fairness of Translate, and: the workflow task runs when it can, its  *)
(* timers fire, activities that are scheduled on a worker that is up start, *)
(* and their commands have time limits.                                     *)
WorkflowFairSpec ==
  /\ WorkflowSpec
  /\ \A a \in Attempts : WF_allVars((Setup(a) \/ Run(a) \/ Finish(a)) /\ Follow)
  /\ WF_allVars(StopWorker /\ Follow) /\ WF_allVars(Restart /\ Follow)
  /\ WF_allVars(StartAttempt /\ Follow) /\ WF_allVars(DetectDead /\ Follow)
  /\ WF_allVars(Reviewing) /\ WF_allVars(PrSteps)

------------------------------------------------------------------------------
(* What a pull request of a finished run proposes is what its worktree's    *)
(* HEAD held when its diff was taken for the review, commit for commit,     *)
(* from then on: no later attempt, orphaned harness, second create_pr or    *)
(* collector gets a commit into it, and none is left out of it.  (That the  *)
(* review saw the whole of that diff is not claimed: it may be cut, or      *)
(* empty when a git command failed, and still be approved by its count.)    *)
ProposedIsReviewed == pr = "open" /\ outcome = "success" => origin = reviewed.held

(* Nothing is proposed but a successful run that was not rejected, and a    *)
(* deferred one that a human approved: no incomplete, failed, timed out or  *)
(* undecided work (workflow.py:282).                                        *)
OnlyAcceptedProposed ==
  pr = "open" =>
    \/ outcome = "success" /\ verdict \in {"approved", "review_error"}
    \/ outcome = "deferred" /\ verdict = "deferred_approved"

(* What a success was made of stays on a branch, local or remote, from      *)
(* which it can be proposed, though its worktree is removed at once and the *)
(* collector may delete the branch before create_pr gets to it; but for     *)
(* what the collector's guard misread.                                      *)
ReviewedIsKept ==
  outcome = "success" =>
    reviewed.held \subseteq branch \cup ganglion \cup origin \cup misread

(* The workflow ends: no decision that never comes, lost review, lost or    *)
(* refused pull request and no stopped worker keeps it open.                *)
WorkflowEnds == <>(phase = "ended")

(* cli.py:2355 "Cancel all workflows": a workflow cancelled while its work  *)
(* is under review proposes nothing.                                        *)
CancelledIsNotProposed == cancelledIn = "review" => pr = "none"

------------------------------------------------------------------------------
(* The inductive invariant: the workflow does not get ahead of the          *)
(* activity, create_pr runs for accepted results only, and once it has      *)
(* pushed, the remote holds what was reviewed.                              *)
ProposedSteps == {"scheduled", "push", "create", "lost"}

Ahead ==
  /\ phase # "translate" => server = "closed"
  /\ phase = "translate" => prStep = "idle" /\ pr = "none"
  /\ phase = "await" => outcome = "deferred"
  /\ phase = "review" => outcome \notin {"error", "terminated", "deferred"}
  /\ phase \in {"review", "await"} => prStep = "idle" /\ pr = "none"
  /\ verdict = "none" => prStep = "idle" /\ pr = "none"

Pushed ==
  /\ prStep \in ProposedSteps \/ pr = "open" =>
       \/ outcome = "success" /\ verdict \in {"approved", "review_error"}
       \/ outcome = "deferred" /\ verdict = "deferred_approved"
  /\ prStep = "create" /\ outcome = "success" => origin = reviewed.held

WorkflowInv ==
  /\ IndInv /\ WorkflowTypeOK /\ Ahead /\ Pushed
  /\ ProposedIsReviewed /\ OnlyAcceptedProposed /\ ReviewedIsKept

=============================================================================
