------------------------------- MODULE Dispatch -------------------------------
(***************************************************************************)
(* The way of a task to the worker: a dispatch passes the admission probe, *)
(* the SHA gate, which deploys by itself when the worker's checkout lacks  *)
(* the local commit, and the target repo preflight; a deploy publishes,    *)
(* merges, restarts and checks.  Both read a moving world by ssh: other    *)
(* sessions push, the worker's timer pulls, CI borrows the checkout,       *)
(* fetches lag behind pushes, and ribosomes run in the service that is     *)
(* restarted.                                                              *)
(*                                                                         *)
(* One repository, germline or mtor's own; a commit is the set of its      *)
(* ancestors and itself, so containment is inclusion, and a push or a      *)
(* merge with --ff-only goes from a set to a larger one.                   *)
(*                                                                         *)
(* src/mtor/dispatch.py, src/mtor/infra.py                                 *)
(***************************************************************************)
EXTENDS Integers, FiniteSets

CONSTANTS
  MaxCommits,      \* bound on the commits made
  Attempts,        \* merges before giving up (merge_attempts)
  MaxRibosomes     \* bound on the harnesses in flight

ASSUME DispatchAssumption ==
  MaxCommits \in Nat /\ Attempts \in Nat \ {0} /\ MaxRibosomes \in Nat

Commits == 1 .. MaxCommits

VARIABLES
  germline,        \* whether the repository is germline
  local, origin,   \* HEAD of the operator's checkout, and of origin/main
  visible,         \* the origin/main that a fetch from the worker sees
  checkout,        \* main in the worker's checkout
  ci,              \* a CI run holds the lock and the checkout, or has left it astray
  pinned,          \* the commit it has detached HEAD at
  service,         \* the systemd unit of the worker
  loaded,          \* what the worker's process has read of mtor's checkout
  ribosomes,       \* harness processes in flight
  dispatch,        \* the command that dispatches a task
  deploy           \* the command that deploys

repoVars     == <<local, origin, visible, checkout>>
workerVars   == <<ci, pinned, service, loaded, ribosomes>>
dispatchVars == <<germline, repoVars, workerVars, dispatch, deploy>>

(* borrowed is history: CI took the checkout, or gave it back, since the    *)
(* command read HEAD.                                                      *)
NoDispatch == [pc |-> "idle", skip |-> FALSE, sha |-> {}, head |-> {}, tries |-> 0,
               borrowed |-> FALSE]
NoDeploy   == [pc |-> "idle", sha |-> {}, tries |-> 0]

DispatchInit ==
  /\ germline \in BOOLEAN
  /\ local = {} /\ origin = {} /\ visible = {} /\ checkout = {} /\ loaded = {}
  /\ ci = "none" /\ pinned = {} /\ service = "active" /\ ribosomes = 0
  /\ dispatch = NoDispatch /\ deploy = NoDeploy

Known   == local \cup origin
Healthy == ci = "none"

(* HEAD of the worker's checkout: main, unless CI has detached it.         *)
WorkerHead == IF ci = "none" THEN checkout ELSE pinned

(* What either command does to the worker's checkout and to its unit.      *)
CanMerge == WorkerHead \subseteq visible \/ visible \subseteq WorkerHead
Merged   == WorkerHead \cup visible
MoveHead ==
  \/ ci = "none" /\ checkout' = Merged /\ UNCHANGED pinned
  \/ ci # "none" /\ pinned' = Merged /\ UNCHANGED checkout
RestartUnit == service' = "deactivating"

---------------------------------------------------------------------------
(* The dispatch: _dispatch_prompt, _check_worker_sha.                      *)
To(pc)   == dispatch' = [dispatch EXCEPT !.pc = pc]
Unmoved  == UNCHANGED <<germline, repoVars, workerVars, deploy>>

(* The command line's own gates come first (frozen, paused, no tests in    *)
(* the spec, the same prompt within five minutes): a command they refuse   *)
(* is one that does not begin.  skip: --skip-sha-check, or a mode that     *)
(* only reads.                                                             *)
StartDispatch(skip) ==
  /\ dispatch.pc = "idle"
  /\ dispatch' = [NoDispatch EXCEPT !.pc = "admit", !.skip = skip]
  /\ Unmoved

Admit ==
  /\ dispatch.pc = "admit" /\ service = "active"
  /\ To(IF dispatch.skip THEN "admit again" ELSE "local")
  /\ Unmoved

ReadLocal ==
  /\ dispatch.pc = "local"
  /\ dispatch' = [dispatch EXCEPT !.pc = "head", !.sha = local]
  /\ Unmoved

ReadHead ==
  /\ dispatch.pc = "head"
  /\ dispatch' = [dispatch EXCEPT !.pc = IF germline THEN "hygiene" ELSE "compare",
                                  !.head = WorkerHead, !.borrowed = FALSE]
  /\ Unmoved

(* _check_worker_checkout: an unhealthy checkout whose lock is held is     *)
(* looked at again when the lock is free or the wait is over.              *)
Hygiene ==
  /\ dispatch.pc = "hygiene"
  /\ \/ Healthy /\ To("compare")
     \/ ci = "running" /\ To("wait")
  /\ Unmoved

Waited == dispatch.pc = "wait" /\ Healthy /\ To("compare") /\ Unmoved

(* HEAD as it was read before the wait, or its history as it is now.       *)
Compare ==
  /\ dispatch.pc = "compare"
  /\ To(IF dispatch.sha = dispatch.head \/ dispatch.sha \subseteq WorkerHead
        THEN "target" ELSE "push")
  /\ Unmoved

Push ==   \* of HEAD, which may have moved since it was read
  /\ dispatch.pc = "push" /\ origin \subseteq local
  /\ origin' = local
  /\ To("merge")
  /\ UNCHANGED <<germline, local, visible, checkout, workerVars, deploy>>

Merge ==
  /\ dispatch.pc = "merge" /\ CanMerge /\ MoveHead
  /\ dispatch' = [dispatch EXCEPT !.pc = "probe", !.tries = @ + 1]
  /\ UNCHANGED <<germline, local, origin, visible, ci, service, loaded, ribosomes, deploy>>

(* Mutant: a merge that exits with 0 is taken for one that brought the     *)
(* commit.                                                                 *)
ProbeTrusting == dispatch.pc = "probe" /\ To("count") /\ Unmoved

Probe ==
  /\ dispatch.pc = "probe"
  /\ IF dispatch.sha \subseteq WorkerHead THEN To("count")
     ELSE dispatch.tries < Attempts /\ To("merge")
  /\ Unmoved

(* Mutant: with harnesses in flight the restart is left out. *)
CountSkipping(probed) ==
  /\ dispatch.pc = "count"
  /\ To(IF probed /\ ribosomes > 0 THEN "target" ELSE "restart")
  /\ Unmoved

(* The drain guard: a positive count blocks, a failed probe does not. *)
Count(probed) ==
  /\ dispatch.pc = "count" /\ (probed => ribosomes = 0)
  /\ To("restart")
  /\ Unmoved

AutoRestart ==
  /\ dispatch.pc = "restart" /\ RestartUnit /\ To("restarting")
  /\ UNCHANGED <<germline, repoVars, ci, pinned, loaded, ribosomes, deploy>>

Restarted == dispatch.pc = "restarting" /\ service = "active" /\ To("target") /\ Unmoved

(* _worker_target_repo_state, of a target that is named: the operator's    *)
(* checkout, the worker's and origin agree, and the worker's is clean.     *)
Target ==
  /\ dispatch.pc = "target"
  /\ germline \/ (local = WorkerHead /\ WorkerHead = visible)
  /\ To("admit again")
  /\ Unmoved

AdmitAgain == dispatch.pc = "admit again" /\ service = "active" /\ To("submit") /\ Unmoved
Submit     == dispatch.pc = "submit" /\ To("submitted") /\ Unmoved
Reported   == dispatch.pc = "submitted" /\ dispatch' = NoDispatch /\ Unmoved

(* A gate refuses, an ssh call fails or times out, or the operator gives   *)
(* up: the command ends and nothing is undone.                             *)
Refused ==
  /\ dispatch.pc \notin {"idle", "submitted"}
  /\ dispatch' = NoDispatch
  /\ UNCHANGED <<germline, repoVars, workerVars, deploy>>

---------------------------------------------------------------------------
(* deploy, of mtor's own repository.                                       *)
Turn(pc) == deploy' = [deploy EXCEPT !.pc = pc]
Still    == UNCHANGED <<germline, repoVars, workerVars, dispatch>>

Resolve ==
  /\ deploy.pc \in {"idle", "healthy"} /\ ~germline
  /\ deploy' = [NoDeploy EXCEPT !.pc = "push", !.sha = local]
  /\ Still

Publish ==   \* that commit, not HEAD
  /\ deploy.pc = "push" /\ origin \subseteq deploy.sha
  /\ origin' = deploy.sha
  /\ Turn("merge")
  /\ UNCHANGED <<germline, local, visible, checkout, workerVars, dispatch>>

FastForward ==
  /\ deploy.pc = "merge" /\ CanMerge /\ MoveHead
  /\ deploy' = [deploy EXCEPT !.pc = "probe", !.tries = @ + 1]
  /\ UNCHANGED <<germline, local, origin, visible, ci, service, loaded, ribosomes, dispatch>>

Verify ==
  /\ deploy.pc = "probe"
  /\ IF deploy.sha \subseteq WorkerHead THEN Turn("sync")
     ELSE deploy.tries < Attempts /\ Turn("merge")
  /\ Still

(* uv sync, and the retirement of the old unit. *)
SyncEnvironment == deploy.pc = "sync" /\ Turn("drain") /\ Still

(* _wait_for_ribosome_idle goes on when none is left, when it cannot       *)
(* count, and when it has waited long enough.                              *)
Drained == deploy.pc = "drain" /\ Turn("restart") /\ Still

(* Mutant: a busy worker is left running. *)
DeployRestartUnlessBusy ==
  /\ deploy.pc = "restart" /\ Turn("restarting")
  /\ service' = IF ribosomes > 0 THEN service ELSE "deactivating"
  /\ UNCHANGED <<germline, repoVars, ci, pinned, loaded, ribosomes, dispatch>>

DeployRestart ==
  /\ deploy.pc = "restart" /\ RestartUnit /\ Turn("restarting")
  /\ UNCHANGED <<germline, repoVars, ci, pinned, loaded, ribosomes, dispatch>>

DeployRestarted == deploy.pc = "restarting" /\ service = "active" /\ Turn("health") /\ Still

(* check_health with the commit that was resolved. *)
HealthCheck ==
  /\ deploy.pc = "health"
  /\ service = "active" /\ deploy.sha \subseteq WorkerHead /\ Healthy
  /\ Turn("healthy")
  /\ Still

DeployFails ==
  /\ deploy.pc \notin {"idle", "healthy"}
  /\ deploy' = NoDeploy
  /\ UNCHANGED <<germline, repoVars, workerVars, dispatch>>

---------------------------------------------------------------------------
(* The world. *)
NewCommit == CHOOSE c \in Commits \ Known : TRUE
Room      == Commits \ Known # {}

OthersKeep == UNCHANGED <<germline, workerVars, dispatch, deploy>>

Commit   == /\ Room /\ local' = local \cup {NewCommit}
            /\ OthersKeep /\ UNCHANGED <<origin, visible, checkout>>
OtherPush == /\ Room /\ origin' = origin \cup {NewCommit}
             /\ OthersKeep /\ UNCHANGED <<local, visible, checkout>>
Pull      == /\ local # origin /\ local \subseteq origin /\ local' = origin
             /\ OthersKeep /\ UNCHANGED <<origin, visible, checkout>>
Propagate == /\ visible # origin /\ visible' = origin
             /\ OthersKeep /\ UNCHANGED <<local, origin, checkout>>

SyncTimer ==   \* git-sync-germline pulls every five minutes
  /\ germline /\ Healthy
  /\ checkout # visible /\ checkout \subseteq visible
  /\ checkout' = visible
  /\ OthersKeep /\ UNCHANGED <<local, origin, visible>>

(* CI detaches HEAD at a commit of main, old or new, for as long as it      *)
(* runs, and may leave it there; whoever repairs that goes back to main, or *)
(* resets it to origin/main.                                                *)
Ci ==
  /\ germline
  /\ dispatch' = [dispatch EXCEPT !.borrowed = TRUE]
  /\ \/ /\ ci = "none" /\ ci' = "running"
        /\ pinned' \in {{}, checkout, visible} /\ UNCHANGED checkout
     \/ /\ ci = "running" /\ ci' \in {"none", "astray"}
        /\ UNCHANGED <<pinned, checkout>>
     \/ /\ ci = "astray" /\ ci' = "none"
        /\ checkout' \in {checkout, visible} /\ UNCHANGED pinned
  /\ UNCHANGED <<germline, local, origin, visible, service, loaded, ribosomes, deploy>>

Ribosome ==
  /\ \/ service = "active" /\ ribosomes < MaxRibosomes /\ ribosomes' = ribosomes + 1
     \/ ribosomes > 0 /\ ribosomes' = ribosomes - 1
  /\ UNCHANGED <<germline, repoVars, ci, pinned, service, loaded, dispatch, deploy>>

(* A process that starts reads mtor's checkout.  Of germline it keeps       *)
(* nothing: every task reads that for itself.                              *)
Load == loaded' = IF germline THEN loaded ELSE checkout

(* The unit stops when what it drains has ended, or has been given its     *)
(* time and is killed.                                                     *)
DrainEnds ==
  /\ service = "deactivating"
  /\ service' = "active" /\ Load /\ ribosomes' = 0
  /\ UNCHANGED <<germline, repoVars, ci, pinned, dispatch, deploy>>

ServiceFails ==
  /\ service = "active"
  /\ service' = "failed" /\ ribosomes' = 0
  /\ UNCHANGED <<germline, repoVars, ci, pinned, loaded, dispatch, deploy>>

ServiceStarts ==
  /\ service = "failed"
  /\ service' = "active" /\ Load
  /\ UNCHANGED <<germline, repoVars, ci, pinned, ribosomes, dispatch, deploy>>

Dispatches == \/ Admit \/ ReadLocal \/ ReadHead \/ Hygiene \/ Waited \/ Compare \/ Push
              \/ Merge \/ Probe \/ (\E probed \in BOOLEAN : Count(probed)) \/ AutoRestart
              \/ Restarted \/ Target \/ AdmitAgain \/ Submit \/ Reported \/ Refused
Deploys    == \/ Resolve \/ Publish \/ FastForward \/ Verify \/ SyncEnvironment \/ Drained
              \/ DeployRestart \/ DeployRestarted \/ HealthCheck \/ DeployFails
World      == \/ Commit \/ OtherPush \/ Pull \/ Propagate \/ SyncTimer \/ Ci \/ Ribosome
              \/ DrainEnds \/ ServiceFails \/ ServiceStarts

DispatchNext == (\E skip \in BOOLEAN : StartDispatch(skip)) \/ Dispatches \/ Deploys \/ World
DispatchSpec == DispatchInit /\ [][DispatchNext]_dispatchVars

---------------------------------------------------------------------------
DispatchSteps == {"idle", "admit", "local", "head", "hygiene", "wait", "compare", "push",
                  "merge", "probe", "count", "restart", "restarting", "target",
                  "admit again", "submit", "submitted"}
DeploySteps   == {"idle", "push", "merge", "probe", "sync", "drain", "restart",
                  "restarting", "health", "healthy"}

Dispatching == [pc : DispatchSteps, skip : BOOLEAN, sha : SUBSET Commits,
                head : SUBSET Commits, tries : 0 .. Attempts, borrowed : BOOLEAN]
Deploying   == [pc : DeploySteps, sha : SUBSET Commits, tries : 0 .. Attempts]

DispatchTypeOK ==
  /\ germline \in BOOLEAN
  /\ local \subseteq Commits /\ origin \subseteq Commits /\ visible \subseteq Commits
  /\ checkout \subseteq Commits /\ loaded \subseteq Commits
  /\ pinned \subseteq Commits
  /\ ci \in {"none", "running", "astray"}
  /\ service \in {"active", "deactivating", "failed"}
  /\ ribosomes \in 0 .. MaxRibosomes
  /\ dispatch \in Dispatching /\ deploy \in Deploying

(* A deploy that reports healthy has the commit it resolved at the start   *)
(* in the process that runs, whatever was pushed, pulled or restarted by   *)
(* others meanwhile (infra.py:791-958).                                    *)
HealthyMeansLoaded == deploy.pc = "healthy" => deploy.sha \subseteq loaded

(* A task that went through the SHA gate is submitted when the commit the   *)
(* gate read is on origin/main, where the worker can fetch it; and its      *)
(* checkout contains it, unless CI took the checkout or gave it back since  *)
(* the gate read HEAD.  Then it need not: the gate waits for CI up to 15    *)
(* minutes and compares with the HEAD it read before, which CI may have     *)
(* pinned (dispatch.py:277-283, 374-406, 445-466, 1374-1467).               *)
SubmitContained ==
  dispatch.pc \in {"submit", "submitted"} /\ ~dispatch.skip =>
    /\ dispatch.sha \subseteq visible
    /\ dispatch.borrowed \/ dispatch.sha \subseteq WorkerHead

(* A dispatch of mtor's own repository that deployed by itself is submitted *)
(* to a process that has read the commit it deployed.  Otherwise only the   *)
(* checkout is known to have it: the gate does not look at the process      *)
(* (dispatch.py:494-620); and of germline the process holds nothing, so     *)
(* that the restart brings nothing (dispatch.py:474-477).                   *)
AutoDeployLoads ==
  ~germline /\ dispatch.pc \in {"submit", "submitted"} /\ dispatch.tries > 0 =>
    dispatch.sha \subseteq loaded
=============================================================================
