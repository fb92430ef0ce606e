------------------------------ MODULE Translate ------------------------------
(***************************************************************************)
(* The life of one TranslationWorkflow's `translate` activity: the         *)
(* attempts Temporal makes at it, the git worktree and branch they share   *)
(* (both are named after the workflow id), the harness process each spawns *)
(* in that worktree, the worker process that hosts the attempts and is     *)
(* stopped, crashed and restarted under them, and the server's retries.    *)
(*                                                                         *)
(* An edit is a change a harness makes.  Every write is a new edit and     *)
(* commits only ever add edits, so a ref is the set of edits its history   *)
(* holds and "is an ancestor of" is \subseteq.  Edits the lifecycle code   *)
(* throws away on purpose (_AUTO_COMMIT_DENYLIST, ignored files) are not   *)
(* represented.                                                            *)
(*                                                                         *)
(* src/mtor/worker/translocase.py  translate and its process helpers       *)
(* src/mtor/worker/git_ops.py      worktrees, checkpoints, branches        *)
(* src/mtor/worker/workflow.py     the retry policy                        *)
(***************************************************************************)
EXTENDS Naturals, FiniteSets

CONSTANTS
  MaxAttempts,    \* RetryPolicy.maximum_attempts (3 for mutating modes)
  MaxProviders,   \* providers a run can try before all are exhausted
  MaxStops,       \* bound: how often the worker process is stopped or crashes
  Edits,          \* bound: the edits harnesses can make
  Mode,           \* "build" commits what a harness left, "research" never does
  DefaultBranch,  \* the repository's default branch: "main" or "master"
  Faults,         \* TRUE: git commands, pushes and process kills may fail
  CanLapse        \* TRUE: a live attempt may be given up on by the server

ASSUME MaxAttemptsAssumption == MaxAttempts \in Nat \ {0}
ASSUME MaxProvidersAssumption == MaxProviders \in Nat \ {0}
ASSUME MaxStopsAssumption == MaxStops \in Nat
ASSUME SwitchAssumption == Faults \in BOOLEAN /\ CanLapse \in BOOLEAN

Attempts == 1 .. MaxAttempts

VARIABLES
  \* the worktree <repo>/.worktrees/<branch>
  wtExists,     \* its directory is there
  locked,       \* its git dir holds an index.lock nobody will release
  dirty,        \* edits in its files and not in its index
  staged,       \* edits in its index and not committed
  \* refs
  branchExists, branch,   \* the task's local branch
  ganglion, origin,       \* what the two remotes hold for that branch
  checkpoints,            \* refs/ribosome-checkpoints-v2/*
  \* attempts
  pc,           \* where in translate the attempt is
  rc,           \* how its harness run ended
  tried,        \* |_attempted|: providers it has tried
  base,         \* pre_sha: the task's commits in HEAD before the harness ran
  seen,         \* post_diff: the snapshot of HEAD its result reports
  \* the worker host
  worker,       \* the worker process: "up", "draining" or "down"
  stops,        \* times it was stopped or crashed, at most MaxStops
  live,         \* attempts whose harness tree still has a live process
  cached,       \* OUTPUT_DIR holds an "Exit: 0" report for the task
  \* the Temporal server
  server,       \* the activity task: "scheduled", "started" or "closed"
  current,      \* the attempt the server counts
  outcome,      \* the kind of result the activity completed with
  reviewed,     \* the snapshot that result hands to the chaperone
  \* history
  produced,     \* edits made so far
  misread,      \* commits on no remote that a branch guard took for merged
                \* because its git log failed
  late          \* commits made while an attempt was about to delete the branch

treeVars    == <<wtExists, locked, dirty, staged>>
refVars     == <<branchExists, branch, ganglion, origin, checkpoints>>
attemptVars == <<rc, tried, base, seen>>
hostVars    == <<worker, stops, live, cached>>
serverVars  == <<server, current, outcome, reviewed>>
historyVars == <<produced, misread, late>>
vars == <<treeVars, refVars, pc, attemptVars, hostVars, serverVars, historyVars>>

(* Where an attempt can be.  Worktree setup and the snapshot, test and      *)
(* removal steps run in threads; "save", "clean" and "judge" are the rest   *)
(* of one synchronous stretch on the event loop that "autocommit" begins.   *)
SetupSteps  == {"census", "ckpt", "rm", "guard", "delete", "add"}
FinishSteps == {"snap", "test", "early", "push", "drop", "dropearly", "report"}
Executions  == {"gate", "prepare", "spawn", "run", "reap", "stopsave",
                "autocommit", "save", "clean", "judge"}
               \cup SetupSteps \cup FinishSteps
Ended       == {"returned", "failed", "noworktree", "dead"}
Outcomes    == {"none", "gated", "cached", "timeout", "cancelled", "bloat",
                "exhausted", "terminated", "deferred", "success",
                "incomplete", "failure", "error"}

Executing(a) == pc[a] \in Executions

(* Edits that outlive the worktree: every ref and remote of the repository. *)
Durable == branch \cup ganglion \cup origin \cup checkpoints

(* A snapshot of HEAD: the commits HEAD held, whether the diff that came of  *)
(* it shows anything, and whether commit_count says that there are commits. *)
Snapshots  == [held : SUBSET Edits, shown : BOOLEAN, counted : BOOLEAN]
NoSnapshot == [held |-> {}, shown |-> FALSE, counted |-> FALSE]

TypeOK ==
  /\ wtExists \in BOOLEAN /\ locked \in BOOLEAN
  /\ dirty \in SUBSET Edits /\ staged \in SUBSET Edits
  /\ branchExists \in BOOLEAN /\ branch \in SUBSET Edits
  /\ ganglion \in SUBSET Edits /\ origin \in SUBSET Edits
  /\ checkpoints \in SUBSET Edits
  /\ pc \in [Attempts -> {"idle"} \cup Executions \cup Ended]
  /\ rc \in [Attempts -> {"none", "ok", "fail", "limit", "timeout", "cancel"}]
  /\ tried \in [Attempts -> 0 .. MaxProviders]
  /\ base \in [Attempts -> SUBSET Edits] /\ seen \in [Attempts -> Snapshots]
  /\ worker \in {"up", "draining", "down"} /\ stops \in 0 .. MaxStops
  /\ live \in SUBSET Attempts /\ cached \in BOOLEAN
  /\ server \in {"scheduled", "started", "closed"} /\ current \in Attempts
  /\ outcome \in Outcomes /\ reviewed \in Snapshots
  /\ produced \in SUBSET Edits
  /\ misread \in SUBSET Edits /\ late \in SUBSET Edits

Init ==
  /\ wtExists = FALSE /\ locked = FALSE /\ dirty = {} /\ staged = {}
  /\ branchExists = FALSE /\ branch = {} /\ ganglion = {} /\ origin = {}
  /\ checkpoints = {}
  /\ pc = [a \in Attempts |-> "idle"]
  /\ rc = [a \in Attempts |-> "none"]
  /\ tried = [a \in Attempts |-> 0]
  /\ base = [a \in Attempts |-> {}] /\ seen = [a \in Attempts |-> NoSnapshot]
  /\ worker = "up" /\ stops = 0 /\ live = {} /\ cached = FALSE
  /\ server = "scheduled" /\ current = 1 /\ outcome = "none"
  /\ reviewed = NoSnapshot
  /\ produced = {} /\ misread = {} /\ late = {}

------------------------------------------------------------------------------
(* The server: what an ending attempt does to the activity.                 *)

(* Retry with a bug: nothing gives up after the last attempt.               *)
RetryWithoutEnd ==
  /\ UNCHANGED <<reviewed, outcome>>
  /\ current < MaxAttempts /\ current' = current + 1 /\ server' = "scheduled"

(* The attempt counts as failed: schedule the next one, or give up.         *)
Retry ==
  /\ UNCHANGED reviewed
  /\ \/ /\ current < MaxAttempts
        /\ current' = current + 1 /\ server' = "scheduled"
        /\ UNCHANGED outcome
     \/ /\ current = MaxAttempts
        /\ server' = "closed" /\ outcome' = "error"
        /\ UNCHANGED current

Listening(a) == server = "started" /\ a = current

Goto(a, step) == pc' = [pc EXCEPT ![a] = step]

(* translate raises.  A report from an attempt the server no longer counts  *)
(* is dropped.                                                              *)
FailAt(a, end) ==
  /\ Goto(a, end)
  /\ \/ Listening(a) /\ Retry
     \/ ~Listening(a) /\ UNCHANGED serverVars

Fail(a) == FailAt(a, "failed")

(* translate returns a result of the given kind.                            *)
Return(a, kind) ==
  /\ Goto(a, "returned")
  /\ \/ /\ Listening(a)
        /\ server' = "closed" /\ outcome' = kind /\ reviewed' = seen[a]
        /\ UNCHANGED current
     \/ ~Listening(a) /\ UNCHANGED serverVars

Continue(a, step) == Goto(a, step) /\ UNCHANGED serverVars

------------------------------------------------------------------------------
(* Conditions the lifecycle code tests.                                     *)

(* Occupied with a bug: a harness that outlived its attempt goes unnoticed. *)
OccupiedByTests == \E b \in Attempts : pc[b] = "test"

(* _worktree_has_live_process: a harness, or pytest, has its cwd there.     *)
Occupied == live # {} \/ \E b \in Attempts : pc[b] = "test"

(* No other attempt is inside its synchronous stretch on the event loop.    *)
LoopFree(a) == \A b \in Attempts \ {a} : pc[b] \notin {"save", "clean", "judge"}

(* `git log main..branch` prints something ...                              *)
HasUnmerged == branchExists /\ branch # {} /\ DefaultBranch = "main"

(* ... or exits with an error, as it always does where there is no `main`.  *)
LogFails == DefaultBranch # "main" \/ Faults

(* FastForwards with a bug: the push is forced.                             *)
ForcePush(remote) == remote \subseteq Edits

(* A non-force push of the branch is accepted as a fast-forward.            *)
FastForwards(remote) == remote \subseteq branch

(* GuardPasses with a bug: the tip is never pushed.                         *)
GuardPassesUnpushed == UNCHANGED <<ganglion, misread>>

(* _guard_branch_delete lets the branch be deleted: there is nothing        *)
(* unmerged on it, or so a failed `git log` reads                           *)
(* (_branch_has_unmerged_commits), or its tip has been pushed to ganglion.  *)
GuardPasses ==
  \/ /\ ~HasUnmerged \/ LogFails
     /\ misread' = misread \cup (branch \ (ganglion \cup origin))
     /\ UNCHANGED ganglion
  \/ /\ HasUnmerged /\ FastForwards(ganglion)
     /\ ganglion' = branch /\ UNCHANGED misread

(* It keeps the branch: the push is refused or fails, or a command runs     *)
(* into its time limit.                                                     *)
GuardKeeps ==
  /\ Faults \/ (HasUnmerged /\ ~FastForwards(ganglion))
  /\ UNCHANGED <<ganglion, misread>>

(* _checkpoint_worktree_or_raise on a clean tree, and one that saves.       *)
NothingToSave == ~locked /\ dirty \cup staged = {}
CanSave       == ~locked /\ dirty \cup staged # {}
SaveFails     == locked \/ (Faults /\ dirty \cup staged # {})

(* _select_attempt_provider still finds one this run has not tried; the bug *)
(* is to forget what was tried.                                             *)
TriedForgotten(a) == tried[a] \in Nat
Untried(a) == tried[a] < MaxProviders

(* _worker_shutdown_requested, and the bug of not asking.                   *)
ShutdownUnnoticed == worker = "down"
ShutdownRequested == worker = "draining"

(* Checkpoint with a bug: the stash commit gets no ref to hold it.          *)
StashWithoutRef ==
  /\ staged' = staged \cup dirty /\ dirty' = {}
  /\ UNCHANGED <<wtExists, locked>> /\ UNCHANGED refVars

(* _checkpoint_worktree: stage every path, stash, and point a ref at it.    *)
Checkpoint ==
  /\ checkpoints' = checkpoints \cup dirty \cup staged
  /\ staged' = staged \cup dirty /\ dirty' = {}
  /\ UNCHANGED <<wtExists, locked, branchExists, branch, ganglion, origin>>

(* A checkpoint that raises may have staged some paths before it stopped.   *)
CheckpointFails ==
  /\ \/ UNCHANGED <<dirty, staged>>
     \/ ~locked /\ staged' = staged \cup dirty /\ dirty' = {}
  /\ UNCHANGED <<wtExists, locked>> /\ UNCHANGED refVars

(* `git worktree remove --force`: whatever the tree held is gone.           *)
RemoveTree ==
  wtExists' = FALSE /\ locked' = FALSE /\ dirty' = {} /\ staged' = {}

------------------------------------------------------------------------------
(* An attempt starts.                                                       *)

StartAttempt ==
  /\ worker = "up" /\ server = "scheduled" /\ LoopFree(current)
  /\ server' = "started" /\ Goto(current, "gate")
  /\ UNCHANGED <<current, outcome, reviewed>> /\ UNCHANGED historyVars
  /\ UNCHANGED treeVars /\ UNCHANGED refVars /\ UNCHANGED attemptVars
  /\ UNCHANGED hostVars

(* Concurrency gate (raises), capability and syntax gates (refuse), the     *)
(* cached report of an earlier attempt (succeeds without running).          *)
Gate(a) ==
  /\ pc[a] = "gate" /\ LoopFree(a)
  /\ \/ Fail(a)
     \/ Return(a, "gated")
     \/ cached /\ Return(a, "cached")
     \/ Continue(a, "census")
  /\ UNCHANGED treeVars /\ UNCHANGED refVars /\ UNCHANGED attemptVars
  /\ UNCHANGED hostVars /\ UNCHANGED historyVars

(* _create_worktree: an existing tree in use is left alone.                 *)
CensusExisting(a) ==
  /\ pc[a] = "census"
  /\ \/ ~wtExists /\ Continue(a, "guard")
     \/ wtExists /\ Occupied /\ Fail(a)
     \/ wtExists /\ ~Occupied /\ Continue(a, "ckpt")
  /\ UNCHANGED treeVars /\ UNCHANGED refVars /\ UNCHANGED attemptVars
  /\ UNCHANGED hostVars /\ UNCHANGED historyVars

CheckpointExisting(a) ==
  /\ pc[a] = "ckpt"
  /\ \/ /\ NothingToSave \/ ~wtExists
        /\ Continue(a, "rm") /\ UNCHANGED treeVars /\ UNCHANGED refVars
     \/ wtExists /\ CanSave /\ Checkpoint /\ Continue(a, "rm")
     \/ wtExists /\ SaveFails /\ CheckpointFails /\ Fail(a)
  /\ UNCHANGED attemptVars /\ UNCHANGED hostVars /\ UNCHANGED historyVars

(* _remove_worktree_if_inactive before the retry's own tree is made: the    *)
(* census and the lock test are repeated, and a failure raises.             *)
RemoveExisting(a) ==
  /\ pc[a] = "rm"
  /\ \/ ~wtExists /\ Continue(a, "guard") /\ UNCHANGED treeVars
     \/ wtExists /\ ~Occupied /\ ~locked /\ RemoveTree /\ Continue(a, "guard")
     \/ wtExists /\ (Occupied \/ locked \/ Faults) /\ Fail(a) /\ UNCHANGED treeVars
  /\ UNCHANGED refVars /\ UNCHANGED attemptVars /\ UNCHANGED hostVars
  /\ UNCHANGED historyVars

(* The guard of a branch an earlier attempt left.                           *)
GuardBranchDelete(a) ==
  /\ pc[a] = "guard"
  /\ \/ GuardPasses /\ Continue(a, "delete")
     \/ GuardKeeps /\ Continue(a, "add")
  /\ UNCHANGED <<branchExists, branch, origin, checkpoints, produced, late>>
  /\ UNCHANGED treeVars /\ UNCHANGED attemptVars /\ UNCHANGED hostVars

(* `git branch -D`, refused for a branch that a worktree has checked out.   *)
DeleteBranch(a) ==
  /\ pc[a] = "delete"
  /\ Continue(a, "add")
  /\ \/ ~wtExists /\ branchExists' = FALSE /\ branch' = {}
     \/ (wtExists \/ Faults) /\ UNCHANGED <<branchExists, branch>>
  /\ UNCHANGED <<ganglion, origin, checkpoints>>
  /\ UNCHANGED treeVars /\ UNCHANGED attemptVars /\ UNCHANGED hostVars
  /\ UNCHANGED historyVars

(* `git worktree add -b`, three tries: a branch or a directory that is      *)
(* still there makes every one of them fail; its time limit raises and may  *)
(* leave the branch behind, a tree, and a lock in it.                       *)
AddWorktree(a) ==
  /\ pc[a] = "add"
  /\ \/ /\ ~branchExists /\ ~wtExists
        /\ wtExists' = TRUE /\ branchExists' = TRUE /\ UNCHANGED locked
        /\ Continue(a, "prepare")
     \/ /\ branchExists \/ wtExists \/ Faults
        /\ FailAt(a, "noworktree") /\ UNCHANGED <<wtExists, branchExists, locked>>
     \/ /\ Faults /\ ~branchExists /\ ~wtExists
        /\ branchExists' = TRUE /\ wtExists' \in BOOLEAN
        /\ locked' \in BOOLEAN /\ (locked' => wtExists')
        /\ FailAt(a, "noworktree")
  /\ UNCHANGED <<dirty, staged, branch, ganglion, origin, checkpoints>>
  /\ UNCHANGED attemptVars /\ UNCHANGED hostVars /\ UNCHANGED historyVars

(* _detect_prior_commits and pre_sha both read the new worktree's HEAD; the *)
(* fetch between them moves nothing of the task's.                          *)
Prepare(a) ==
  /\ pc[a] = "prepare"
  /\ base' = [base EXCEPT ![a] = branch]
  /\ Continue(a, "spawn")
  /\ UNCHANGED <<rc, tried, seen>> /\ UNCHANGED historyVars
  /\ UNCHANGED treeVars /\ UNCHANGED refVars /\ UNCHANGED hostVars

------------------------------------------------------------------------------
(* The harness runs.                                                        *)

Spawn(a) ==
  /\ pc[a] = "spawn" /\ LoopFree(a)
  /\ \/ /\ wtExists
        /\ live' = live \cup {a}
        /\ tried' = [tried EXCEPT ![a] = @ + 1]
        /\ rc' = [rc EXCEPT ![a] = "none"]
        /\ Continue(a, "run")
     \/ (~wtExists \/ Faults) /\ Fail(a) /\ UNCHANGED <<live, tried, rc>>
  /\ UNCHANGED <<base, seen, worker, stops, cached>> /\ UNCHANGED historyVars
  /\ UNCHANGED treeVars /\ UNCHANGED refVars

(* The harness edits its worktree, as long as its process tree lives.       *)
HarnessWrite(a) ==
  /\ a \in live
  /\ \E e \in Edits \ produced :
       dirty' = dirty \cup {e} /\ produced' = produced \cup {e}
  /\ UNCHANGED <<wtExists, locked, staged, pc, misread, late>>
  /\ UNCHANGED refVars /\ UNCHANGED attemptVars /\ UNCHANGED hostVars
  /\ UNCHANGED serverVars

(* Commits that land while some attempt is about to delete the branch: it   *)
(* has passed the guard, and what comes now is in nobody's push.            *)
CommitsLate(S) ==
  late' = late \cup {e \in S : \E b \in Attempts : pc[b] = "delete"}

HarnessCommit(a) ==
  /\ a \in live /\ ~locked
  /\ \E S \in SUBSET dirty :
       /\ S \cup staged # {}
       /\ branch' = branch \cup staged \cup S
       /\ dirty' = dirty \ S /\ staged' = {}
       /\ CommitsLate(staged \cup S)
  /\ UNCHANGED <<wtExists, locked, branchExists, ganglion, origin, checkpoints>>
  /\ UNCHANGED <<pc, produced, misread>> /\ UNCHANGED attemptVars
  /\ UNCHANGED hostVars /\ UNCHANGED serverVars

(* HarnessExit with a bug: its process tree is not reaped.                  *)
HarnessExitUnreaped(a) ==
  /\ pc[a] = "run" /\ LoopFree(a)
  /\ rc' = [rc EXCEPT ![a] = "ok"] /\ UNCHANGED live
  /\ Continue(a, "autocommit")
  /\ UNCHANGED <<tried, base, seen, worker, stops, cached>> /\ UNCHANGED historyVars
  /\ UNCHANGED treeVars /\ UNCHANGED refVars

(* The wrapper exits (by itself, or killed by stall detection); descendants *)
(* of it may still be running.                                              *)
HarnessExit(a) ==
  /\ pc[a] = "run" /\ LoopFree(a)
  /\ \E r \in {"ok", "fail", "limit"} : rc' = [rc EXCEPT ![a] = r]
  /\ live' \in {live, live \ {a}}
  /\ Continue(a, "reap")
  /\ UNCHANGED <<tried, base, seen, worker, stops, cached>> /\ UNCHANGED historyVars
  /\ UNCHANGED treeVars /\ UNCHANGED refVars

(* The wait for the harness is given up: after _ACTIVITY_TIMEOUT, or when   *)
(* the activity is cancelled, by a worker that is draining or because the   *)
(* workflow was cancelled or terminated.                                    *)
Interrupt(a) ==
  /\ pc[a] = "run" /\ LoopFree(a)
  /\ \/ rc' = [rc EXCEPT ![a] = "timeout"]
     \/ /\ worker = "draining" \/ ~Listening(a)
        /\ rc' = [rc EXCEPT ![a] = "cancel"]
  /\ Continue(a, "reap")
  /\ UNCHANGED <<tried, base, seen>> /\ UNCHANGED historyVars
  /\ UNCHANGED treeVars /\ UNCHANGED refVars /\ UNCHANGED hostVars

(* _graceful_kill_group: kill the attempt's own process tree.  A process    *)
(* that survives SIGKILL, or one in the worktree that is not the attempt's, *)
(* makes it raise.  A git command killed halfway leaves its index.lock.     *)
Reap(a) ==
  /\ pc[a] = "reap" /\ LoopFree(a)
  /\ \/ /\ live' = live \ {a}
        /\ \/ UNCHANGED locked
           \/ a \in live /\ locked' = TRUE
        /\ \/ live' # {} /\ Fail(a)
           \/ /\ live' = {}
              /\ \/ rc[a] \in {"timeout", "cancel"} /\ Continue(a, "stopsave")
                 \/ /\ rc[a] \in {"ok", "fail", "limit"}
                    /\ \/ Mode = "build" /\ Continue(a, "autocommit")
                       \/ Mode # "build" /\ Continue(a, "save")
     \/ Faults /\ a \in live /\ Fail(a) /\ UNCHANGED <<live, locked>>
  /\ UNCHANGED <<wtExists, dirty, staged, worker, stops, cached>>
  /\ UNCHANGED refVars /\ UNCHANGED attemptVars /\ UNCHANGED historyVars

(* A harness whose attempt is gone, or that outlived its kill, exits.       *)
OrphanExit(a) ==
  /\ a \in live /\ pc[a] \in Ended
  /\ live' = live \ {a}
  /\ UNCHANGED <<worker, stops, cached, pc>> /\ UNCHANGED historyVars
  /\ UNCHANGED treeVars /\ UNCHANGED refVars /\ UNCHANGED attemptVars
  /\ UNCHANGED serverVars

------------------------------------------------------------------------------
(* After the harness: save, clean, judge.                                   *)

(* A run that was given up on: checkpoint, overwrite the cached report and  *)
(* return a failure, or raise so that a draining worker's attempt is made   *)
(* again on the next worker.                                                *)
StopSave(a) ==
  /\ pc[a] = "stopsave"
  /\ \/ /\ \/ NothingToSave /\ UNCHANGED treeVars /\ UNCHANGED refVars
           \/ CanSave /\ Checkpoint
        /\ \/ rc[a] = "timeout" /\ Return(a, "timeout") /\ cached' = FALSE
           \/ /\ rc[a] = "cancel" /\ ShutdownRequested
              /\ Fail(a) /\ UNCHANGED cached
           \/ /\ rc[a] = "cancel" /\ ~ShutdownRequested
              /\ Return(a, "cancelled") /\ cached' = FALSE
     \/ SaveFails /\ CheckpointFails /\ Fail(a) /\ UNCHANGED cached
  /\ UNCHANGED <<worker, stops, live>> /\ UNCHANGED attemptVars
  /\ UNCHANGED historyVars

(* _auto_commit: stage every path and commit.  It reports a failure, after  *)
(* which some paths may be staged, as "nothing committed".                  *)
AutoCommit(a) ==
  /\ pc[a] = "autocommit" /\ LoopFree(a)
  /\ \/ /\ CanSave
        /\ branch' = branch \cup dirty \cup staged
        /\ dirty' = {} /\ staged' = {}
        /\ CommitsLate(dirty \cup staged)
        /\ Continue(a, "judge")
     \/ /\ NothingToSave \/ SaveFails
        /\ UNCHANGED <<branch, late>>
        /\ \/ UNCHANGED <<dirty, staged>>
           \/ Faults /\ ~locked /\ staged' = staged \cup dirty /\ dirty' = {}
        /\ Continue(a, "save")
  /\ UNCHANGED <<wtExists, locked, branchExists, ganglion, origin, checkpoints>>
  /\ UNCHANGED attemptVars /\ UNCHANGED hostVars /\ UNCHANGED <<produced, misread>>

(* _checkpoint_uncommitted_worktree when nothing was auto-committed.        *)
SaveUncommitted(a) ==
  /\ pc[a] = "save" /\ LoopFree(a)
  /\ \/ /\ \/ NothingToSave /\ UNCHANGED treeVars /\ UNCHANGED refVars
           \/ CanSave /\ Checkpoint
        /\ \/ rc[a] = "ok" /\ Continue(a, "judge")
           \/ rc[a] # "ok" /\ Continue(a, "clean")
     \/ SaveFails /\ CheckpointFails /\ Fail(a)
  /\ UNCHANGED attemptVars /\ UNCHANGED hostVars /\ UNCHANGED historyVars

(* _cleanup_worktree after a failed run: `git checkout -- .` and `git clean *)
(* -fd` reset the files to the index.                                       *)
CleanFailed(a) ==
  /\ pc[a] = "clean" /\ LoopFree(a)
  /\ \/ /\ wtExists /\ (Occupied \/ locked)
        /\ Fail(a) /\ UNCHANGED dirty
     \/ /\ wtExists /\ ~Occupied /\ ~locked
        /\ \/ dirty' = {}
           \/ Faults /\ UNCHANGED dirty
        /\ Continue(a, "judge")
     \/ ~wtExists /\ Continue(a, "judge") /\ UNCHANGED dirty
  /\ UNCHANGED <<wtExists, locked, staged>> /\ UNCHANGED historyVars
  /\ UNCHANGED refVars /\ UNCHANGED attemptVars /\ UNCHANGED hostVars

HeadMoved(a) == branch # base[a]

(* What comes after a run, by how it ended.                                 *)
Judge(a) ==
  /\ pc[a] = "judge" /\ LoopFree(a)
  /\ \/ /\ rc[a] = "limit"
        /\ \/ Untried(a) /\ Continue(a, "spawn")
           \/ ~Untried(a) /\ Return(a, "exhausted")
     \/ /\ rc[a] = "fail"
        /\ \/ Return(a, "bloat")      \* _is_coaching_bloat_error
           \/ Continue(a, "snap")
     \/ /\ rc[a] = "ok"
        /\ \/ Return(a, "deferred")   \* supervised run asks for approval
           \/ HeadMoved(a) /\ Continue(a, "test")
           \/ ~HeadMoved(a) /\ Continue(a, "snap")
  /\ UNCHANGED treeVars /\ UNCHANGED refVars /\ UNCHANGED attemptVars
  /\ UNCHANGED hostVars /\ UNCHANGED historyVars

(* The early-exit gate: pytest in the worktree.  No test paths count as a   *)
(* pass; the 300 s limit raises.                                            *)
RunTests(a) ==
  /\ pc[a] = "test"
  /\ \/ Continue(a, "early")
     \/ Continue(a, "snap")
     \/ Fail(a)
  /\ UNCHANGED treeVars /\ UNCHANGED refVars /\ UNCHANGED attemptVars
  /\ UNCHANGED hostVars /\ UNCHANGED historyVars

(* _git_snapshot of HEAD, for the chaperone.  A git command that exits with *)
(* an error shows nothing, one that raises leaves the whole diff empty, and *)
(* the patch is cut to 5000 characters, so that what is shown may also be a *)
(* part.  translate then repairs commit_count, by commands of its own that  *)
(* may fail as well, and never the diff.                                    *)
Snapshot(a) ==
  /\ \/ pc[a] = "snap" /\ Continue(a, "drop")
     \/ pc[a] = "early" /\ Continue(a, "push")
  /\ \E shown, counted \in {branch # {}, branch # {} /\ ~Faults} :
       seen' = [seen EXCEPT ![a] =
                  [held |-> branch, shown |-> shown, counted |-> counted]]
  /\ UNCHANGED <<rc, tried, base>> /\ UNCHANGED historyVars
  /\ UNCHANGED treeVars /\ UNCHANGED refVars /\ UNCHANGED hostVars

(* `git push origin`: its result is ignored, its time limit raises.         *)
PushEarly(a) ==
  /\ pc[a] = "push" /\ LoopFree(a)
  /\ \/ /\ FastForwards(origin) /\ branchExists
        /\ origin' = branch /\ Continue(a, "dropearly")
     \/ /\ ~FastForwards(origin) \/ ~branchExists \/ Faults
        /\ Continue(a, "dropearly") /\ UNCHANGED origin
     \/ Faults /\ Fail(a) /\ UNCHANGED origin
  /\ UNCHANGED <<branchExists, branch, ganglion, checkpoints>>
  /\ UNCHANGED treeVars /\ UNCHANGED attemptVars /\ UNCHANGED hostVars
  /\ UNCHANGED historyVars

(* _remove_worktree_if_inactive at the end of an attempt: refusals are      *)
(* logged and the tree stays.  The normal end then persists its report.  A  *)
(* time limit raises; so does a draining worker that cancels the wait, and  *)
(* the removal goes on in its thread.                                       *)
DropWorktree(a) ==
  /\ pc[a] \in {"drop", "dropearly"}
  /\ \/ wtExists /\ ~Occupied /\ ~locked /\ RemoveTree
     \/ (~wtExists \/ Occupied \/ locked \/ Faults) /\ UNCHANGED treeVars
  /\ \/ /\ cached' = IF pc[a] = "drop" THEN rc[a] = "ok" ELSE cached
        /\ Continue(a, "report")
     \/ (Faults \/ worker = "draining") /\ Fail(a) /\ UNCHANGED cached
  /\ UNCHANGED <<worker, stops, live>> /\ UNCHANGED refVars
  /\ UNCHANGED attemptVars /\ UNCHANGED historyVars

Report(a) ==
  /\ pc[a] = "report" /\ LoopFree(a)
  /\ \/ rc[a] = "ok" /\ Return(a, "success")
     \/ rc[a] # "ok" /\ seen[a].counted /\ Return(a, "incomplete")
     \/ rc[a] # "ok" /\ ~seen[a].counted /\ Return(a, "failure")
  /\ UNCHANGED treeVars /\ UNCHANGED refVars /\ UNCHANGED attemptVars
  /\ UNCHANGED hostVars /\ UNCHANGED historyVars

------------------------------------------------------------------------------
(* The worker process and the server's view of it.                          *)

(* SIGTERM: stop polling, let running attempts use the drain window.        *)
BeginDrain ==
  /\ worker = "up" /\ stops < MaxStops
  /\ worker' = "draining" /\ stops' = stops + 1
  /\ UNCHANGED <<live, cached, pc>> /\ UNCHANGED historyVars
  /\ UNCHANGED treeVars /\ UNCHANGED refVars /\ UNCHANGED attemptVars
  /\ UNCHANGED serverVars

(* A draining worker cancels an attempt outside of its harness run at one   *)
(* of its awaits, and the attempt raises: before a run, after it            *)
(* (_main_checkout_state), between runs and at a snapshot.  Set-up goes on  *)
(* in its thread, so that a cancelled wait for it raises at "prepare".      *)
Awaiting(a) ==
  \/ pc[a] \in {"prepare", "spawn", "autocommit", "snap", "early"}
  \/ pc[a] = "save" /\ Mode # "build"

CancelDrained(a) ==
  /\ worker = "draining" /\ Awaiting(a)
  /\ Fail(a)
  /\ UNCHANGED treeVars /\ UNCHANGED refVars /\ UNCHANGED attemptVars
  /\ UNCHANGED hostVars /\ UNCHANGED historyVars

(* Nothing runs any more: the drained worker exits.                         *)
StopWorker ==
  /\ worker = "draining" /\ \A a \in Attempts : ~Executing(a)
  /\ worker' = "down"
  /\ UNCHANGED <<stops, live, cached, pc>> /\ UNCHANGED historyVars
  /\ UNCHANGED treeVars /\ UNCHANGED refVars /\ UNCHANGED attemptVars
  /\ UNCHANGED serverVars

(* SIGKILL, OOM, power: every attempt on the worker is dead and says        *)
(* nothing.  Harnesses run in sessions of their own and may outlive it.     *)
Crash ==
  /\ \/ worker = "up" /\ stops < MaxStops /\ stops' = stops + 1
     \/ worker = "draining" /\ UNCHANGED stops
  /\ worker' = "down"
  /\ pc' = [a \in Attempts |-> IF Executing(a) THEN "dead" ELSE pc[a]]
  /\ live' \in SUBSET live
  /\ \/ UNCHANGED locked
     \/ /\ wtExists /\ (live # {} \/ \E a \in Attempts : Executing(a))
        /\ locked' = TRUE
  /\ UNCHANGED <<wtExists, dirty, staged, cached>> /\ UNCHANGED historyVars
  /\ UNCHANGED refVars /\ UNCHANGED attemptVars /\ UNCHANGED serverVars

(* systemd starts the worker again, which collects worktrees untouched for  *)
(* two hours before it polls: nothing there, too young, in use, or kept     *)
(* because a step failed, after the checkpoint at the latest ...            *)
Restart ==
  /\ worker = "down" /\ worker' = "up"
  /\ \/ UNCHANGED treeVars /\ UNCHANGED refVars
     \/ Faults /\ wtExists /\ ~Occupied /\ CanSave /\ Checkpoint
  /\ UNCHANGED <<stops, live, cached, pc>> /\ UNCHANGED historyVars
  /\ UNCHANGED attemptVars /\ UNCHANGED serverVars

(* ... or collected: checkpoint, remove, guard and delete the branch.       *)
RestartAndCollect ==
  /\ worker = "down" /\ worker' = "up"
  /\ wtExists /\ ~Occupied /\ ~locked
  /\ RemoveTree
  /\ checkpoints' = checkpoints \cup dirty \cup staged
  /\ \/ GuardPasses /\ branchExists' = FALSE /\ branch' = {}
     \/ GuardPasses /\ Faults /\ UNCHANGED <<branchExists, branch>>
     \/ GuardKeeps /\ UNCHANGED <<branchExists, branch>>
  /\ UNCHANGED <<origin, stops, live, cached, pc, produced, late>>
  /\ UNCHANGED attemptVars /\ UNCHANGED serverVars

(* The heartbeat timeout reveals an attempt that died with its worker.      *)
DetectDead ==
  /\ server = "started" /\ pc[current] = "dead"
  /\ Retry
  /\ UNCHANGED pc /\ UNCHANGED treeVars /\ UNCHANGED refVars
  /\ UNCHANGED attemptVars /\ UNCHANGED hostVars /\ UNCHANGED historyVars

(* The server gives up on an attempt that is still going: start_to_close,   *)
(* or the heartbeat timeout when nothing pulses, which is all of set-up and *)
(* all that comes after the harness has exited.                             *)
Lapse ==
  /\ CanLapse
  /\ server = "started" /\ Executing(current)
  /\ Retry
  /\ UNCHANGED pc /\ UNCHANGED treeVars /\ UNCHANGED refVars
  /\ UNCHANGED attemptVars /\ UNCHANGED hostVars /\ UNCHANGED historyVars

(* The workflow is cancelled or terminated (backend.stop).                  *)
CancelWorkflow ==
  /\ server # "closed"
  /\ server' = "closed" /\ outcome' = "terminated"
  /\ UNCHANGED <<current, reviewed, pc>> /\ UNCHANGED historyVars
  /\ UNCHANGED treeVars /\ UNCHANGED refVars /\ UNCHANGED attemptVars
  /\ UNCHANGED hostVars

------------------------------------------------------------------------------
Setup(a) ==
  \/ Gate(a) \/ CensusExisting(a) \/ CheckpointExisting(a) \/ RemoveExisting(a)
  \/ GuardBranchDelete(a) \/ DeleteBranch(a) \/ AddWorktree(a) \/ Prepare(a)

Run(a) == Spawn(a) \/ HarnessExit(a) \/ Interrupt(a) \/ Reap(a) \/ StopSave(a)

Finish(a) ==
  \/ AutoCommit(a) \/ SaveUncommitted(a) \/ CleanFailed(a) \/ Judge(a)
  \/ RunTests(a) \/ Snapshot(a) \/ PushEarly(a) \/ DropWorktree(a) \/ Report(a)

Harness(a) == HarnessWrite(a) \/ HarnessCommit(a) \/ OrphanExit(a)

Host == BeginDrain \/ StopWorker \/ Crash \/ Restart \/ RestartAndCollect

Server == StartAttempt \/ DetectDead \/ Lapse \/ CancelWorkflow

Next ==
  \/ \E a \in Attempts : Setup(a) \/ Run(a) \/ Finish(a) \/ Harness(a)
                         \/ CancelDrained(a)
  \/ Host \/ Server

Spec == Init /\ [][Next]_vars

(* Every step of translate ends: subprocess calls have time limits, the     *)
(* harness has _ACTIVITY_TIMEOUT and the drain window; systemd restarts the *)
(* worker; the server's timers fire.  Nothing is assumed of a harness, of   *)
(* an operator or of a stop of the worker.                                  *)
FairSpec ==
  /\ Spec
  /\ \A a \in Attempts : WF_vars(Setup(a) \/ Run(a) \/ Finish(a))
  /\ WF_vars(StopWorker) /\ WF_vars(Restart)
  /\ WF_vars(StartAttempt) /\ WF_vars(DetectDead)

=============================================================================
