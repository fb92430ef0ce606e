# Verification of mtor

mtor dispatches coding tasks to AI harnesses: a command line submits a task as a
Temporal workflow, a worker process on another host runs the harness in a git
worktree of its own, a chaperone reviews what it left, and approved work becomes
a pull request. This directory holds TLA+ models of the parts of it whose
correctness depends on order, failure and concurrency, the TLC runs that check
them and TLAPS proofs about them. Paths below are relative to `src/mtor/`.

## The system

| component | state it keeps | operations | interacts with |
|---|---|---|---|
| **translate** (`worker/translocase.py`, `worker/git_ops.py`) | worktree, branch, checkpoint refs, remotes, harness process, cached report | gates, worktree set-up, harness run, reap, auto-commit, checkpoint, clean, judge, test, snapshot, push, remove | Temporal (heartbeats, result), provider health, git, the harness |
| **worker host** (`translocase.main`, `_gc_worktrees`) | worker process, orphaned harnesses | start, drain on SIGTERM, crash, collect old worktrees | Temporal, systemd |
| **TranslationWorkflow** (`worker/workflow.py`) | stages, approval signals, results | execute activity, wait for approval, review, create PR, skip later stages | translate, chaperone, create_pr activities |
| **PlanWorkflow** (`worker/plan_workflow.py`) | pending, completed, failed, results | waves of children, blocking verdicts, `spec_completed` | child TranslationWorkflows |
| **WatchWorkflow** (`worker/workflow.py`, `watch_cycle` in `translocase.py`) | cycle, empty streak, stop flag | scan, batches of children, continue-as-new, stop | child workflows, spec files |
| **spec lifecycle** (`spec.py`, `reconcile.py`, `cli.py`, `dispatch.py`) | status, workflow id and verdict in the front matter of each spec | `--spec`, `dispatch-all`, `reconcile`, `list`, `rptor_done`, each reading and rewriting files without a lock | Temporal, the operator's editor, the watch |
| **provider health** (`worker/provider.py`, the loop of `translocase.py`) | circuit state, cooldown and failures per provider in a file; slots in memory | load, select, spawn, persist under a lock, fall back | concurrent translate activities |
| **process reaper** (`translocase._graceful_kill_group`) | the identities (number and start time) it tracks | look up the tree, terminate, scan, kill, refuse | the process table of the host |
| **dispatch** (`dispatch.py`, `dedup.py`, `backend.py`) | dedup file | admission, checkout and SHA gates, submit | worker host by ssh, Temporal |
| **deploy** (`infra.py`) | none; the worker's checkout and unit | publish, fast-forward, verify, wait for idle, restart, health check | worker host, git |
| **stall detector** (`translocase._heartbeat_stall_check`) | recent diff hashes, output sizes, three counters | tick, warn, kill | harness, reaper |
| **chaperone** (`worker/chaperone_review.py`) | none | verdict, score, flags, dossier | TranslationWorkflow |
| **spec graph** (`rptor.py`) | none | `_find_cycle`, `topological_sort`, `resolve_dag`, buckets, audit, ranking | watch, command line |
| **triage** (`triage.py`) | reviewed and archived ids, overrides | read-modify-write under a lock | command line |
| **salvage** (`autophagy.py`) | cherry-picks in progress | fetch, pick, test, roll back | ganglion remote |
| harness launchers, coaching, reports, diagnosis, command line | none of their own | build commands, render | all |

What is hard here. A task's attempts, the worker that hosts them, the harness
(which runs in a session of its own and outlives the worker) and the Temporal
server act concurrently on one worktree and one branch, both named after the
workflow id. Any of them can stop between two steps: SIGTERM starts a drain,
SIGKILL leaves an orphan and an `index.lock`, a git command fails, a push is
rejected, the server gives up on an attempt that goes on. Everything destructive
(`git worktree remove --force`, `git clean`, `git branch -D`) must come after
what it destroys has been saved, in every such order. Around it, commands of
several shells rewrite the same spec files without a lock, activities share one
health file and one set of slots, and a dispatch and a deploy look at a worker
that others push to, pull on and restart between two of their looks.

What makes each component correct:

* translate: no edit a harness made is lost; one harness at a time in a tree;
  the branch stays what the reviewed diff was taken of; a drain is retried, not
  reported; the activity completes.
* plan: nothing starts before its dependencies; nothing is skipped that could
  have run; every name is accounted for; the plan ends.
* workflow: a PR is made of reviewed or approved work only, once, and work that
  succeeded is proposed; a failed stage stops the later ones.
* health: no activity's result is lost from the file; slots count harnesses; a
  fallback goes somewhere new.
* reaper: nothing of the task is left, nothing else is signalled.
* stall detector: only silence kills, and silence does.
* specs: a file says done, failed or a verdict only on evidence; nothing starts
  before its dependencies are accepted; a running workflow is not forgotten.
* watch: a stop signal ends it, and so does having nothing to do.
* dispatch and deploy: a task that passed the gate goes to a worker that has its
  commit; a deploy that reports healthy has loaded what it deployed.
* chaperone: score, dossier and verdict agree; accepted work is whole.
* graph algorithms: equal to their definitions. Front matter: an update reaches the
  reader and changes nothing else.
* triage: what a command reported stays.

## Modules

| module | what it is |
|---|---|
| `Translate` | the translate activity of one task: attempts, worktree, refs, harness, worker host, server |
| `TranslateProps` | its properties and the inductive invariant |
| `Ledger` | abstract specification: work is volatile or durable and never let go |
| `MCTranslate` | instances for TLC (symmetry of edits, a view without dead locals) |
| `TranslateProofs` | proofs of the safety properties and of the refinement of `Ledger` |
| `LapseProofs` | proof that committed work survives even attempts given up on while they go on |
| `Translation` | TranslationWorkflow of one task on top of `Translate`: review, approval, pull request, cancellation; its properties and inductive invariant |
| `MCTranslation` | instances for TLC (the same view) |
| `TranslationProofs` | proofs of its safety properties, and that it still implements `Ledger` |
| `Plan` | PlanWorkflow, its properties and inductive invariant |
| `Precedence` | abstract specification: launch each spec once, in precedence order |
| `MCPlan` | instances for TLC |
| `PlanProofs` | proofs of the safety properties and of the refinement of `Precedence` |
| `Specs` | the commands that dispatch and settle specs, and the files they rewrite |
| `Watch` | WatchWorkflow over the same files; liveness |
| `MCSpecs` | crews of shells and the watch, for TLC |
| `SpecsProofs` | proofs of the safety and action properties of both |
| `Health` | circuit breaker file, slots and fallback loop of concurrent activities |
| `Reap` | `_graceful_kill_group` against a process table |
| `Stall` | the stall detector as an automaton |
| `Dispatch` | dispatch and deploy beside the machines they look at |
| `Triage` | the triage store under its lock |
| `Verdict`, `Review` | the chaperone's functions of a result; what they must satisfy |
| `SpecGraph` | what `rptor.py` makes of a plan directory, as operators: ready specs, buckets, audit, ranking |
| `SpecOrder` | its search for a cycle and its sort, step by step |
| `FrontMatter` | reading and rewriting front matter, line by line |
| `MCParts` | the parts above, from `Health` on, in one run, each in behaviours of its own; reference definitions |
| `PartsProofs` | proofs about `Triage`, `Health`, `Reap`, `Stall` and `Review` |
| `DispatchProofs` | proofs about `Dispatch` |
| `OrderProofs` | proofs about `SpecOrder` and `FrontMatter` |

### Translate

An *edit* is a change some harness made. Commits only add edits, so a ref is the
set of edits its history holds, *ancestor of* is `\subseteq`, and a push is
accepted exactly when it extends what the remote has (`FastForwards`). The
worktree is `wtExists`, `dirty` (files), `staged` (index) and `locked` (an
`index.lock` without an owner, left by a git command killed halfway). `branch`,
`ganglion`, `origin` and `checkpoints` are the places that outlive it; their union
is `Durable`.

Each attempt `a` has a program counter `pc[a]`. Its values follow `translate`:

* `gate`: concurrency, capability and syntax gates, cached report (`Gate`);
* `census, ckpt, rm, guard, delete, add`: `_create_worktree`, one action for each
  subprocess step, because set-up runs in a thread and every other actor can move
  between two of them;
* `prepare, spawn, run, reap`: `_detect_prior_commits` and `pre_sha`, the harness
  and `_graceful_kill_group`;
* `stopsave`: the timeout and cancellation branches; `autocommit, save, clean,
  judge`: what follows a normal end. `LoopFree` keeps other attempts out of the
  synchronous stretch between `await`s;
* `test, early, push, dropearly` and `snap, drop, report`: the early-exit gate and
  the normal end.

`HarnessWrite` and `HarnessCommit` are enabled as long as a process of that
attempt's harness lives (`live`), whatever the attempt is doing; `OrphanExit` ends
one whose attempt is gone. `Crash` kills attempts, not harnesses. `Restart` and
`RestartAndCollect` are `_gc_worktrees` before the worker polls again.
`Retry`, `DetectDead` and `Lapse` are the server: the retry policy, the heartbeat
timeout of a dead attempt, and the timeouts that expire on one that goes on
(`CanLapse`). Reports of attempts the server no longer counts are dropped
(`Listening`). A lapse may come at any step: set-up has no heartbeat before the
harness runs, and its commands' time limits add up to more than the six minutes of
the heartbeat timeout.

Two histories record what the code loses. `misread` are the commits, on no remote, of
a branch whose guard let it be deleted because `git log main..branch` exited with an
error, which `_branch_has_unmerged_commits` reads as "nothing unmerged"
(`git_ops.py:711`): under `Faults` in any repository (`LogFails`), always where there is
no main. `late` are commits that land between a guard's look at the branch and the
delete. `NoWorkLost`, `WorkIsKept` and `ReviewedIsKept` except `misread`, and
`CommittedWorkKept` both; `EveryEditIsHeld` excepts nothing and is violated.

`Snapshot` is `_git_snapshot` and the repair of its `commit_count`. It records the
commits HEAD held (`held`), whether the diff shows anything (`shown`) and whether the
count says that there are commits (`counted`). When a git command fails the diff is
empty and stays so; the count may still be repaired; a long patch is cut. So the
properties about reviews say which commits the branch and the pull request hold, not that
the chaperone was shown all of them: work is approved on its count alone (`Evidence` in
`Translation`).

`Occupied` is the census of `_worktree_has_live_process`, which in the code sees a
process by its cwd or an open file in the tree; a live harness is taken to have one.
`Awaiting` are the steps at which a drain can cancel an attempt outside of its harness.

Operators described as "... with a bug" (`StashWithoutRef`, `ForcePush`,
`RetryWithoutEnd`, ...) are not part of the specification. They stand before the
definition they distort and record which mistake each property would notice.

### Translation

Extends `Translate` with what the workflow does around the activity. `phase` is
where `_execute_one` is: `translate`, `review` (the chaperone activity), `await`
(the wait for a decision on a deferred run), `pr` or `ended`. `Conclude(v)` is the
end of `_execute_one` from the verdict on, the branch into `create_pr` included;
`TranslateReturns`, `Chaperone`, `ChaperoneFails`, `Decided`, `ApprovalTimesOut`
are the ways there. A step of `Translate` is `Next /\ Follow`: only a worker that
goes down matters to the workflow, because a `create_pr` attempt dies with it.

`create_pr` runs in a thread, so it is three steps, `CheckAhead`, `PushBranch`
and `CreatePr`, between which everyone else moves: the collector of a restarted
worker may delete the branch. Each command can fail, time out, or succeed with its
answer lost; the attempt is made at most `PrAttempts` times. It outlives a workflow
that was cancelled or terminated. `pr` is what GitHub has and `prResult` what the
workflow's result says; after a lost answer the two differ, which the code accepts.

`Cancel` is `batch-cancel` (cooperative), `Terminate` is `mtor cancel` and `mtor
terminate`, which both stop a workflow at once. A decision (`Decision`) is a
signal: it may come at any time and more than once.

The chaperone's flags are text matching and are a choice; what its verdict can be
for each outcome is modelled. A result answered from a cached report shows no
commits and names no branch, so it is never proposed.

### Plan

Specs are slots of the list the workflow gets; names are numbers in the order the
code sorts them. A name may be used twice and a dependency may name no slot. A
wave (`Dispatch`) starts every ready spec; `ChildCloses` and `ChildRaises` are a
child's ends; `Block` is the walk over what can never be ready, with its verdicts;
`SpecCompleted` is the signal; `Stop` is a cancellation. Child ids are built from
names, so the second of two slots of one name in a wave clashes (`Clashes`).

### Specs and Watch

A spec file is its status, workflow id and verdict (`file`); `torn` are the files
a command has opened for writing, and so emptied, and not yet written. An empty file
has no front matter and parses as a ready spec without dependencies, id or tests
(`Parsed`). `proc[p]` is a shell with one command at a time, holding what the code
holds in local variables: the specs left to look at (`todo`), the dependencies,
front matter or executions read at the start (`deps`, `seen`, `runs`), and the
update under way (`spec`, `buf`, `new`).

`StartSpec` is `mtor --spec`; `StartAll`, `Validate` are `dispatch-all`, which scans
once and reads each candidate again; `Submit` and `SubmitFails` are
`_dispatch_prompt`, which starts the workflow before the file is marked, so that a failed
one may leave a workflow no file names.
`StartReconcile` and `Describe` are `reconcile_all`, which decides about what it read
at its start; `StartList` and `Match` are `reconcile_workflow_specs`, which asks
Temporal first and reads the file afterwards: of each spec the first run that is listed,
and with filters and a limit that may be any of its runs, or none; `StartDone` is `rptor_done`. All write
by `update_spec_status`: `Read`, `Open`, `Write`. `Decision` is `reconcile_spec`.
`Die` kills a command anywhere; `Ends`, `Lands` and `Edits` are workflows, commits on
main and the operator's editor.

`Watch` adds the workflow that scans the directory (`Scans`), runs what is ready in
batches (`Launch`, `KidEnds`, `KidFails`), and at the end of a cycle continues as new
or ends (`EndOfCycle`). `Halts` is the stop signal, looked at before each scan and
batch; `ScanFails` is the activity that fails, which the workflow treats as a cycle
with nothing to do. Children of the watch name no run in the files. `Scan` reads all
files in one step, where `scan_specs` reads one after the other.

### Health, Reap, Stall

`Health`: `disk` is the health file, `active` the worker's slot counts, `task[t]` what
an activity holds in its variables, the health dictionary it loaded or merged last
included. The steps between two `await`s are one action. A clock tick is half an
hour, so that an instant between two saves has a number of its own. `limits` and
`leaked` are history.

`Reap`: a process is a number and a birth; a dead process's number can be given away.
One step of the reaper is one look at the table, or one check of start times with the
signals that follow it, which is the window `_signal_verified_processes` accepts.
A process of the task may leave the group, the worktree and the environment that
carries the attempt's marker.

`Stall`: a tick is a diff hash and whether output grew. `tick`, `warnings` and the two
histories `quiet` and `still` count no further than any comparison looks.

### Dispatch and Triage

`Dispatch`: a commit is the set of its ancestors, so *contains* is inclusion and
`merge --ff-only` and `push` only grow. `visible` is the `origin/main` a fetch from the
worker sees, which may lag behind a push. `dispatch` and `deploy` are the two commands,
one step for each ssh call or git command; a refusal, an error or a time-out of any of
them is `Refused` and `DeployFails`. The world between two of their steps: commits,
pushes of others, `git pull`, the germline timer, a CI run that detaches HEAD in the
checkout (`pinned`; `WorkerHead` is what `git rev-parse HEAD` finds) and may leave it there,
harnesses that start and end, and a unit that drains, fails or restarts. A process that
starts reads mtor's checkout, and nothing of germline, which every task reads for itself
(`Load`). The gate compares the local commit with a HEAD it read before it waited for CI;
`borrowed` records that CI took or gave back the checkout since.

`Triage`: `review`, `archive` (`--all-reviewed` included) and `verdict` by several
terminals, as lock, load and save, with deaths at each. The load of a file that cannot be
read gives an empty store (`Loaded`), and the save makes that true; `told` holds what was
saved since that last happened.

### Verdict, SpecGraph, SpecOrder, FrontMatter

`Verdict` and `SpecGraph` are functions, written as operators. What a regular
expression finds in a text is an input of `Verdict`, and so is the numstat, a row for
each file; thresholds, caps and orders are in the model.

`SpecOrder` is a state machine: the depth-first search of `_find_cycle` with its stack
(`path`, and in `pos` how far each call has come), a step for each name it starts from,
each dependency it looks at and each return (`finished` is the history of those), then
Kahn's algorithm of `topological_sort`, a step for each name taken. Its properties
compare both with the definition of a cycle and of a precedence order.

`FrontMatter` has the reader of `rptor.py` (`Reading`: what it holds after each line) and
the regular expressions that `update_spec_status` rewrites with, `\s*` running over the
end of a line included. `UpdateKeepsTheRest` is about `Tidy` files, as `mtor init` and
the updates themselves leave them: each lifecycle field at the margin, with a value and
nothing under it, and the items of a list evenly below the key that starts it.
Everything else may come in any order, twice, nested or with blank lines between.
Outside of that the property fails, as the list of divergences below says. A line of
white space alone is read as an empty one.

## Runs

| run | instance | what it shows |
|---|---|---|
| `translate_build` | 3 attempts, 2 providers, 2 stops, 2 edits, build, faults | no edit lost but what a guard misread, one harness, branch = what the snapshot was taken of, drains retried, `Ledger` implemented, inductive invariant holds (1.36 million states) |
| `translate_lapse_research` | 2 attempts, 1 provider, 1 stop, 1 edit, research, faults, lapses at any step | committed work kept beside a zombie attempt, but for `misread` and `late`; the activity completes (0.58 million states) |
| `workflow_review` | 2 attempts, 1 provider, 1 stop, 2 edits, build, faults | what is proposed is what the reviewed diff was taken of, and was accepted; it is kept, but for `misread`; inductive invariant holds, the workflow ends (1.25 million states) |
| `plan_waves` | 3 specs, 3 names, 1 signal, every plan | order, reasons, accounting, `Precedence` implemented, the plan ends (0.4 million states) |
| `specs_watch` | 2 specs, one depending on the other, 2 runs; crews of 1 or 2 shells, 1 edit; batches of 2, 3 cycles, stop after 2 | outcomes earned, dependencies first, running work kept, the watch stops and tires (0.70 million states) |
| `parts` | see below | the safety of each part that stands alone, and its functions (1.07 million states) |
| `retry_prior`, `retry_fresh`, `lapse_loses`, `master_loses`, `cancel_proposes`, `plan_rejected` | the smallest that shows it | see below |

Bounds. `MaxAttempts = 3` is the retry policy's maximum for mutating modes; two attempts
already give a predecessor, a successor and every leftover between them, and the proofs
cover every number. `MaxProviders = 2` gives one fallback. `MaxStops` bounds drains and
crashes: two allow a crash during the attempt that follows a crash. Two edits let one be
committed and another not, and two histories diverge. Beside lapses one edit is what
fits the time limit; histories that diverge under a lapse are covered by the theorem
`CommittedSurvives`. In `workflow_review` one stop puts a crash or a drain with its
collector at any point of translate, of the review or of `create_pr`, and `PrAttempts =
2` is the code's retry policy. In `plan_waves` three specs hold chains, forks, joins,
two- and three-cycles, missing names and twins, and three waves; the proofs of the
safety properties cover every number.

In `specs_watch` two specs give a dependency, and two shells every overlap of an
unlocked read with a write; two runs give a spec a newer run than the one its file
names. Crews are pairs that can meet on a file: two that dispatch, of which one settles;
one that dispatches and one that settles; one that does everything after an edit has
asked for a spec again; one beside the watch. Three cycles and a streak of two let the
watch tire before it continues as new.

`parts` has eight kinds of behaviour, a part each. `Health`: two activities, two routed providers,
one that a task may name, a retired one, windows of one and two hours, one hour of
clock, two rate limits and a restart. `Stall`: every sequence of ticks, with the
thresholds scaled down in the code's order (4, 20, 12, 30, 60, 30 and 3 in the
code); `MaxQuiet` lies beyond `Patience`. `Reap`: three process numbers and two
births, so that the wrapper's number can be given to a stranger who has a child.
`Dispatch`: two commits, two merges, one harness. `Triage`: two ids, two terminals.
`Review`: every combination of findings with changes below, at and above each
threshold of the numstat. `SpecOrder`: the empty directory, and all of three names with
up to two dependencies each over four names, one of them missing. `FrontMatter`: files
of up to three fields in any order, lists and nested dictionaries and a blank line
among them, and the two templates of `mtor init`.

`VIEW` in the three runs of `Translate` and `Translation` leaves out the locals of
attempts that have ended (`rc`, `tried`, `base`, `seen`), which no action or property
reads again.

`CHECK_DEADLOCK FALSE` is set because the systems end: a closed activity whose
attempts are over, a finished plan, shells that have died, a killed harness.

Fairness (`FairSpec`). Each attempt's own steps are weakly fair: subprocess calls
have time limits, the harness has `_ACTIVITY_TIMEOUT`, the drain has its window.
systemd restarts the worker; the server starts scheduled attempts and its
heartbeat timer reveals dead ones. Nothing is assumed of a harness, of an operator,
of a stop of the worker, nor that a git command ever succeeds. For plans, the
workflow task runs when it can and each child closes, which is what
`EventuallyClosed` and `WorkflowEnds` show. `WorkflowFairSpec` adds that the
workflow task runs when it can and its timers fire (review 2 minutes, approval 30),
and that a scheduled `create_pr` starts on a worker that is up; no decision, no
cancellation and no success of a command is assumed. For the watch (`Fairness` in
`Watch`), its workflow task runs when it can, its scan activity has a time limit, and
each child ends, which `WorkflowEnds` shows; no shell is assumed to do anything.

### Where code and text disagree

* `retry_prior`: `_detect_prior_commits` promises that a retry finds an earlier
  attempt's commits (`git_ops.py:882`). It looks in a worktree made from HEAD after
  the old branch was pushed and deleted; it never does.
* `retry_fresh`: "each retry runs in a fresh worktree" (`workflow.py:45`). If the
  first two attempts both committed, their histories diverge, the guard's push is
  rejected, the branch stays and `worktree add -b` fails; no git fault is needed.
* `lapse_loses`: work is to be preserved "before every later force-remove"
  (`translocase.py:1926`). When the server gives up on an attempt that goes on, it and
  its successor have the same worktree. Whichever removes it does so with what the other
  one's harness has written since the checkpoint.
* `master_loses`: without the guard a committed tip "becomes a dangling object"
  (`git_ops.py:719`), and with it, too: it asks `git log main..branch` and takes failure
  for "nothing unmerged" (`git_ops.py:704`). On a repository whose default branch is
  master it deletes unpushed commits with no fault at all; on main one failing `git log`
  does it (`misread`).
* `cancel_proposes`: `batch-cancel` is to "Cancel all workflows" (`cli.py:2355`). A
  workflow cancelled while the chaperone runs takes the cancellation for a failed
  review (`workflow.py:222`): a run that exited 0 then counts as approved and a pull
  request is opened.
* `plan_rejected`: a child whose tasks were rejected must not satisfy a dependency
  (`plan_workflow.py:105`); success is counted before the review.

The other modules hold more of these. They have no run of their own: the model does
what the code does, and a property that meets one excepts it by name.

Processes and slots:

* A stop on normal completion looks the tree up by the wrapper's number, which may
  have been given away since (`translocase.py:1756`, `634`), although signals are to
  reach only what was verified (`633`, `649`): `replaced` in `ReapIsExact`. What forks
  after the last look escapes.
* A slot is never given back when a stall kill could not be verified
  (`translocase.py:1885`), against the comment at `1683`: `leaked` in `SlotsAreRunning`.
* The stall detector's docstring kills on the second warning, the code on the third
  (`translocase.py:1171`); the comment's five minutes are twenty ticks of 30 seconds.

Providers:

* The round-robin index is never saved, and half-open is never on disk: both are
  set on a copy. A provider that was asked for is used although its circuit is open.
* What was tried is masked for one hour. With cooldowns that are longer a fallback
  may go back to a tried provider: the exception in `FallbackIsFresh`.

Review:

* A file that lost most of its lines and gained one is not flagged when the change
  adds more elsewhere (`chaperone_review.py:80`, whose comment names large deletions
  hidden by additions; only a file with no added line is checked for that).
* Read-only work can be approved with a dossier that lists blocking flags.

Specs and front matter:

* A key without a value swallows the next line when it is set; a file without a
  `status:` is never marked; list items at the margin are dropped when nothing
  started a list; `depends_on: []`, which `mtor init` writes for a plan, is
  one dependency called `[]` to the reader and none to validation.
* A verdict in the file wins over the run's (`reconcile.py:205`), an error while asking
  is "not found" and makes the spec ready again, a run that timed out leaves it
  dispatched for good (`241`), and between reading and writing a decision about
  an old run can overwrite a new dispatch (`317`): what `Excused` lists.
* `dispatch-all` looks at no freeze, pause or dedup window (`cli.py:4628`); the watch
  at no freeze. A watch child changes no status, so its spec is run again each cycle.
* `mtor ragulator` starts the watch without `stop_after_empty`; continue-as-new comes
  before the empty streak is looked at and resets it (`workflow.py:517`).

Dispatch:

* The gate looks at the worker's checkout, not at the process: only a dispatch that
  deployed by itself knows that the process has read the commit
  (`dispatch.py:494`, `AutoDeployLoads`). A failed count of harnesses opens the drain
  guard.
* The gate reads the worker's HEAD (`dispatch.py:445`), may wait 15 minutes for CI to give
  the checkout back, and compares with what it read before (`466`). A commit CI had
  detached HEAD at passes, though main in the checkout lacks it: `borrowed` in
  `SubmitContained`. The commit is on origin/main all the same.

Triage:

* `load_triage` takes a file it cannot read or parse for an empty one, and the next
  command's save overwrites it (`triage.py:150`): `TriageKeepsReports` is about what was
  reported since.

Not modelled, met while reading: an aborted cherry-pick in `autophagy.py` leaves
earlier picks staged, and a failed test run resets over the operator's edits.

## Proofs

`TranslateProofs` assumes what `translate_build` has: no attempt is given up on
while it goes on (`~CanLapse`). The violation `lapse_loses` shows that this cannot be
dropped for `NoWorkLost`. The number of attempts, providers, stops and edits, the mode,
the default branch and the faults are arbitrary.
None of the safety properties is inductive. The invariant `IndInv` says who may be
executing (`Alone`: only the attempt the server counts), what lives in the tree
(`Tidy`), what an attempt may rely on where it is (`Phase`: at which steps nothing
lives in the worktree, at which its contents are durable, at which there is no tree,
at which a deletable branch is on a remote or was misread, at which the branch is what
the snapshot was taken of)
and that nothing moves after an accepted success (`Settled`). There is a lemma for
each action. What an attempt's step does to program counters and server is common
to all (`Advance`), and `Assemble` turns an action's own part into `IndInv'`.
`TypeCorrect`, `WorkSurvives`, `HarnessesExclude`, `ReviewedIsBranch` and
`DrainRetries` follow from it; `ImplementsLedger` shows each step to be a `Produce`, a
`Secure` or a stutter of `Ledger`.

`LapseProofs` assumes nothing of the constants: uncommitted work can be lost when two
attempts go on beside each other, and what a ref, remote or checkpoint holds is lost in
two ways only, both named (`CommittedSurvives`). The invariant (`LInv`) is that a branch
some attempt is about to delete holds nothing but what is on a remote, misread or late;
so the delete takes nothing else, however many attempts are in their set-up at once.

`TranslationProofs` rests on the lemmas of `TranslateProofs`: a step of `Translate`
preserves `IndInv` whatever the workflow does beside it, and `create_pr`, the one
part of the workflow that touches a ref, only moves `origin` forward to the branch.
`WorkflowInv` adds that the workflow does not get ahead of the activity (`Ahead`:
nothing is reviewed before the server has closed it) and what `create_pr` is run
for and has pushed (`Pushed`). Once a success is accepted only the collector and
`create_pr` move refs, and the collector deletes a branch only after it is on
`ganglion` or misread. From it follow `ReviewedIsProposed`, `AcceptedIsProposed`,
`ReviewedSurvives`, and with `StepsOfLedger` that the whole workflow implements
`Ledger` (`WorkflowImplementsLedger`). The assumptions are those of
`TranslateProofs`.

`PlanProofs` proves `PlanInv`, whose `Waves` ties the sets the code keeps to what
became of each spec; order and reasons follow. That every name is accounted for
needs the slot of its name the walk meets first, a least element (`FirstSlot`).
`ImplementsOrder` is the refinement of `Precedence`.

`SpecsProofs` proves the three properties of the files for every set of specs, shells
and commands. None of them is inductive: a shell may write tomorrow what it read
today. The argument is that evidence only accumulates (`EvidenceGrows`: no step takes
back an operator's word, a commit or an ended run), so what was justified when it was
read is justified when it is written. `SpecsInv` says so of every front matter, listed
execution and pending change a shell carries (`ShellSound`), and that a change
which drops a workflow id is about a run that has ended or was reported missing
(`DropsEnded`). Each command has a lemma; `ShellMoves` and `QuietMove` are what they
have in common. `NextIsThere` shows that the `CHOOSE` of the next spec picks what it is meant
to, by a least element of the naturals; whichever of a spec's runs a listing gives, it
is one of them (`ListingsSound`). `WatchInv` adds what the watch
has in hand: the specs of a scan do not wait for one another, since what a ready one
needs is done, so each step of a batch finds a next spec (`BatchIsSmall`, on the
recursive function `First`, by a least counterexample); a scan or a batch starts only
when no child runs. So no more children run than `max_concurrent`, none twice in a
cycle (`BatchesAreBounded`), and what they depend on was accepted
(`DependenciesComeFirst`). `SpecsTypes` is type correctness of the files, workflows,
shells and watch, with the bound of the empty streak.

`DispatchProofs`: nobody but CI takes a commit away from HEAD of the worker's checkout, CI
touches germline's alone, and nobody takes one from its main or from origin/main
(`OneLine`). So what a command saw in HEAD stays there unless CI came or went, and stays on
origin/main even then (`ReadIsThere`); a process that starts reads mtor's checkout, and a
restart that is over has loaded what was in it (`RestartLoads`). No assumption on who
pushes, pulls, borrows or restarts when.

`PartsProofs`: for `Triage`, that the holder of the lock is about to save its change on
top of what is in the file, or of nothing if it could not read it (`LockHeld`,
`SavesOnTop`). So every replacement of the file is one command applied to one of the two
(`NoUpdateIsLost`), and a change takes back nothing (`MutatedShape`). For `Health`, that
the file says of a provider what happened to it since its last success, and that slots
count harnesses: `SlotMove` shows for a step of one task how the number of running
harnesses changes, with the cardinality theorems of the library. `RoutingTypes` and
`FallbackGoesOn` need to know that `select_provider` returns a provider at all: how many
come before one in the priority list tells the available ones apart, so their places are
0, 1, ... without a gap, and the round-robin index modulo their number hits one (`Nth`).
That it is fresh follows from when cooldowns end: those on file at a tick, those of tried
providers in between (`HealthInv`).

For `Reap`, that number and start time identify a process: births only grow, so a look
is outlived only by what it saw (`Endures`, `Visible`) and what is on record is found
again or dead (`AllSeen`); being the task's is inherited and the marker implies it
(`Lineage`), so what is on record may be signalled, unless the tree was looked up from
a process that had been given the wrapper's number (`RecordsMine`). Nothing is assumed
of how processes fork, leave or die. For `Stall`, that the samples kept and the history
agree (`QuietSeen`, `StillSeen`, `SeenQuiet`, about as many samples as the window has):
what a rule compares was a silence of that length (`KilledOnlyWhenSilent`), and in a
silence one of the two counters keeps up with it, to within the ramp and the window
(`NobodyWaits`). It holds for all thresholds with a ramp of at least two ticks (with a
ramp of one the first tick, which has nothing to compare with, would count as silent),
and for any bound on the histories beyond what the comparisons look at.

For `Review`, its two properties hold for every result; the sum over a numstat need not
be known for them, so no bound on files is needed.

`OrderProofs`, the search: the names it has returned from form a list in which everything
a name depends on is before it (`FinishedInOrder`), and below the top of the stack each
name is a dependency of the one before (`PathIsWalk`). So a dependency met on the stack
closes a cycle, and no name of the list is on one, which needs a least element of the
list (`NoKnot`); a search that ends without a cycle has every name in the list. The
sort: a name's degree counts the dependencies that are still to come
(`DegreeCountsTheRest`), so a name taken at zero has all of them before it; and what is
never taken would hold a knot. `SearchIsExact` and `SortIsComplete` follow for every set of
directories.

`OrderProofs`, the front matter: `UpdatesAreRead` proves `UpdateKeepsTheRest` for every file
of any length. The prover has no induction over data, so the argument runs through
least counterexamples: `ReadingUnfolds` shows with one that the recursive function of
the reader exists and obeys its equation, and `LineByLine` turns another into induction
on line numbers. Two readers go through the old and the new file beside each other
(`Carries`, `Beside`). A line of any other field is the same in both and has the same
lines under it (`SameUnder`, `SameFollowing`); a line of the field itself, with a value
and nothing under it, changes nothing else a reader holds. It cannot be swallowed by a
list or a block either: what is open is no lifecycle field, and what is skipped is off
the margin (`Held`). Rewriting and removing carry the lines so because the pattern's
matches in a tidy file are single lines (`PlainMatch`); appending is removing, read
backwards. `UpdateChanges` puts the seven edits of an update together. The one
assumption, `MatterAssumption`, says that files hold lines and that what is written is text.

Only model-checked: `EventuallyClosed`, `WorkflowEnds`, `EventuallyEnds`, `WatchStops` and
`WatchTires`, as liveness is out of the provers' reach here. Every invariant and every
action property of a run, and both refinements, have a theorem. `BatchesAreBounded`,
`NoUpdateIsLost` and the type theorems other than `TypeCorrect` state what no run of
`runs` checks, or checks inside an inductive invariant alone.

## Not modelled

In translate: scout mode (it has no worktree), paths (denylisted files, renames),
amended or rebased history (commits only add), `_reap_landed_branches` (branches
whose PR landed), the sweep that kills processes in deleted worktrees (in the model
a tree in use is never deleted), the main-checkout guard flag, output
normalisation, tracing. `Health`, `Stall` and `Reap` model the slots, the
stall detector and the kill on their own and are not composed with `Translate`, where
a harness may exit at any time. Several tasks in one workflow share a worktree name;
every dispatch path creates one task, and so does the model.

In TranslationWorkflow: several stages and the skipping of later ones, the summary,
search attributes. PlanWorkflow is modelled from its own code and tests; the worker
registers only TranslationWorkflow and WatchWorkflow (`translocase.py:2402`).

Around the watch: the merge of ganglion into the operator's checkout (`sync.py`), the
local loop of `watch.py`, and `ragulator`'s start and status. In dispatch: prompts, risk
classes, and the dedup store, a guard against repeated prompts whose two
file accesses are not locked. Workflow ids carry the second they were made in; two
submissions in one second share a run (`backend.py:195`), which the model makes two. In
deploy: what `uv sync` does, and the retirement of the old unit. In health: the
capacity helpers no dispatch path calls, and a corrupt health file.

Salvage (`autophagy.py`) is one command of one operator with no interleaving.
Harness launchers, coaching, reports, `doctor`, `tree`, `scan`, `audit` and rendering
keep no protocol state. `mtor terminate` and rictor also kill processes by patterns in
their command lines, and what such a pattern matches is text, which no model here has.

## What is left

In the order of what it would add:

1. Stages of TranslationWorkflow, where a stage with a result that was not approved
   skips the later ones.
2. `Reap` composed with `Translate`: a stop that refuses because somebody uses the
   worktree, and what the attempt then leaves.
3. `Watch` children as `Translation` instances, with the salvage of what they leave on
   ganglion.

Worth proving next: which of the workflow's properties survive when the server gives up
on attempts that go on (`TranslationProofs` assumes it does not), and that a batch of
the watch is the head of the sorted list, which needs `First` to be compared with
`SpecOrder`'s sort.
