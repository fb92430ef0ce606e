---------------------------- MODULE TranslateProps ----------------------------
(***************************************************************************)
(* The properties of Translate.                                            *)
(***************************************************************************)
EXTENDS Translate

(* Edits that outlive the worktree, and those a guard misread.              *)
Kept == Durable \cup misread

(* No edit a harness made is lost: it is in the worktree's files or index,  *)
(* in the branch, on a remote or in a checkpoint ref.  This is what         *)
(* translocase.py:1926 asks of every later force-remove, and the branch     *)
(* guard of every force-delete, across attempts, crashes and collections.   *)
(* The one exception is the guard's own: what was on a branch when its `git *)
(* log` exited with an error, which it takes for "nothing unmerged".        *)
NoWorkLost == produced \subseteq dirty \cup staged \cup Kept

(* Two harnesses never edit the worktree at once: not the harness of a new  *)
(* attempt beside one that outlived a crashed worker or its own kill.       *)
OneHarness == Cardinality(live) <= 1

(* Nothing lands on the branch after the snapshot that a successful result  *)
(* carries: the branch holds what HEAD held then, commit for commit, so     *)
(* that a diff of the branch is what the chaperone's diff was taken from.   *)
(* It is not that the chaperone saw all of it: the diff may be cut, or      *)
(* empty when a git command failed.                                         *)
NothingUnreviewedOnBranch ==
  outcome = "success" /\ branchExists => branch = reviewed.held

(* A worker that is stopped under a task never makes the task's result a    *)
(* "cancelled" run: the attempt it interrupts raises instead                *)
(* (workflow.py:43), whatever it was doing when the drain began.            *)
DrainIsNoResult == outcome # "cancelled"

(* The worker implements the ledger: every step of every actor leaves each  *)
(* edit where it is, makes it durable, or produces a new one; what is       *)
(* durable (a pushed tip, a checkpoint, an old branch) is never dropped,    *)
(* but for what a guard misread.                                            *)
Work == INSTANCE Ledger
          WITH volatile <- (dirty \cup staged) \ Kept, durable <- Kept
WorkIsKept == Work!LedgerSpec

(* What a branch, a remote or a checkpoint holds stays in one of them, even  *)
(* when the server gives up on an attempt that goes on and its successor    *)
(* works beside it.  Two things go with a deleted branch: what its guard    *)
(* misread, and commits that landed between a guard's look at the branch    *)
(* and the delete, which takes an attempt that is still in its set-up when  *)
(* its successor's harness commits.                                         *)
CommittedWorkKept == [][Durable \subseteq Durable' \cup misread' \cup late']_vars

(* The activity always completes: no crash, drain, orphan, stuck lock or    *)
(* kept branch leaves the workflow waiting for ever.                        *)
EventuallyClosed == <>(server = "closed")

------------------------------------------------------------------------------
(* What the sources say that the code does not do.                          *)

(* git_ops.py:719 "Without this guard, a committed-but-unpushed tip becomes *)
(* a dangling object": with it, none does.                                  *)
EveryEditIsHeld == produced \subseteq dirty \cup staged \cup Durable

(* git_ops.py:882 "Find recent commits from a prior killed attempt so       *)
(* retries can resume": when an attempt starts its harness, the commits an  *)
(* earlier one made are among those it has found in its worktree.           *)
RetrySeesPriorCommits ==
  \A a \in Attempts : pc[a] = "spawn" => ganglion \subseteq base[a]

(* workflow.py:45 "each retry runs in a fresh worktree": no attempt is      *)
(* refused its worktree, when every git command does what it is asked.      *)
RetryGetsWorktree == \A a \in Attempts : pc[a] # "noworktree"

------------------------------------------------------------------------------
(* The inductive invariant behind the safety properties, for an instance    *)
(* in which no attempt is given up on while it goes on: then at most one    *)
(* attempt is ever executing, and the phases below say what it may rely on. *)

(* Steps at which the attempt has seen to it that nothing lives in the      *)
(* worktree, those at which what the tree holds is durable as well, those   *)
(* at which there is no tree, at which the attempt has its branch, and at   *)
(* which its result is settled.                                             *)
BareSteps   == {"guard", "delete", "add"}
SavedSteps  == {"rm", "guard", "delete", "add", "prepare", "spawn", "clean",
                "judge", "snap", "test", "early", "push", "drop", "dropearly"}
QuietSteps  == {"ckpt", "stopsave", "autocommit", "save", "report"} \cup SavedSteps
FirstSteps  == {"idle", "gate", "census", "ckpt", "rm", "guard", "delete", "add",
                "prepare"}
BranchSteps == {"prepare", "spawn", "run", "reap", "stopsave", "autocommit",
                "save", "clean", "judge", "snap", "test", "early", "push",
                "drop", "dropearly", "report"}
ReportSteps == {"push", "drop", "dropearly", "report"}

(* Only the attempt the server counts executes, and not before it has been  *)
(* started.                                                                 *)
Alone ==
  /\ \A a \in Attempts : Executing(a) => a = current /\ server # "scheduled"
  /\ \A a \in Attempts : a > current => pc[a] = "idle"
  /\ server = "scheduled" => pc[current] = "idle"

(* Harnesses live in the worktree, one at a time; where there is no tree or *)
(* no branch there is nothing in it, and a tree has its branch.             *)
Tidy ==
  /\ live # {} => wtExists
  /\ \A a, b \in live : a = b
  /\ ~wtExists => dirty = {} /\ staged = {} /\ ~locked
  /\ ~branchExists => branch = {} /\ ~wtExists

(* What an attempt may rely on where it is.                                 *)
Phase(a) ==
  /\ pc[a] = "spawn" => tried[a] < MaxProviders
  /\ pc[a] \in FirstSteps => tried[a] = 0
  /\ pc[a] \in QuietSteps => live = {}
  /\ pc[a] \in {"run", "reap"} => live \subseteq {a}
  /\ pc[a] \in BareSteps => ~wtExists
  /\ pc[a] = "delete" => branch \subseteq ganglion \cup origin \cup misread
  /\ pc[a] \in SavedSteps => dirty \cup staged \subseteq Kept
  /\ pc[a] \in BranchSteps => branchExists
  /\ pc[a] \in ReportSteps => seen[a].held = branch
  /\ pc[a] \in Executions => worker # "down"
  /\ pc[a] \in {"reap", "stopsave"} /\ rc[a] = "cancel" /\ Listening(a)
       => worker = "draining"

(* Once a success has been accepted nobody is left to change the branch.    *)
Settled ==
  outcome = "success" =>
    server = "closed" /\ live = {} /\ \A a \in Attempts : ~Executing(a)

IndInv ==
  /\ TypeOK /\ Alone /\ Tidy /\ (\A a \in Attempts : Phase(a)) /\ Settled
  /\ NoWorkLost /\ NothingUnreviewedOnBranch /\ DrainIsNoResult

=============================================================================
