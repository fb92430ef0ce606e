---------------------------- MODULE DispatchProofs ----------------------------
(***************************************************************************)
(* What dispatch and deploy promise for every number of commits, merges    *)
(* and harnesses.  The argument: nobody but CI takes a commit away from    *)
(* HEAD of the worker's checkout, and nobody at all from its main or from  *)
(* origin/main; and a process that starts reads mtor's checkout, which CI  *)
(* never has.  So what a command has seen in HEAD stays there unless CI    *)
(* came or went, stays on origin/main even then, and what was in mtor's    *)
(* checkout before a restart is loaded after it.                           *)
(***************************************************************************)
EXTENDS Dispatch, TLAPS

(* From the moment that the gate has read HEAD to that at which it has seen *)
(* it to contain the commit, and after.                                    *)
HeadIsRead == {"hygiene", "wait", "compare"}
PastGate == {"count", "restart", "restarting", "target", "admit again", "submit", "submitted"}
Deployed == {"sync", "drain", "restart", "restarting", "health", "healthy"}

(* The worker's checkout is on the line of origin/main, which is germline's *)
(* alone for CI to take.                                                   *)
OneLine ==
  /\ checkout \subseteq visible /\ pinned \subseteq visible /\ visible \subseteq origin
  /\ ~germline => ci = "none" /\ ~dispatch.borrowed
  /\ deploy.pc # "idle" => ~germline

(* What was read from the checkout is still there.                         *)
ReadIsThere ==
  /\ loaded \subseteq checkout
  /\ dispatch.head \subseteq visible
  /\ dispatch.pc \in HeadIsRead => dispatch.borrowed \/ dispatch.head \subseteq WorkerHead
  /\ dispatch.pc \in PastGate =>
       dispatch.sha \subseteq visible /\ (dispatch.borrowed \/ dispatch.sha \subseteq WorkerHead)
  /\ deploy.pc \in Deployed => deploy.sha \subseteq checkout

(* Before the first merge there has been none; no merge follows the last.  *)
MergesCounted ==
  /\ dispatch.pc = "admit" => dispatch.sha = {}
  /\ dispatch.pc \in {"idle", "admit", "local", "head", "hygiene", "wait", "compare", "push"}
       => dispatch.tries = 0
  /\ dispatch.pc = "merge" => dispatch.tries < Attempts
  /\ deploy.pc \in {"idle", "push"} => deploy.tries = 0
  /\ deploy.pc = "merge" => deploy.tries < Attempts

(* A restart that is over has loaded what was in the checkout before it.   *)
RestartLoads ==
  /\ /\ ~germline
     /\ \/ dispatch.pc \in {"target", "admit again", "submit", "submitted"} /\ dispatch.tries > 0
        \/ dispatch.pc = "restarting" /\ service # "deactivating"
     => dispatch.sha \subseteq loaded
  /\ \/ deploy.pc \in {"health", "healthy"}
     \/ deploy.pc = "restarting" /\ service # "deactivating"
     => deploy.sha \subseteq loaded

DispatchInv == DispatchTypeOK /\ OneLine /\ ReadIsThere /\ MergesCounted /\ RestartLoads

USE DispatchAssumption

(* The records of the two commands: idle, started, and one step further.   *)
LEMMA IdleIsOne == NoDispatch \in Dispatching /\ NoDeploy \in Deploying
<1>1. {} \in SUBSET Commits /\ 0 \in 0 .. Attempts
  OBVIOUS
<1> QED BY <1>1 DEF NoDispatch, NoDeploy, Dispatching, Deploying, DispatchSteps, DeploySteps

LEMMA StartShape ==
  ASSUME NEW b \in BOOLEAN
  PROVE  [NoDispatch EXCEPT !.pc = "admit", !.skip = b] \in Dispatching
<1>1. ASSUME NEW d \in Dispatching
      PROVE  [d EXCEPT !.pc = "admit", !.skip = b] \in Dispatching
  BY DEF Dispatching, DispatchSteps
<1> QED BY <1>1, IdleIsOne

LEMMA ResolveShape ==
  ASSUME NEW s \in SUBSET Commits
  PROVE  [NoDeploy EXCEPT !.pc = "push", !.sha = s] \in Deploying
<1>1. ASSUME NEW d \in Deploying
      PROVE  [d EXCEPT !.pc = "push", !.sha = s] \in Deploying
  BY DEF Deploying, DeploySteps
<1> QED BY <1>1, IdleIsOne

LEMMA StepShape ==
  ASSUME NEW d \in Dispatching, NEW pc \in DispatchSteps
  PROVE  [d EXCEPT !.pc = pc] \in Dispatching
BY DEF Dispatching

LEMMA MergeShape ==
  /\ \A d \in Dispatching : d.tries < Attempts
       => [d EXCEPT !.pc = "probe", !.tries = @ + 1] \in Dispatching
  /\ \A d \in Deploying : d.tries < Attempts
       => [d EXCEPT !.pc = "probe", !.tries = @ + 1] \in Deploying
<1>1. ASSUME NEW d \in Dispatching, d.tries < Attempts
      PROVE  [d EXCEPT !.pc = "probe", !.tries = @ + 1] \in Dispatching
  <2>1. d.tries + 1 \in 0 .. Attempts
    BY <1>1 DEF Dispatching
  <2> QED BY <2>1 DEF Dispatching, DispatchSteps
<1>2. ASSUME NEW d \in Deploying, d.tries < Attempts
      PROVE  [d EXCEPT !.pc = "probe", !.tries = @ + 1] \in Deploying
  <2>1. d.tries + 1 \in 0 .. Attempts
    BY <1>2 DEF Deploying
  <2> QED BY <2>1 DEF Deploying, DeploySteps
<1> QED BY <1>1, <1>2

(* The invariant holds at the start.                                       *)
LEMMA DispatchInit_Inv == DispatchInit => DispatchInv
<1> SUFFICES ASSUME DispatchInit PROVE DispatchInv
  OBVIOUS
<1>1. DispatchTypeOK
  BY IdleIsOne DEF DispatchInit, DispatchTypeOK
<1>2. OneLine /\ ReadIsThere /\ MergesCounted /\ RestartLoads
  BY DEF DispatchInit, OneLine, ReadIsThere, HeadIsRead, MergesCounted, RestartLoads, NoDispatch, NoDeploy,
         PastGate, Deployed
<1> QED BY <1>1, <1>2 DEF DispatchInv

(* A commit nobody has is one of the commits.                              *)
LEMMA NewCommitIsOne ==
  ASSUME Room
  PROVE  NewCommit \in Commits
BY DEF Room, NewCommit

(* The dispatching command keeps it, up to the comparison: what is read of *)
(* the checkout is there.                                                  *)
LEMMA GateKeeps ==
  ASSUME DispatchInv,
         (\E skip \in BOOLEAN : StartDispatch(skip)) \/ Admit \/ ReadLocal \/
         ReadHead \/ Hygiene \/ Waited \/ Compare
  PROVE  DispatchInv'
<1> USE DEF DispatchInv, DispatchTypeOK, WorkerHead, DispatchSteps, To, Unmoved, repoVars, workerVars
<1>1. CASE (\E skip \in BOOLEAN : StartDispatch(skip))
  <2>1. DispatchTypeOK'
    <3>1. dispatch' \in Dispatching
      BY <1>1, StartShape DEF StartDispatch
    <3> QED BY <1>1, <3>1 DEF StartDispatch
  <2>2. ReadIsThere'
    BY <1>1 DEF StartDispatch, NoDispatch, ReadIsThere, Dispatching
  <2>3. MergesCounted'
    BY <1>1 DEF StartDispatch, NoDispatch, MergesCounted, Dispatching
  <2>4. RestartLoads'
    BY <1>1 DEF StartDispatch, NoDispatch, RestartLoads, Dispatching
  <2>5. OneLine'
    <3>1. dispatch'.borrowed = FALSE
      BY <1>1 DEF StartDispatch, NoDispatch
    <3>2. UNCHANGED <<germline, repoVars, workerVars, deploy>>
      BY <1>1 DEF StartDispatch
    <3> HIDE DEF DispatchInv
    <3> QED BY <3>1, <3>2 DEF OneLine, DispatchInv
  <2> QED BY <2>1, <2>2, <2>3, <2>4, <2>5
<1>2. CASE Admit
  <2>1. DispatchTypeOK'
    BY <1>2 DEF Admit, Dispatching
  <2>2. ReadIsThere'
    <3>1. dispatch'.pc \in {"admit again", "local"}
      BY <1>2 DEF Admit, Dispatching
    <3>2. dispatch'.sha = dispatch.sha /\ dispatch'.head = dispatch.head
          /\ dispatch'.tries = dispatch.tries
      BY <1>2 DEF Admit, Dispatching
    <3>3. dispatch.sha = {}
      BY <1>2 DEF Admit, MergesCounted
    <3> QED BY <1>2, <3>1, <3>2, <3>3 DEF Admit, ReadIsThere, HeadIsRead, PastGate, Deployed
  <2>3. MergesCounted'
    BY <1>2 DEF Admit, MergesCounted, Dispatching
  <2>4. RestartLoads'
    BY <1>2 DEF Admit, RestartLoads, ReadIsThere, MergesCounted, HeadIsRead, PastGate, Deployed, Dispatching
  <2>5. OneLine'
    BY <1>2 DEF Admit, OneLine, NoDispatch, NoDeploy, Dispatching, Deploying
  <2> QED BY <2>1, <2>2, <2>3, <2>4, <2>5
<1>3. CASE ReadLocal
  <2>1. DispatchTypeOK'
    BY <1>3 DEF ReadLocal, Dispatching
  <2>2. ReadIsThere'
    BY <1>3 DEF ReadLocal, ReadIsThere, HeadIsRead, PastGate, Deployed, Dispatching
  <2>3. MergesCounted'
    BY <1>3 DEF ReadLocal, MergesCounted
  <2>4. RestartLoads'
    BY <1>3 DEF ReadLocal, RestartLoads
  <2>5. OneLine'
    BY <1>3 DEF ReadLocal, OneLine, NoDispatch, NoDeploy, Dispatching, Deploying
  <2> QED BY <2>1, <2>2, <2>3, <2>4, <2>5
<1>4. CASE ReadHead
  <2>1. DispatchTypeOK'
    BY <1>4 DEF ReadHead, Dispatching
  <2>2. ReadIsThere'
    <3>1. dispatch'.pc \in {"hygiene", "compare"} /\ dispatch'.head = WorkerHead
      BY <1>4 DEF ReadHead, Dispatching
    <3>2. WorkerHead \subseteq visible
      BY DEF OneLine
    <3> QED BY <1>4, <3>1, <3>2 DEF ReadHead, ReadIsThere, HeadIsRead, PastGate, Deployed
  <2>3. MergesCounted'
    BY <1>4 DEF ReadHead, MergesCounted
  <2>4. RestartLoads'
    BY <1>4 DEF ReadHead, RestartLoads
  <2>5. OneLine'
    BY <1>4 DEF ReadHead, OneLine, NoDispatch, NoDeploy, Dispatching, Deploying
  <2> QED BY <2>1, <2>2, <2>3, <2>4, <2>5
<1>5. CASE Hygiene
  <2>1. DispatchTypeOK'
    BY <1>5 DEF Hygiene, Dispatching
  <2>2. ReadIsThere'
    BY <1>5 DEF Hygiene, ReadIsThere, HeadIsRead, PastGate, Deployed, Dispatching
  <2>3. MergesCounted'
    BY <1>5 DEF Hygiene, MergesCounted, Dispatching
  <2>4. RestartLoads'
    BY <1>5 DEF Hygiene, RestartLoads, Dispatching
  <2>5. OneLine'
    BY <1>5 DEF Hygiene, OneLine, NoDispatch, NoDeploy, Dispatching, Deploying
  <2> QED BY <2>1, <2>2, <2>3, <2>4, <2>5
<1>6. CASE Waited
  <2>1. DispatchTypeOK'
    BY <1>6 DEF Waited, Dispatching
  <2>2. ReadIsThere'
    BY <1>6 DEF Waited, ReadIsThere, HeadIsRead, PastGate, Deployed, Dispatching
  <2>3. MergesCounted'
    BY <1>6 DEF Waited, MergesCounted
  <2>4. RestartLoads'
    BY <1>6 DEF Waited, RestartLoads
  <2>5. OneLine'
    BY <1>6 DEF Waited, OneLine, NoDispatch, NoDeploy, Dispatching, Deploying
  <2> QED BY <2>1, <2>2, <2>3, <2>4, <2>5
<1>7. CASE Compare
  <2>1. DispatchTypeOK'
    BY <1>7 DEF Compare, Dispatching
  <2>2. ReadIsThere'
    <3>1. dispatch'.pc \in {"target", "push"} /\ UNCHANGED deploy
      BY <1>7 DEF Compare, Dispatching
    <3>2. dispatch'.sha = dispatch.sha /\ dispatch'.head = dispatch.head
          /\ dispatch'.borrowed = dispatch.borrowed
      BY <1>7 DEF Compare, Dispatching
    <3>3. dispatch'.pc = "target" => \/ dispatch.sha = dispatch.head
                                     \/ dispatch.sha \subseteq WorkerHead
      BY <1>7 DEF Compare, Dispatching
    <3>4. WorkerHead \subseteq visible /\ dispatch.pc \in HeadIsRead
      BY <1>7 DEF Compare, OneLine, HeadIsRead
    <3>5. dispatch'.pc = "target" =>
            dispatch.sha \subseteq visible /\ (dispatch.borrowed \/ dispatch.sha \subseteq WorkerHead)
      BY <3>3, <3>4 DEF ReadIsThere
    <3> QED BY <1>7, <3>1, <3>2, <3>5 DEF Compare, ReadIsThere, HeadIsRead, PastGate
  <2>3. MergesCounted'
    BY <1>7 DEF Compare, MergesCounted
  <2>4. RestartLoads'
    <3>1. dispatch'.pc \in {"target", "push"}
      BY <1>7 DEF Compare, Dispatching
    <3>2. dispatch'.sha = dispatch.sha /\ dispatch'.head = dispatch.head
          /\ dispatch'.tries = dispatch.tries
      BY <1>7 DEF Compare, Dispatching
    <3>3. dispatch.tries = 0
      BY <1>7 DEF Compare, MergesCounted
    <3> QED BY <1>7, <3>1, <3>2, <3>3 DEF Compare, RestartLoads
  <2>5. OneLine'
    BY <1>7 DEF Compare, OneLine, NoDispatch, NoDeploy, Dispatching, Deploying
  <2> QED BY <2>1, <2>2, <2>3, <2>4, <2>5
<1> QED BY <1>1, <1>2, <1>3, <1>4, <1>5, <1>6, <1>7

(* ... through the deploy of its own: a merge only adds to the checkout,   *)
(* and a restart is not over before the unit is active again.              *)
LEMMA DeployByDispatchKeeps ==
  ASSUME DispatchInv,
         Push \/ Merge \/ Probe \/ (\E probed \in BOOLEAN : Count(probed)) \/
         AutoRestart \/ Restarted
  PROVE  DispatchInv'
<1> USE DEF DispatchInv, DispatchTypeOK, WorkerHead, DispatchSteps, To, Unmoved,
            repoVars, workerVars, CanMerge, Merged, MoveHead, Known
<1>1. CASE Push
  <2>1. DispatchTypeOK'
    <3>1. dispatch' \in Dispatching
      BY <1>1, StepShape DEF Push, DispatchSteps
    <3> QED BY <1>1, <3>1 DEF Push
  <2>2. ReadIsThere'
    BY <1>1 DEF Push, ReadIsThere, HeadIsRead, PastGate, Deployed, Dispatching
  <2>3. MergesCounted'
    <3>1. dispatch'.pc \in {"merge"}
      BY <1>1 DEF Push, Dispatching
    <3>2. dispatch'.sha = dispatch.sha /\ dispatch'.head = dispatch.head
          /\ dispatch'.tries = dispatch.tries
      BY <1>1 DEF Push, Dispatching
    <3>3. dispatch.tries < Attempts
      BY <1>1 DEF Push, MergesCounted
    <3> QED BY <1>1, <3>1, <3>2, <3>3 DEF Push, MergesCounted
  <2>4. RestartLoads'
    BY <1>1 DEF Push, RestartLoads
  <2>5. OneLine'
    BY <1>1 DEF Push, OneLine, NoDispatch, NoDeploy, Dispatching, Deploying
  <2> QED BY <2>1, <2>2, <2>3, <2>4, <2>5
<1>2. CASE Merge
  <2>1. DispatchTypeOK'
    <3>1. dispatch' \in Dispatching
      BY <1>2, MergeShape DEF Merge, MergesCounted
    <3> QED BY <1>2, <3>1 DEF Merge
  <2>2. ReadIsThere'
    BY <1>2 DEF Merge, ReadIsThere, HeadIsRead, PastGate, Deployed, Dispatching
  <2>3. MergesCounted'
    BY <1>2 DEF Merge, MergesCounted
  <2>4. RestartLoads'
    BY <1>2 DEF Merge, RestartLoads
  <2>5. OneLine'
    BY <1>2 DEF Merge, OneLine, NoDispatch, NoDeploy, Dispatching, Deploying
  <2> QED BY <2>1, <2>2, <2>3, <2>4, <2>5
<1>3. CASE Probe
  <2>1. DispatchTypeOK'
    <3>1. dispatch' \in Dispatching
      BY <1>3, StepShape DEF Probe
    <3> QED BY <1>3, <3>1 DEF Probe
  <2>2. ReadIsThere'
    <3>1. dispatch'.pc \in {"count", "merge"} /\ UNCHANGED deploy
      BY <1>3 DEF Probe, Dispatching
    <3>2. dispatch'.sha = dispatch.sha /\ dispatch'.head = dispatch.head
          /\ dispatch'.borrowed = dispatch.borrowed
      BY <1>3 DEF Probe, Dispatching
    <3>3. dispatch'.pc = "count" => dispatch.sha \subseteq WorkerHead
      BY <1>3 DEF Probe, Dispatching
    <3>4. WorkerHead \subseteq visible
      BY DEF OneLine
    <3> QED BY <1>3, <3>1, <3>2, <3>3, <3>4 DEF Probe, ReadIsThere, HeadIsRead, PastGate
  <2>3. MergesCounted'
    BY <1>3 DEF Probe, MergesCounted, Dispatching
  <2>4. RestartLoads'
    BY <1>3 DEF Probe, RestartLoads, Dispatching
  <2>5. OneLine'
    BY <1>3 DEF Probe, OneLine, NoDispatch, NoDeploy, Dispatching, Deploying
  <2> QED BY <2>1, <2>2, <2>3, <2>4, <2>5
<1>4. CASE (\E probed \in BOOLEAN : Count(probed))
  <2>1. DispatchTypeOK'
    BY <1>4 DEF Count, Dispatching
  <2>2. ReadIsThere'
    BY <1>4 DEF Count, ReadIsThere, HeadIsRead, PastGate, Deployed, Dispatching
  <2>3. MergesCounted'
    BY <1>4 DEF Count, MergesCounted
  <2>4. RestartLoads'
    BY <1>4 DEF Count, RestartLoads
  <2>5. OneLine'
    <3>1. dispatch'.borrowed = dispatch.borrowed
      BY <1>4 DEF Count, Dispatching
    <3> QED BY <1>4, <3>1 DEF Count, OneLine
  <2> QED BY <2>1, <2>2, <2>3, <2>4, <2>5
<1>5. CASE AutoRestart
  <2>1. DispatchTypeOK'
    BY <1>5 DEF AutoRestart, RestartUnit, Dispatching
  <2>2. ReadIsThere'
    BY <1>5 DEF AutoRestart, RestartUnit, ReadIsThere, HeadIsRead, PastGate, Deployed, Dispatching
  <2>3. MergesCounted'
    BY <1>5 DEF AutoRestart, RestartUnit, MergesCounted
  <2>4. RestartLoads'
    BY <1>5 DEF AutoRestart, RestartUnit, RestartLoads
  <2>5. OneLine'
    BY <1>5 DEF AutoRestart, OneLine, NoDispatch, NoDeploy, Dispatching, Deploying
  <2> QED BY <2>1, <2>2, <2>3, <2>4, <2>5
<1>6. CASE Restarted
  <2>1. DispatchTypeOK'
    BY <1>6 DEF Restarted, Dispatching
  <2>2. ReadIsThere'
    BY <1>6 DEF Restarted, ReadIsThere, HeadIsRead, PastGate, Deployed, Dispatching
  <2>3. MergesCounted'
    BY <1>6 DEF Restarted, MergesCounted
  <2>4. RestartLoads'
    BY <1>6 DEF Restarted, RestartLoads
  <2>5. OneLine'
    BY <1>6 DEF Restarted, OneLine, NoDispatch, NoDeploy, Dispatching, Deploying
  <2> QED BY <2>1, <2>2, <2>3, <2>4, <2>5
<1> QED BY <1>1, <1>2, <1>3, <1>4, <1>5, <1>6

(* ... and to the end.                                                     *)
LEMMA SubmissionKeeps ==
  ASSUME DispatchInv,
         Target \/ AdmitAgain \/ Submit \/ Reported \/ Refused
  PROVE  DispatchInv'
<1> USE DEF DispatchInv, DispatchTypeOK, WorkerHead, DispatchSteps, To, Unmoved, repoVars, workerVars
<1>1. CASE Target
  <2>1. DispatchTypeOK'
    BY <1>1 DEF Target, Dispatching
  <2>2. ReadIsThere'
    BY <1>1 DEF Target, ReadIsThere, HeadIsRead, PastGate, Deployed, Dispatching
  <2>3. MergesCounted'
    BY <1>1 DEF Target, MergesCounted, Dispatching
  <2>4. RestartLoads'
    BY <1>1 DEF Target, RestartLoads, Dispatching
  <2>5. OneLine'
    BY <1>1 DEF Target, OneLine, NoDispatch, NoDeploy, Dispatching, Deploying
  <2> QED BY <2>1, <2>2, <2>3, <2>4, <2>5
<1>2. CASE AdmitAgain
  <2>1. DispatchTypeOK'
    BY <1>2 DEF AdmitAgain, Dispatching
  <2>2. ReadIsThere'
    BY <1>2 DEF AdmitAgain, ReadIsThere, HeadIsRead, PastGate, Deployed, Dispatching
  <2>3. MergesCounted'
    BY <1>2 DEF AdmitAgain, MergesCounted, Dispatching
  <2>4. RestartLoads'
    BY <1>2 DEF AdmitAgain, RestartLoads, Dispatching
  <2>5. OneLine'
    BY <1>2 DEF AdmitAgain, OneLine, NoDispatch, NoDeploy, Dispatching, Deploying
  <2> QED BY <2>1, <2>2, <2>3, <2>4, <2>5
<1>3. CASE Submit
  <2>1. DispatchTypeOK'
    BY <1>3 DEF Submit, Dispatching
  <2>2. ReadIsThere'
    BY <1>3 DEF Submit, ReadIsThere, HeadIsRead, PastGate, Deployed, Dispatching
  <2>3. MergesCounted'
    BY <1>3 DEF Submit, MergesCounted
  <2>4. RestartLoads'
    BY <1>3 DEF Submit, RestartLoads
  <2>5. OneLine'
    BY <1>3 DEF Submit, OneLine, NoDispatch, NoDeploy, Dispatching, Deploying
  <2> QED BY <2>1, <2>2, <2>3, <2>4, <2>5
<1>4. CASE Reported
  <2>1. DispatchTypeOK'
    <3>1. dispatch' \in Dispatching
      BY <1>4, IdleIsOne DEF Reported
    <3> QED BY <1>4, <3>1 DEF Reported
  <2>2. ReadIsThere'
    BY <1>4 DEF Reported, NoDispatch, ReadIsThere, Dispatching
  <2>3. MergesCounted'
    BY <1>4 DEF Reported, NoDispatch, MergesCounted, Dispatching
  <2>4. RestartLoads'
    BY <1>4 DEF Reported, NoDispatch, RestartLoads, Dispatching
  <2>5. OneLine'
    BY <1>4 DEF Reported, OneLine, NoDispatch, NoDeploy, Dispatching, Deploying
  <2> QED BY <2>1, <2>2, <2>3, <2>4, <2>5
<1>5. CASE Refused
  <2>1. DispatchTypeOK'
    <3>1. dispatch' \in Dispatching
      BY <1>5, IdleIsOne DEF Refused
    <3> QED BY <1>5, <3>1 DEF Refused
  <2>2. ReadIsThere'
    BY <1>5 DEF Refused, NoDispatch, ReadIsThere, Dispatching
  <2>3. MergesCounted'
    BY <1>5 DEF Refused, NoDispatch, MergesCounted, Dispatching
  <2>4. RestartLoads'
    BY <1>5 DEF Refused, NoDispatch, RestartLoads, Dispatching
  <2>5. OneLine'
    BY <1>5 DEF Refused, OneLine, NoDispatch, NoDeploy, Dispatching, Deploying
  <2> QED BY <2>1, <2>2, <2>3, <2>4, <2>5
<1> QED BY <1>1, <1>2, <1>3, <1>4, <1>5

(* The deploying command keeps it.                                         *)
LEMMA DeployKeeps ==
  ASSUME DispatchInv,
         Resolve \/ Publish \/ FastForward \/ Verify \/ SyncEnvironment \/
         Drained \/ DeployRestart \/ DeployRestarted \/ HealthCheck \/
         DeployFails
  PROVE  DispatchInv'
<1> USE DEF DispatchInv, DispatchTypeOK, WorkerHead, DeploySteps, Turn, Still,
            repoVars, workerVars, CanMerge, Merged, MoveHead
<1>1. CASE Resolve
  <2>1. DispatchTypeOK'
    <3>1. deploy' \in Deploying
      BY <1>1, ResolveShape DEF Resolve
    <3> QED BY <1>1, <3>1 DEF Resolve
  <2>2. ReadIsThere'
    BY <1>1 DEF Resolve, NoDeploy, ReadIsThere, HeadIsRead, PastGate, Deployed, Deploying
  <2>3. MergesCounted'
    BY <1>1 DEF Resolve, NoDeploy, MergesCounted, Deploying
  <2>4. RestartLoads'
    BY <1>1 DEF Resolve, NoDeploy, RestartLoads, Deploying
  <2>5. OneLine'
    BY <1>1 DEF Resolve, OneLine, NoDispatch, NoDeploy, Dispatching, Deploying
  <2> QED BY <2>1, <2>2, <2>3, <2>4, <2>5
<1>2. CASE Publish
  <2>1. DispatchTypeOK'
    BY <1>2 DEF Publish, Deploying
  <2>2. ReadIsThere'
    BY <1>2 DEF Publish, ReadIsThere, HeadIsRead, PastGate, Deployed, Deploying
  <2>3. MergesCounted'
    BY <1>2 DEF Publish, MergesCounted
  <2>4. RestartLoads'
    BY <1>2 DEF Publish, RestartLoads, Deploying
  <2>5. OneLine'
    BY <1>2 DEF Publish, OneLine, NoDispatch, NoDeploy, Dispatching, Deploying
  <2> QED BY <2>1, <2>2, <2>3, <2>4, <2>5
<1>3. CASE FastForward
  <2>1. DispatchTypeOK'
    <3>1. deploy' \in Deploying
      BY <1>3, MergeShape DEF FastForward, MergesCounted
    <3> QED BY <1>3, <3>1 DEF FastForward
  <2>2. ReadIsThere'
    BY <1>3 DEF FastForward, ReadIsThere, HeadIsRead, PastGate, Deployed, Deploying
  <2>3. MergesCounted'
    BY <1>3 DEF FastForward, MergesCounted
  <2>4. RestartLoads'
    BY <1>3 DEF FastForward, RestartLoads, Deploying
  <2>5. OneLine'
    BY <1>3 DEF FastForward, OneLine, NoDispatch, NoDeploy, Dispatching, Deploying
  <2> QED BY <2>1, <2>2, <2>3, <2>4, <2>5
<1>4. CASE Verify
  <2>1. DispatchTypeOK'
    BY <1>4 DEF Verify, Deploying
  <2>2. ReadIsThere'
    <3>1. WorkerHead = checkout
      BY <1>4 DEF Verify, OneLine
    <3> QED BY <1>4, <3>1 DEF Verify, ReadIsThere, HeadIsRead, PastGate, Deployed, Deploying
  <2>3. MergesCounted'
    BY <1>4 DEF Verify, MergesCounted, Deploying
  <2>4. RestartLoads'
    BY <1>4 DEF Verify, RestartLoads, Deploying
  <2>5. OneLine'
    BY <1>4 DEF Verify, OneLine, NoDispatch, NoDeploy, Dispatching, Deploying
  <2> QED BY <2>1, <2>2, <2>3, <2>4, <2>5
<1>5. CASE SyncEnvironment
  <2>1. DispatchTypeOK'
    BY <1>5 DEF SyncEnvironment, Deploying
  <2>2. ReadIsThere'
    BY <1>5 DEF SyncEnvironment, ReadIsThere, HeadIsRead, PastGate, Deployed, Deploying
  <2>3. MergesCounted'
    BY <1>5 DEF SyncEnvironment, MergesCounted
  <2>4. RestartLoads'
    BY <1>5 DEF SyncEnvironment, RestartLoads, Deploying
  <2>5. OneLine'
    BY <1>5 DEF SyncEnvironment, OneLine, NoDispatch, NoDeploy, Dispatching, Deploying
  <2> QED BY <2>1, <2>2, <2>3, <2>4, <2>5
<1>6. CASE Drained
  <2>1. DispatchTypeOK'
    BY <1>6 DEF Drained, Deploying
  <2>2. ReadIsThere'
    BY <1>6 DEF Drained, ReadIsThere, HeadIsRead, PastGate, Deployed, Deploying
  <2>3. MergesCounted'
    BY <1>6 DEF Drained, MergesCounted
  <2>4. RestartLoads'
    BY <1>6 DEF Drained, RestartLoads, Deploying
  <2>5. OneLine'
    BY <1>6 DEF Drained, OneLine, NoDispatch, NoDeploy, Dispatching, Deploying
  <2> QED BY <2>1, <2>2, <2>3, <2>4, <2>5
<1>7. CASE DeployRestart
  <2>1. DispatchTypeOK'
    BY <1>7 DEF DeployRestart, RestartUnit, Deploying
  <2>2. ReadIsThere'
    BY <1>7 DEF DeployRestart, RestartUnit, ReadIsThere, HeadIsRead, PastGate, Deployed, Deploying
  <2>3. MergesCounted'
    BY <1>7 DEF DeployRestart, RestartUnit, MergesCounted
  <2>4. RestartLoads'
    BY <1>7 DEF DeployRestart, RestartUnit, RestartLoads, Deploying
  <2>5. OneLine'
    BY <1>7 DEF DeployRestart, OneLine, NoDispatch, NoDeploy, Dispatching, Deploying
  <2> QED BY <2>1, <2>2, <2>3, <2>4, <2>5
<1>8. CASE DeployRestarted
  <2>1. DispatchTypeOK'
    BY <1>8 DEF DeployRestarted, Deploying
  <2>2. ReadIsThere'
    BY <1>8 DEF DeployRestarted, ReadIsThere, HeadIsRead, PastGate, Deployed, Deploying
  <2>3. MergesCounted'
    BY <1>8 DEF DeployRestarted, MergesCounted
  <2>4. RestartLoads'
    BY <1>8 DEF DeployRestarted, RestartLoads, Deploying
  <2>5. OneLine'
    BY <1>8 DEF DeployRestarted, OneLine, NoDispatch, NoDeploy, Dispatching, Deploying
  <2> QED BY <2>1, <2>2, <2>3, <2>4, <2>5
<1>9. CASE HealthCheck
  <2>1. DispatchTypeOK'
    BY <1>9 DEF HealthCheck, Deploying
  <2>2. ReadIsThere'
    <3>1. WorkerHead = checkout
      BY <1>9 DEF HealthCheck, Healthy
    <3> QED BY <1>9, <3>1 DEF HealthCheck, ReadIsThere, Deployed, Deploying
  <2>3. MergesCounted'
    BY <1>9 DEF HealthCheck, MergesCounted
  <2>4. RestartLoads'
    BY <1>9 DEF HealthCheck, RestartLoads, Deploying
  <2>5. OneLine'
    BY <1>9 DEF HealthCheck, OneLine, NoDispatch, NoDeploy, Dispatching, Deploying
  <2> QED BY <2>1, <2>2, <2>3, <2>4, <2>5
<1>10. CASE DeployFails
  <2>1. DispatchTypeOK'
    BY <1>10 DEF DeployFails, NoDeploy, Deploying
  <2>2. ReadIsThere'
    BY <1>10 DEF DeployFails, NoDeploy, ReadIsThere, Deploying
  <2>3. MergesCounted'
    BY <1>10 DEF DeployFails, NoDeploy, MergesCounted, Deploying
  <2>4. RestartLoads'
    BY <1>10 DEF DeployFails, NoDeploy, RestartLoads, Deploying
  <2>5. OneLine'
    BY <1>10 DEF DeployFails, OneLine, NoDispatch, NoDeploy, Dispatching, Deploying
  <2> QED BY <2>1, <2>2, <2>3, <2>4, <2>5
<1> QED BY <1>1, <1>2, <1>3, <1>4, <1>5, <1>6, <1>7, <1>8, <1>9, <1>10

(* Commits, pushes and pulls of others keep it: the checkout only grows.   *)
LEMMA CommitsKeep ==
  ASSUME DispatchInv,
         Commit \/ OtherPush \/ Pull \/ Propagate \/ SyncTimer
  PROVE  DispatchInv'
<1> USE DEF DispatchInv, DispatchTypeOK, WorkerHead, OthersKeep, repoVars, workerVars
<1>1. CASE Commit
  <2>1. DispatchTypeOK'
    BY <1>1, NewCommitIsOne DEF Commit, Room
  <2>2. ReadIsThere'
    BY <1>1 DEF Commit, Room, ReadIsThere
  <2>3. MergesCounted'
    BY <1>1 DEF Commit, Room, MergesCounted
  <2>4. RestartLoads'
    BY <1>1 DEF Commit, Room, RestartLoads
  <2>5. OneLine'
    BY <1>1 DEF Commit, OneLine, NoDispatch, NoDeploy, Dispatching, Deploying
  <2> QED BY <2>1, <2>2, <2>3, <2>4, <2>5
<1>2. CASE OtherPush
  <2>1. DispatchTypeOK'
    BY <1>2, NewCommitIsOne DEF OtherPush, Room
  <2>2. ReadIsThere'
    BY <1>2 DEF OtherPush, Room, ReadIsThere
  <2>3. MergesCounted'
    BY <1>2 DEF OtherPush, Room, MergesCounted
  <2>4. RestartLoads'
    BY <1>2 DEF OtherPush, Room, RestartLoads
  <2>5. OneLine'
    BY <1>2 DEF OtherPush, OneLine, NoDispatch, NoDeploy, Dispatching, Deploying
  <2> QED BY <2>1, <2>2, <2>3, <2>4, <2>5
<1>3. CASE Pull
  <2>1. DispatchTypeOK'
    BY <1>3 DEF Pull
  <2>2. ReadIsThere'
    BY <1>3 DEF Pull, ReadIsThere
  <2>3. MergesCounted'
    BY <1>3 DEF Pull, MergesCounted
  <2>4. RestartLoads'
    BY <1>3 DEF Pull, RestartLoads
  <2>5. OneLine'
    BY <1>3 DEF Pull, OneLine, NoDispatch, NoDeploy, Dispatching, Deploying
  <2> QED BY <2>1, <2>2, <2>3, <2>4, <2>5
<1>4. CASE Propagate
  <2>1. DispatchTypeOK'
    BY <1>4 DEF Propagate
  <2>2. ReadIsThere'
    BY <1>4 DEF Propagate, ReadIsThere, OneLine
  <2>3. MergesCounted'
    BY <1>4 DEF Propagate, MergesCounted
  <2>4. RestartLoads'
    BY <1>4 DEF Propagate, RestartLoads
  <2>5. OneLine'
    BY <1>4 DEF Propagate, OneLine, NoDispatch, NoDeploy, Dispatching, Deploying
  <2> QED BY <2>1, <2>2, <2>3, <2>4, <2>5
<1>5. CASE SyncTimer
  <2>1. DispatchTypeOK'
    BY <1>5 DEF SyncTimer
  <2>2. ReadIsThere'
    BY <1>5 DEF SyncTimer, ReadIsThere
  <2>3. MergesCounted'
    BY <1>5 DEF SyncTimer, MergesCounted
  <2>4. RestartLoads'
    BY <1>5 DEF SyncTimer, RestartLoads
  <2>5. OneLine'
    BY <1>5 DEF SyncTimer, OneLine, NoDispatch, NoDeploy, Dispatching, Deploying
  <2> QED BY <2>1, <2>2, <2>3, <2>4, <2>5
<1> QED BY <1>1, <1>2, <1>3, <1>4, <1>5

(* What happens on the worker keeps it: whoever starts reads the checkout. *)
LEMMA HostKeeps ==
  ASSUME DispatchInv,
         Ci \/ Ribosome \/ DrainEnds \/ ServiceFails \/ ServiceStarts
  PROVE  DispatchInv'
<1> USE DEF DispatchInv, DispatchTypeOK, WorkerHead, repoVars, workerVars
<1>1. CASE Ci
  <2>1. DispatchTypeOK'
    <3>1. dispatch' \in Dispatching
      BY <1>1 DEF Ci, Dispatching
    <3> QED BY <1>1, <3>1 DEF Ci
  <2>2. ReadIsThere'
    <3>1. /\ dispatch'.pc = dispatch.pc /\ dispatch'.sha = dispatch.sha
          /\ dispatch'.head = dispatch.head /\ dispatch'.borrowed
      BY <1>1 DEF Ci, Dispatching
    <3>2. UNCHANGED <<loaded, visible, deploy>> /\ checkout \subseteq checkout'
      BY <1>1 DEF Ci, OneLine
    <3> QED BY <3>1, <3>2 DEF ReadIsThere
  <2>3. MergesCounted'
    BY <1>1 DEF Ci, MergesCounted
  <2>4. RestartLoads'
    BY <1>1 DEF Ci, RestartLoads
  <2>5. OneLine'
    BY <1>1 DEF Ci, OneLine, NoDispatch, NoDeploy, Dispatching, Deploying
  <2> QED BY <2>1, <2>2, <2>3, <2>4, <2>5
<1>2. CASE Ribosome
  <2>1. DispatchTypeOK'
    BY <1>2 DEF Ribosome
  <2>2. ReadIsThere'
    BY <1>2 DEF Ribosome, ReadIsThere
  <2>3. MergesCounted'
    BY <1>2 DEF Ribosome, MergesCounted
  <2>4. RestartLoads'
    BY <1>2 DEF Ribosome, RestartLoads
  <2>5. OneLine'
    BY <1>2 DEF Ribosome, OneLine, NoDispatch, NoDeploy, Dispatching, Deploying
  <2> QED BY <2>1, <2>2, <2>3, <2>4, <2>5
<1>3. CASE DrainEnds
  <2>1. DispatchTypeOK'
    BY <1>3 DEF DrainEnds, Load
  <2>2. ReadIsThere'
    BY <1>3 DEF DrainEnds, Load, ReadIsThere
  <2>3. MergesCounted'
    BY <1>3 DEF DrainEnds, MergesCounted
  <2>4. RestartLoads'
    BY <1>3
       DEF DrainEnds, Load, RestartLoads, ReadIsThere, OneLine, PastGate, Deployed,
           Dispatching, Deploying
  <2>5. OneLine'
    BY <1>3 DEF DrainEnds, OneLine, NoDispatch, NoDeploy, Dispatching, Deploying
  <2> QED BY <2>1, <2>2, <2>3, <2>4, <2>5
<1>4. CASE ServiceFails
  <2>1. DispatchTypeOK'
    BY <1>4 DEF ServiceFails
  <2>2. ReadIsThere'
    BY <1>4 DEF ServiceFails, ReadIsThere
  <2>3. MergesCounted'
    BY <1>4 DEF ServiceFails, MergesCounted
  <2>4. RestartLoads'
    BY <1>4 DEF ServiceFails, RestartLoads
  <2>5. OneLine'
    BY <1>4 DEF ServiceFails, OneLine, NoDispatch, NoDeploy, Dispatching, Deploying
  <2> QED BY <2>1, <2>2, <2>3, <2>4, <2>5
<1>5. CASE ServiceStarts
  <2>1. DispatchTypeOK'
    BY <1>5 DEF ServiceStarts, Load
  <2>2. ReadIsThere'
    BY <1>5 DEF ServiceStarts, Load, ReadIsThere
  <2>3. MergesCounted'
    BY <1>5 DEF ServiceStarts, MergesCounted
  <2>4. RestartLoads'
    BY <1>5
       DEF ServiceStarts, Load, RestartLoads, ReadIsThere, OneLine, PastGate, Deployed,
           Dispatching, Deploying
  <2>5. OneLine'
    BY <1>5 DEF ServiceStarts, OneLine, NoDispatch, NoDeploy, Dispatching, Deploying
  <2> QED BY <2>1, <2>2, <2>3, <2>4, <2>5
<1> QED BY <1>1, <1>2, <1>3, <1>4, <1>5

(* Every step keeps the invariant, so it holds always.                     *)
LEMMA DispatchStep_Inv == DispatchInv /\ [DispatchNext]_dispatchVars => DispatchInv'
<1> SUFFICES ASSUME DispatchInv, [DispatchNext]_dispatchVars PROVE DispatchInv'
  OBVIOUS
<1>1. CASE UNCHANGED dispatchVars
  <2>1. DispatchTypeOK'
    BY <1>1 DEF DispatchInv, dispatchVars, repoVars, workerVars, DispatchTypeOK
  <2>2. OneLine' /\ MergesCounted'
    BY <1>1 DEF DispatchInv, dispatchVars, repoVars, workerVars, OneLine, MergesCounted
  <2>3. ReadIsThere'
    BY <1>1 DEF DispatchInv, dispatchVars, repoVars, workerVars, ReadIsThere, WorkerHead
  <2>4. RestartLoads'
    BY <1>1 DEF DispatchInv, dispatchVars, repoVars, workerVars, RestartLoads
  <2> QED BY <2>1, <2>2, <2>3, <2>4 DEF DispatchInv
<1>2. CASE (\E skip \in BOOLEAN : StartDispatch(skip)) \/ Dispatches
  BY <1>2, GateKeeps, DeployByDispatchKeeps, SubmissionKeeps DEF Dispatches
<1>3. CASE Deploys
  BY <1>3, DeployKeeps DEF Deploys
<1>4. CASE World
  BY <1>4, CommitsKeep, HostKeeps DEF World
<1> QED BY <1>1, <1>2, <1>3, <1>4 DEF DispatchNext

LEMMA DispatchInvariance == DispatchSpec => []DispatchInv
BY DispatchInit_Inv, DispatchStep_Inv, PTL DEF DispatchSpec

(* The records and checkouts of both commands keep their shape             *)
(* (dispatch.py:409-620, infra.py:791-958).                                *)
THEOREM DispatchTypes == DispatchSpec => []DispatchTypeOK
<1>1. DispatchInv => DispatchTypeOK
  BY DEF DispatchInv
<1> QED BY <1>1, DispatchInvariance, PTL

(* Whatever was pushed, pulled or restarted by others meanwhile, a deploy  *)
(* that reports healthy runs the commit it resolved (infra.py:791-958).    *)
THEOREM HealthyRunsTheCommit == DispatchSpec => []HealthyMeansLoaded
<1>1. DispatchInv => HealthyMeansLoaded
  BY DEF DispatchInv, RestartLoads, HealthyMeansLoaded
<1> QED BY <1>1, DispatchInvariance, PTL

(* A task past the SHA gate is submitted with the commit that the gate read *)
(* on origin/main, and in the worker's checkout unless CI came or went      *)
(* since the gate read its HEAD (dispatch.py:409-620, 1374-1467).           *)
THEOREM GatedTaskIsContained == DispatchSpec => []SubmitContained
<1>1. DispatchInv => SubmitContained
  BY DEF DispatchInv, ReadIsThere, PastGate, SubmitContained
<1> QED BY <1>1, DispatchInvariance, PTL

(* After a deploy of its own, a dispatch of mtor's repository is submitted  *)
(* to a process that has read the commit (dispatch.py:517-615).             *)
THEOREM AutoDeployedTaskIsLoaded == DispatchSpec => []AutoDeployLoads
<1>1. DispatchInv => AutoDeployLoads
  BY DEF DispatchInv, RestartLoads, AutoDeployLoads
<1> QED BY <1>1, DispatchInvariance, PTL
=============================================================================
