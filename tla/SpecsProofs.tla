----------------------------- MODULE SpecsProofs ------------------------------
(***************************************************************************)
(* What the commands and the watch promise about the spec files, for every *)
(* set of specs, dependencies, shells, commands and bounds.                *)
(*                                                                         *)
(* The argument: evidence for an outcome only accumulates, so what a       *)
(* command has read stays justified however late it writes it.  The        *)
(* invariant therefore says of everything a shell carries, the front       *)
(* matter it read, the executions it listed and the change it is about to  *)
(* write, what the property says of the files.                             *)
(*                                                                         *)
(* The watch takes its batches from a list whose specs do not wait for one *)
(* another, so that every step of the batch finds a next spec; how large a *)
(* batch gets follows from the smallest number of steps it could fail for. *)
(***************************************************************************)
EXTENDS Watch, FiniteSetTheorems, WellFoundedInduction, TLAPS

(* A verdict that a run of the spec was given. *)
Given(s, v) == \E r \in RunsOf(s) : wf[r].verdict = v

(* Front matter that is justified, and a change that is.                   *)
FrontEarned(s, f) ==
  /\ f.status = "done" => Accepted(s)
  /\ f.status = "failed" => Refused(s)
  /\ f.verdict # "none" => Given(s, f.verdict)
  /\ f.wid # 0 => f.wid \in RunsOf(s)

ChangeEarned(s, c) ==
  /\ c.status = "done" => Accepted(s)
  /\ c.status = "failed" => Refused(s)
  /\ c.verdict # "none" => Given(s, c.verdict)
  /\ c.wid \notin {Keep, Clear} => c.wid \in RunsOf(s)

(* An execution that was listed is a run of the spec; when it had ended it *)
(* is now as it was then.                                                  *)
ListedSound(s, e) ==
  e.run # 0 => /\ e.run \in RunsOf(s)
               /\ e.status # "running" => /\ wf[e.run].status = e.status
                                          /\ wf[e.run].verdict = e.verdict

(* Dropping a workflow id for good reasons: the run it names has ended, or *)
(* was said to be missing.                                                 *)
DropsEnded(c) ==
  \/ c.cmd \in {"spec", "all"}
  \/ c.new.wid = Keep
  \/ /\ c.new = Change("ready", Clear, "none")
     /\ c.cmd = "reconcile" \/ (c.about \in RunsOf(c.spec) /\ ~Running(c.about))

Updating == {"read", "open", "write"}

TodoSound(c) ==
  /\ c.todo \subseteq Specs
  /\ \A s \in c.todo : c.deps[s] \cap c.todo = {}
  /\ c.pc \in {"validate", "submit", "look"} => c.todo # {}
  /\ c.pc \in {"validate", "submit"} => c.cmd \in {"spec", "all"}
  /\ c.cmd \in {"spec", "reconcile", "list"} => c.deps = NoDeps

SeenSound(c) ==
  /\ \A s \in Specs : FrontEarned(s, c.seen[s])
  /\ c.cmd = "reconcile" => \A s \in c.todo : Settles(c.seen[s])
  /\ \A s \in Specs : ListedSound(s, c.runs[s])
  /\ c.cmd = "all" => \A s \in c.todo : c.deps[s] = Deps[s] => \A d \in Deps[s] : Accepted(d)

UpdateSound(c) ==
  c.pc \in Updating =>
    /\ c.spec \in Specs
    /\ ChangeEarned(c.spec, c.new)
    /\ DropsEnded(c)
    /\ c.pc # "read" => FrontEarned(c.spec, c.buf)

(* The records have their fields. *)
IsFront(f) == f = [status |-> f.status, wid |-> f.wid, verdict |-> f.verdict]
IsRun(w)   == w = [spec |-> w.spec, status |-> w.status, verdict |-> w.verdict]
IsShell(c) == c = [cmd |-> c.cmd, pc |-> c.pc, todo |-> c.todo, deps |-> c.deps, seen |-> c.seen,
                   runs |-> c.runs, spec |-> c.spec, about |-> c.about, buf |-> c.buf,
                   new |-> c.new]

Shapes ==
  /\ file = [s \in Specs |-> file[s]] /\ \A s \in Specs : IsFront(file[s])
  /\ wf = [r \in Runs |-> wf[r]] /\ \A r \in Runs : IsRun(wf[r])
  /\ proc = [p \in Procs |-> proc[p]] /\ \A p \in Procs : IsShell(proc[p])

RunsSound ==
  \A r \in Runs : /\ wf[r].status \in {"none", "running", "completed", "failed"}
                  /\ wf[r].status # "none" => wf[r].spec \in Specs
                  /\ wf[r].verdict # "none" => wf[r].status = "completed"

FilesEarned == \A s \in Specs : FrontEarned(s, file[s])

ShellSound(c) == TodoSound(c) /\ SeenSound(c) /\ UpdateSound(c)

SpecsInv == Shapes /\ RunsSound /\ FilesEarned /\ \A p \in Procs : ShellSound(proc[p])

---------------------------------------------------------------------------
(* The next spec of a list is one of the list.                             *)
LEMMA NextIsThere ==
  ASSUME NEW todo \in SUBSET Specs, todo # {}, NEW deps, \A s \in todo : deps[s] \cap todo = {}
  PROVE  NextOf(todo, deps) \in todo
<1>1. Specs \subseteq Nat
  BY SpecsAssumption
<1>2. PICK m \in todo : \A s \in todo : ~(<<s, m>> \in OpToRel(<, Nat))
  BY <1>1, WFMin, NatLessThanWellFounded
<1>3. ASSUME NEW s \in todo PROVE m <= s
  <2>1. s \in Nat /\ m \in Nat
    BY <1>1
  <2>2. ~(s < m)
    BY <1>2, <2>1 DEF OpToRel
  <2> QED BY <2>1, <2>2
<1>4. {s \in todo : deps[s] \cap todo = {}} = todo
  OBVIOUS
<1>5. NextOf(todo, deps) = CHOOSE s \in todo : \A t \in todo : s <= t
  BY <1>4 DEF NextOf
<1> QED BY <1>3, <1>5

(* What a step may do to the evidence: only add to it. *)
EvidenceGrows ==
  /\ told \subseteq told' /\ landed \subseteq landed'
  /\ \A r \in Runs : wf[r].status # "none" =>
       /\ wf'[r].spec = wf[r].spec /\ wf'[r].status # "none"
       /\ wf[r].status # "running" => wf'[r] = wf[r]

LEMMA EvidenceStays ==
  ASSUME RunsSound, EvidenceGrows
  PROVE  \A s : /\ RunsOf(s) \subseteq RunsOf(s)'
                /\ Accepted(s) => Accepted(s)'
                /\ Refused(s) => Refused(s)'
                /\ \A v : v # "none" /\ Given(s, v) => Given(s, v)'
<1> SUFFICES ASSUME NEW s
             PROVE  /\ RunsOf(s) \subseteq RunsOf(s)'
                    /\ Accepted(s) => Accepted(s)'
                    /\ Refused(s) => Refused(s)'
                    /\ \A v : v # "none" /\ Given(s, v) => Given(s, v)'
  OBVIOUS
<1>1. RunsOf(s) \subseteq RunsOf(s)'
  BY DEF EvidenceGrows, RunsOf
<1>2. \A r \in RunsOf(s) :
        /\ wf[r].status \in {"completed", "failed"} => wf'[r] = wf[r]
        /\ wf[r].verdict # "none" => wf'[r] = wf[r]
  BY DEF EvidenceGrows, RunsOf, RunsSound
<1>3. Accepted(s) => Accepted(s)'
  BY <1>1, <1>2 DEF EvidenceGrows, Accepted
<1>4. Refused(s) => Refused(s)'
  BY <1>1, <1>2 DEF Refused
<1>5. \A v : v # "none" /\ Given(s, v) => Given(s, v)'
  BY <1>1, <1>2 DEF Given
<1> QED BY <1>1, <1>3, <1>4, <1>5

(* ... so what a shell carries stays justified.                            *)
LEMMA FrontStays ==
  ASSUME RunsSound, EvidenceGrows
  PROVE  \A s, f : FrontEarned(s, f) => FrontEarned(s, f)'
BY EvidenceStays DEF FrontEarned

LEMMA ChangeStays ==
  ASSUME RunsSound, EvidenceGrows
  PROVE  \A s, c : ChangeEarned(s, c) => ChangeEarned(s, c)'
BY EvidenceStays DEF ChangeEarned

LEMMA ListedStays ==
  ASSUME RunsSound, EvidenceGrows
  PROVE  \A s, e : ListedSound(s, e) => ListedSound(s, e)'
<1> SUFFICES ASSUME NEW s, NEW e, ListedSound(s, e), e.run # 0
             PROVE  ListedSound(s, e)'
  BY DEF ListedSound
<1>1. e.run \in RunsOf(s) /\ e.run \in RunsOf(s)'
  BY EvidenceStays DEF ListedSound
<1>2. e.status # "running" => wf'[e.run] = wf[e.run]
  BY <1>1 DEF ListedSound, EvidenceGrows, RunsOf
<1> QED BY <1>1, <1>2 DEF ListedSound

LEMMA ShellStays ==
  ASSUME RunsSound, EvidenceGrows
  PROVE  \A c : ShellSound(c) => ShellSound(c)'
<1> SUFFICES ASSUME NEW c, ShellSound(c)
             PROVE  ShellSound(c)'
  OBVIOUS
<1> USE DEF ShellSound
<1>1. TodoSound(c)'
  BY DEF TodoSound
<1>2. SeenSound(c)'
  BY FrontStays, ListedStays, EvidenceStays DEF SeenSound
<1>3. DropsEnded(c) => DropsEnded(c)'
  BY EvidenceStays DEF DropsEnded, EvidenceGrows, RunsOf, Running
<1>4. UpdateSound(c)'
  BY <1>3, FrontStays, ChangeStays DEF UpdateSound
<1> QED BY <1>1, <1>2, <1>4

---------------------------------------------------------------------------
(* One shell moves, and the rest of the state keeps what it needs.         *)
LEMMA ShellMoves ==
  ASSUME SpecsInv, NEW p \in Procs, EvidenceGrows,
         file' = [s \in Specs |-> file'[s]], \A s \in Specs : IsFront(file'[s]), FilesEarned',
         wf' = [r \in Runs |-> wf'[r]], \A r \in Runs : IsRun(wf'[r]), RunsSound',
         proc' = [proc EXCEPT ![p] = proc'[p]], IsShell(proc'[p]), ShellSound(proc[p])'
  PROVE  SpecsInv'
<1>1. /\ proc = [q \in Procs |-> proc[q]]
      /\ \A q \in Procs : IsShell(proc[q]) /\ ShellSound(proc[q])
  BY DEF SpecsInv, Shapes
<1>2. \A q \in Procs : q # p => proc'[q] = proc[q]
  BY <1>1
<1>3. proc' = [q \in Procs |-> proc'[q]]
  BY <1>1
<1>4. \A q \in Procs : IsShell(proc'[q])
  BY <1>1, <1>2
<1>5. Shapes'
  BY <1>3, <1>4 DEF Shapes, IsFront, IsRun, IsShell
<1>6. ASSUME NEW q \in Procs PROVE ShellSound(proc[q])'
  <2>1. CASE q = p
    BY <2>1
  <2>2. CASE q # p
    BY <1>1, <1>2, <2>2, ShellStays DEF SpecsInv
  <2> QED BY <2>1, <2>2
<1> QED BY <1>5, <1>6 DEF SpecsInv

LEMMA QuietMove ==
  ASSUME SpecsInv, NEW p \in Procs, UNCHANGED <<file, wf, landed, told>>,
         proc' = [proc EXCEPT ![p] = proc'[p]], IsShell(proc'[p]), ShellSound(proc'[p])
  PROVE  SpecsInv'
<1>1. EvidenceGrows
  BY DEF EvidenceGrows
<1>2. FilesEarned' /\ RunsSound'
  BY <1>1, FrontStays DEF SpecsInv, FilesEarned, RunsSound
<1>3. ShellSound(proc[p])'
  BY <1>1, ShellStays DEF SpecsInv
<1>4. /\ file' = [s \in Specs |-> file'[s]] /\ \A s \in Specs : IsFront(file'[s])
      /\ wf' = [r \in Runs |-> wf'[r]] /\ \A r \in Runs : IsRun(wf'[r])
  BY DEF SpecsInv, Shapes
<1> QED BY <1>1, <1>2, <1>3, <1>4, ShellMoves

(* A shell that carries nothing.                                           *)
LEMMA IdleSound ==
  /\ IsShell(Idle) /\ ShellSound(Idle)
  /\ IsShell(Dead) /\ ShellSound(Dead)
<1>1. \A s : FrontEarned(s, Blank)
  BY DEF FrontEarned, Blank
<1>2. \A s : ListedSound(s, NoRun)
  BY DEF ListedSound, NoRun
<1>3. Dead = [cmd |-> "none", pc |-> "dead", todo |-> {}, deps |-> NoDeps,
              seen |-> [s \in Specs |-> Blank], runs |-> [s \in Specs |-> NoRun],
              spec |-> 0, about |-> 0, buf |-> Blank, new |-> Change("ready", Keep, "none")]
  BY DEF Dead, Idle
<1>4. IsShell(Idle) /\ IsShell(Dead)
  BY <1>3 DEF Idle, IsShell
<1>5. TodoSound(Idle) /\ TodoSound(Dead)
  BY <1>3 DEF TodoSound, Idle
<1>6. SeenSound(Idle) /\ SeenSound(Dead)
  BY <1>1, <1>2, <1>3 DEF SeenSound, Idle
<1>7. UpdateSound(Idle) /\ UpdateSound(Dead)
  BY <1>3 DEF UpdateSound, Updating, Idle
<1> QED BY <1>4, <1>5, <1>6, <1>7 DEF ShellSound

(* A shell goes on with less of its list.                                  *)
LEMMA LoopMoves ==
  ASSUME SpecsInv, NEW p \in Procs,
         NEW pc \in {"submit", "look"}, pc = "submit" => proc[p].cmd \in {"spec", "all"},
         NEW todo \in SUBSET proc[p].todo, Loop(p, pc, todo)
  PROVE  proc' = [proc EXCEPT ![p] = proc'[p]] /\ IsShell(proc'[p]) /\ ShellSound(proc'[p])
<1>1. proc = [q \in Procs |-> proc[q]] /\ IsShell(proc[p]) /\ ShellSound(proc[p])
  BY DEF SpecsInv, Shapes
<1>2. CASE todo = {}
  <2>1. proc' = [proc EXCEPT ![p] = Idle]
    BY <1>2 DEF Loop
  <2>2. proc'[p] = Idle
    BY <1>1, <2>1
  <2>3. proc' = [proc EXCEPT ![p] = proc'[p]]
    BY <2>1, <2>2
  <2> QED BY <2>2, <2>3, IdleSound
<1>3. CASE todo # {}
  <2>1. proc' = [proc EXCEPT ![p] = [proc[p] EXCEPT !.pc = pc, !.todo = todo]]
    BY <1>1, <1>3 DEF Loop
  <2>2. proc'[p] = [cmd |-> proc[p].cmd, pc |-> pc, todo |-> todo, deps |-> proc[p].deps,
                    seen |-> proc[p].seen, runs |-> proc[p].runs, spec |-> proc[p].spec,
                    about |-> proc[p].about, buf |-> proc[p].buf, new |-> proc[p].new]
    BY <1>1, <2>1 DEF IsShell
  <2>3. IsShell(proc'[p])
    BY <2>2 DEF IsShell
  <2>4. TodoSound(proc'[p])
    BY <1>1, <1>3, <2>2 DEF ShellSound, TodoSound
  <2>5. SeenSound(proc'[p])
    BY <1>1, <2>2 DEF ShellSound, SeenSound
  <2>6. UpdateSound(proc'[p])
    BY <2>2 DEF UpdateSound, Updating
  <2>7. proc' = [proc EXCEPT ![p] = proc'[p]]
    BY <1>1, <2>1
  <2> QED BY <2>3, <2>4, <2>5, <2>6, <2>7 DEF ShellSound
<1> QED BY <1>2, <1>3

LEMMA LoopKeeps ==
  ASSUME SpecsInv, NEW p \in Procs, UNCHANGED <<file, wf, landed, told>>,
         NEW pc \in {"submit", "look"}, pc = "submit" => proc[p].cmd \in {"spec", "all"},
         NEW todo \in SUBSET proc[p].todo, Loop(p, pc, todo)
  PROVE  SpecsInv'
BY LoopMoves, QuietMove

(* What is decided about a spec from its own front matter and its own run  *)
(* is justified.                                                           *)
Decides(s, f, run) ==
  /\ s \in Specs /\ FrontEarned(s, f) /\ f.wid \in RunsOf(s)
  /\ run.status \in {"missing", "running"}
       \/ (wf[f.wid].status = run.status /\ wf[f.wid].verdict = run.verdict)

LEMMA DecisionEarned ==
  ASSUME RunsSound, NEW s, NEW f, NEW run, Decides(s, f, run)
  PROVE  LET c == Decision(s, f, run)
         IN /\ ChangeEarned(s, c)
            /\ \/ c.wid = Keep
               \/ /\ c = Change("ready", Clear, "none")
                  /\ run.status = "missing" \/ ~Running(f.wid)
<1> DEFINE verdict == IF f.verdict # "none" THEN f.verdict ELSE run.verdict
<1>1. f.wid \in RunsOf(s) /\ f.wid \in Runs
  BY DEF Decides, RunsOf
<1>2. run.status \notin {"missing", "running"} /\ verdict # "none" => Given(s, verdict)
  BY <1>1 DEF Decides, FrontEarned, Given
<1> DEFINE c == Decision(s, f, run)
<1>3. CASE run.status = "missing"
  <2>1. c = Change("ready", Clear, "none")
    BY <1>3 DEF Decision
  <2> QED BY <1>3, <2>1 DEF ChangeEarned, Change, Clear, Keep
<1>4. CASE run.status = "failed"
  <2>1. c = Change("failed", Keep, verdict)
    BY <1>4 DEF Decision
  <2>2. Refused(s)
    BY <1>1, <1>4 DEF Decides, Refused
  <2> QED BY <1>2, <1>4, <2>1, <2>2 DEF ChangeEarned, Change
<1>5. CASE run.status \notin {"missing", "failed", "completed"}
  <2>1. c = Change("dispatched", Keep, "none")
    BY <1>5 DEF Decision
  <2> QED BY <2>1 DEF ChangeEarned, Change
<1>6. CASE run.status = "completed" /\ verdict = "rejected"
  <2>1. c = Change("failed", Keep, verdict)
    BY <1>6 DEF Decision
  <2>2. Refused(s)
    BY <1>2, <1>6 DEF Given, Refused
  <2> QED BY <1>2, <1>6, <2>1, <2>2 DEF ChangeEarned, Change
<1>7. CASE run.status = "completed" /\ (verdict = "approved" \/ (verdict = "none" /\ s \in landed))
  <2>1. c = Change("done", Keep, verdict)
    BY <1>7 DEF Decision
  <2>2. CASE verdict = "approved"
    <3>1. PICK r \in RunsOf(s) : wf[r].verdict = "approved"
      BY <1>2, <1>7, <2>2 DEF Given
    <3>2. wf[r].status = "completed"
      BY <3>1 DEF RunsSound, RunsOf
    <3>3. Accepted(s)
      BY <3>1, <3>2 DEF Accepted
    <3> QED BY <1>2, <1>7, <2>1, <2>2, <3>3 DEF ChangeEarned, Change
  <2>3. CASE verdict = "none" /\ s \in landed
    <3>1. Accepted(s)
      BY <1>1, <1>7, <2>3 DEF Decides, Accepted
    <3> QED BY <2>1, <2>3, <3>1 DEF ChangeEarned, Change
  <2> QED BY <1>7, <2>2, <2>3
<1>8. CASE run.status = "completed" /\ verdict # "rejected" /\ verdict # "approved"
           /\ ~(verdict = "none" /\ s \in landed)
  <2>1. c = Change("ready", Clear, "none")
    BY <1>8 DEF Decision
  <2>2. ~Running(f.wid)
    BY <1>8 DEF Decides, Running
  <2> QED BY <2>1, <2>2 DEF ChangeEarned, Change, Clear, Keep
<1> QED BY <1>3, <1>4, <1>5, <1>6, <1>7, <1>8

(* Deciding keeps the invariant.                                           *)
LEMMA DecideKeeps ==
  ASSUME SpecsInv, NEW p \in Procs, UNCHANGED <<file, wf, landed, told>>,
         proc[p].pc = "look", NEW s, NEW f, NEW run, Decides(s, f, run),
         proc[p].cmd = "reconcile" \/ run.status # "missing",
         Decide(p, s, f, run)
  PROVE  SpecsInv'
<1> DEFINE c == Decision(s, f, run)
<1> DEFINE todo == proc[p].todo \ {s}
<1>1. proc = [q \in Procs |-> proc[q]] /\ IsShell(proc[p]) /\ ShellSound(proc[p])
  BY DEF SpecsInv, Shapes
<1>2. /\ ChangeEarned(s, c)
      /\ \/ c.wid = Keep
         \/ /\ c = Change("ready", Clear, "none")
            /\ run.status = "missing" \/ ~Running(f.wid)
  BY DecisionEarned DEF SpecsInv
<1> HIDE DEF c
<1>3. CASE c.status = "dispatched"
  <2>1. Loop(p, "look", todo)
    BY <1>3 DEF Decide, c
  <2>2. todo \in SUBSET proc[p].todo
    OBVIOUS
  <2> QED BY <2>1, <2>2, LoopKeeps
<1>4. CASE c.status # "dispatched"
  <2>1. proc' = [proc EXCEPT ![p] = [@ EXCEPT !.pc = "read", !.spec = s, !.about = f.wid,
                                              !.todo = todo, !.new = c]]
    BY <1>4 DEF Decide, c
  <2>2. proc'[p] = [cmd |-> proc[p].cmd, pc |-> "read", todo |-> todo, deps |-> proc[p].deps,
                    seen |-> proc[p].seen, runs |-> proc[p].runs, spec |-> s,
                    about |-> f.wid, buf |-> proc[p].buf, new |-> c]
    BY <1>1, <2>1 DEF IsShell
  <2>3. IsShell(proc'[p])
    BY <2>2 DEF IsShell
  <2>4. TodoSound(proc'[p])
    BY <1>1, <2>2 DEF ShellSound, TodoSound
  <2>5. SeenSound(proc'[p])
    BY <1>1, <2>2 DEF ShellSound, SeenSound
  <2>6. UpdateSound(proc'[p])
    BY <1>2, <2>2 DEF UpdateSound, Decides, DropsEnded
  <2>7. proc' = [proc EXCEPT ![p] = proc'[p]]
    BY <1>1, <2>1
  <2> QED BY <2>3, <2>4, <2>5, <2>6, <2>7, QuietMove DEF ShellSound
<1> QED BY <1>3, <1>4

LEMMA DescribeKeeps ==
  ASSUME SpecsInv, NEW p \in Procs, Describe(p)
  PROVE  SpecsInv'
<1> DEFINE s == NextOf(proc[p].todo, NoDeps)
<1> DEFINE f == proc[p].seen[s]
<1>1. ShellSound(proc[p]) /\ RunsSound
  BY DEF SpecsInv
<1>2. s \in proc[p].todo /\ s \in Specs
  <2>1. proc[p].todo \in SUBSET Specs /\ proc[p].todo # {}
    BY <1>1 DEF Describe, ShellSound, TodoSound
  <2>2. \A t \in proc[p].todo : NoDeps[t] \cap proc[p].todo = {}
    BY <2>1 DEF NoDeps
  <2> QED BY <2>1, <2>2, NextIsThere
<1>3. FrontEarned(s, f) /\ f.wid \in RunsOf(s)
  BY <1>1, <1>2 DEF Describe, ShellSound, SeenSound, Settles, FrontEarned
<1>4. PICK run \in {wf[f.wid], Missing} : Decide(p, s, f, run)
  BY DEF Describe
<1>5. Decides(s, f, run)
  <2> HIDE DEF s, f
  <2>1. \/ run.status = "missing"
        \/ wf[f.wid].status = run.status /\ wf[f.wid].verdict = run.verdict
    BY <1>4 DEF Missing
  <2> QED BY <1>2, <1>3, <2>1 DEF Decides
<1>6. proc[p].pc = "look" /\ proc[p].cmd = "reconcile" /\ UNCHANGED <<file, wf, landed, told>>
  BY DEF Describe
<1> QED BY <1>4, <1>5, <1>6, DecideKeeps

LEMMA MatchKeeps ==
  ASSUME SpecsInv, NEW p \in Procs, Match(p)
  PROVE  SpecsInv'
<1> DEFINE s == NextOf(proc[p].todo, NoDeps)
<1> DEFINE run == proc[p].runs[s]
<1>1. ShellSound(proc[p]) /\ RunsSound
  BY DEF SpecsInv
<1>2. s \in proc[p].todo /\ s \in Specs
  <2>1. proc[p].todo \in SUBSET Specs /\ proc[p].todo # {}
    BY <1>1 DEF Match, ShellSound, TodoSound
  <2>2. \A t \in proc[p].todo : NoDeps[t] \cap proc[p].todo = {}
    BY <2>1 DEF NoDeps
  <2> QED BY <2>1, <2>2, NextIsThere
<1>3. /\ proc[p].pc = "look" /\ UNCHANGED <<file, wf, landed, told>>
      /\ \/ /\ Parsed(s).wid = run.run /\ Settles(Parsed(s))
            /\ Decide(p, s, Parsed(s), run)
         \/ Loop(p, "look", proc[p].todo \ {s})
  BY DEF Match
<1>4. CASE Loop(p, "look", proc[p].todo \ {s})
  <2>1. proc[p].todo \ {s} \in SUBSET proc[p].todo
    OBVIOUS
  <2> QED BY <1>3, <1>4, <2>1, LoopKeeps
<1>5. CASE Parsed(s).wid = run.run /\ Settles(Parsed(s)) /\ Decide(p, s, Parsed(s), run)
  <2>1. Parsed(s) = file[s]
    BY <1>5 DEF Parsed, Settles, Blank
  <2>2. FrontEarned(s, Parsed(s))
    BY <1>2, <2>1 DEF SpecsInv, FilesEarned
  <2>3. ListedSound(s, run) /\ run.run # 0
    BY <1>1, <1>2, <1>5 DEF ShellSound, SeenSound, Settles
  <2>4. Parsed(s).wid \in RunsOf(s) /\ run.status # "missing"
    BY <1>1, <1>5, <2>3 DEF ListedSound, RunsSound, RunsOf
  <2>5. Decides(s, Parsed(s), run)
    BY <1>2, <1>5, <2>2, <2>3, <2>4 DEF Decides, ListedSound
  <2> QED BY <1>3, <1>5, <2>4, <2>5, DecideKeeps
<1> QED BY <1>3, <1>4, <1>5

---------------------------------------------------------------------------
(* A listed run of a spec is one of its runs.                              *)
LEMMA ListingsSound ==
  \A s \in Specs : \A e \in Listings(s) : ListedSound(s, e)
  BY DEF Listings, ListedSound, NoRun

(* The commands start.                                                     *)
LEMMA StartsKeep ==
  ASSUME SpecsInv, NEW p \in Procs,
         (\E s \in Specs : StartSpec(p, s)) \/ StartAll(p) \/ StartReconcile(p) \/ StartList(p)
  PROVE  SpecsInv'
<1>1. proc = [q \in Procs |-> proc[q]] /\ \A s \in Specs : FrontEarned(s, file[s])
  BY DEF SpecsInv, Shapes, FilesEarned
<1>2. UNCHANGED <<file, wf, landed, told>>
  BY DEF StartSpec, StartAll, StartReconcile, StartList
<1>3. \A s \in Specs : /\ FrontEarned(s, Blank) /\ FrontEarned(s, Parsed(s))
                        /\ ListedSound(s, NoRun)
  BY <1>1 DEF FrontEarned, Parsed, Blank, ListedSound, NoRun
<1>4. CASE \E s \in Specs : StartSpec(p, s)
  <2>1. PICK s \in Specs :
          proc' = [proc EXCEPT ![p] = [Idle EXCEPT !.cmd = "spec", !.pc = "submit", !.todo = {s}]]
    BY <1>4 DEF StartSpec
  <2>2. proc'[p] = [cmd |-> "spec", pc |-> "submit", todo |-> {s}, deps |-> NoDeps,
                    seen |-> [t \in Specs |-> Blank], runs |-> [t \in Specs |-> NoRun],
                    spec |-> 0, about |-> 0, buf |-> Blank, new |-> Change("ready", Keep, "none")]
    BY <1>1, <2>1 DEF Idle
  <2>3. IsShell(proc'[p])
    BY <2>2 DEF IsShell
  <2>4. TodoSound(proc'[p])
    BY <2>2 DEF TodoSound, NoDeps
  <2>5. SeenSound(proc'[p])
    BY <1>3, <2>2 DEF SeenSound
  <2>6. UpdateSound(proc'[p])
    BY <2>2 DEF UpdateSound, Updating
  <2>7. proc' = [proc EXCEPT ![p] = proc'[p]]
    BY <1>1, <2>1
  <2> QED BY <1>2, <2>3, <2>4, <2>5, <2>6, <2>7, QuietMove DEF ShellSound
<1>5. CASE StartAll(p)
  <2>1. proc' = [proc EXCEPT ![p] = [Idle EXCEPT !.cmd = "all", !.pc = "validate",
                   !.todo = ResolvedDag, !.deps = [s \in Specs |-> ParsedDeps(s)]]]
    BY <1>5 DEF StartAll
  <2>2. proc'[p] = [cmd |-> "all", pc |-> "validate", todo |-> ResolvedDag,
                    deps |-> [t \in Specs |-> ParsedDeps(t)],
                    seen |-> [t \in Specs |-> Blank], runs |-> [t \in Specs |-> NoRun],
                    spec |-> 0, about |-> 0, buf |-> Blank, new |-> Change("ready", Keep, "none")]
    BY <1>1, <2>1 DEF Idle
  <2>3. IsShell(proc'[p])
    BY <2>2 DEF IsShell
  <2>4. ResolvedDag # {} /\ ResolvedDag \subseteq Specs
    BY <1>5 DEF StartAll, ResolvedDag
  <2>5. \A s \in ResolvedDag : ParsedDeps(s) \cap ResolvedDag = {}
    BY DEF ResolvedDag
  <2>6. TodoSound(proc'[p])
    BY <2>2, <2>4, <2>5 DEF TodoSound
  <2>7. ASSUME NEW s \in ResolvedDag, ParsedDeps(s) = Deps[s], NEW d \in Deps[s]
        PROVE  Accepted(d)
    <3>1. d \in Specs
      BY <2>4, SpecsAssumption
    <3>2. Parsed(d).status = "done"
      BY <2>7 DEF ResolvedDag
    <3> QED BY <1>3, <3>1, <3>2 DEF FrontEarned
  <2>8. SeenSound(proc'[p])
    BY <1>3, <2>2, <2>4, <2>7 DEF SeenSound
  <2>9. UpdateSound(proc'[p])
    BY <2>2 DEF UpdateSound, Updating
  <2>10. proc' = [proc EXCEPT ![p] = proc'[p]]
    BY <1>1, <2>1
  <2> QED BY <1>2, <2>3, <2>6, <2>8, <2>9, <2>10, QuietMove DEF ShellSound
<1>6. CASE StartReconcile(p)
  <2> DEFINE todo == {s \in Specs : Settles(Parsed(s))}
  <2> DEFINE seen == [s \in Specs |-> IF Settles(Parsed(s)) THEN Parsed(s) ELSE Blank]
  <2>1. proc' = [proc EXCEPT ![p] = [Idle EXCEPT !.cmd = "reconcile", !.pc = "look",
                                                 !.todo = todo, !.seen = seen]]
    BY <1>6 DEF StartReconcile
  <2>2. proc'[p] = [cmd |-> "reconcile", pc |-> "look", todo |-> todo, deps |-> NoDeps,
                    seen |-> seen, runs |-> [t \in Specs |-> NoRun],
                    spec |-> 0, about |-> 0, buf |-> Blank, new |-> Change("ready", Keep, "none")]
    BY <1>1, <2>1 DEF Idle
  <2>3. IsShell(proc'[p])
    BY <2>2 DEF IsShell
  <2>4. todo # {} /\ todo \subseteq Specs
    BY <1>6 DEF StartReconcile
  <2>5. /\ \A s \in Specs : FrontEarned(s, seen[s])
        /\ \A s \in todo : Settles(seen[s])
    BY <1>3
  <2> HIDE DEF todo, seen
  <2>6. TodoSound(proc'[p])
    BY <2>2, <2>4 DEF TodoSound, NoDeps
  <2>7. SeenSound(proc'[p])
    BY <1>3, <2>2, <2>5 DEF SeenSound
  <2>8. UpdateSound(proc'[p])
    BY <2>2 DEF UpdateSound, Updating
  <2>9. proc' = [proc EXCEPT ![p] = proc'[p]]
    BY <1>1, <2>1
  <2> QED BY <1>2, <2>3, <2>6, <2>7, <2>8, <2>9, QuietMove DEF ShellSound
<1>7. CASE StartList(p)
  <2>0. PICK runs \in [Specs -> UNION {Listings(s) : s \in Specs}] :
          /\ \A s \in Specs : runs[s] \in Listings(s)
          /\ {s \in Specs : runs[s] # NoRun} # {}
          /\ proc' = [proc EXCEPT ![p] =
               [Idle EXCEPT !.cmd = "list", !.pc = "look",
                            !.todo = {s \in Specs : runs[s] # NoRun}, !.runs = runs]]
    BY <1>7 DEF StartList
  <2> DEFINE todo == {s \in Specs : runs[s] # NoRun}
  <2>1. proc' = [proc EXCEPT ![p] = [Idle EXCEPT !.cmd = "list", !.pc = "look",
                                                 !.todo = todo, !.runs = runs]]
    BY <2>0
  <2>2. proc'[p] = [cmd |-> "list", pc |-> "look", todo |-> todo, deps |-> NoDeps,
                    seen |-> [t \in Specs |-> Blank], runs |-> runs,
                    spec |-> 0, about |-> 0, buf |-> Blank, new |-> Change("ready", Keep, "none")]
    BY <1>1, <2>1 DEF Idle
  <2>3. IsShell(proc'[p])
    BY <2>2 DEF IsShell
  <2>4. todo # {} /\ todo \subseteq Specs
    BY <2>0
  <2>5. \A s \in Specs : ListedSound(s, runs[s])
    BY <2>0, ListingsSound
  <2> HIDE DEF todo
  <2>6. TodoSound(proc'[p])
    BY <2>2, <2>4 DEF TodoSound, NoDeps
  <2>7. SeenSound(proc'[p])
    BY <1>3, <2>2, <2>5 DEF SeenSound
  <2>8. UpdateSound(proc'[p])
    BY <2>2 DEF UpdateSound, Updating
  <2>9. proc' = [proc EXCEPT ![p] = proc'[p]]
    BY <1>1, <2>1
  <2> QED BY <1>2, <2>3, <2>6, <2>7, <2>8, <2>9, QuietMove DEF ShellSound
<1> QED BY <1>4, <1>5, <1>6, <1>7

(* A workflow that begins adds to the evidence.                            *)
LEMMA BeginsGrows ==
  ASSUME SpecsInv, NEW s \in Specs, NEW r \in Runs, Begins(r, s), UNCHANGED <<file, landed, told>>
  PROVE  /\ EvidenceGrows /\ FilesEarned' /\ RunsSound'
         /\ file' = [t \in Specs |-> file'[t]] /\ \A t \in Specs : IsFront(file'[t])
         /\ wf' = [q \in Runs |-> wf'[q]] /\ \A q \in Runs : IsRun(wf'[q])
         /\ r \in RunsOf(s)'
<1>1. /\ wf = [q \in Runs |-> wf[q]] /\ \A q \in Runs : IsRun(wf[q])
      /\ file = [t \in Specs |-> file[t]] /\ \A t \in Specs : IsFront(file[t])
  BY DEF SpecsInv, Shapes
<1>2. /\ wf[r].status = "none"
      /\ wf' = [wf EXCEPT ![r] = [spec |-> s, status |-> "running", verdict |-> "none"]]
  BY DEF Begins, Fresh
<1>3. /\ wf'[r] = [spec |-> s, status |-> "running", verdict |-> "none"]
      /\ \A q \in Runs : q # r => wf'[q] = wf[q]
      /\ wf' = [q \in Runs |-> wf'[q]]
  BY <1>1, <1>2
<1>4. \A q \in Runs : IsRun(wf'[q])
  BY <1>1, <1>3 DEF IsRun
<1>5. RunsSound'
  BY <1>3 DEF SpecsInv, RunsSound
<1>6. EvidenceGrows
  BY <1>2, <1>3 DEF EvidenceGrows
<1>7. FilesEarned'
  BY <1>6, FrontStays DEF SpecsInv, FilesEarned
<1>8. r \in RunsOf(s)'
  BY <1>3 DEF RunsOf
<1> QED BY <1>1, <1>3, <1>4, <1>5, <1>6, <1>7, <1>8

(* The next spec of a shell that submits is one of its list.               *)
LEMMA NextSubmitted ==
  ASSUME SpecsInv, NEW p \in Procs, proc[p].pc = "submit"
  PROVE  /\ proc[p].cmd \in {"spec", "all"}
         /\ NextOf(proc[p].todo, proc[p].deps) \in proc[p].todo
         /\ NextOf(proc[p].todo, proc[p].deps) \in Specs
<1>1. ShellSound(proc[p])
  BY DEF SpecsInv
<1>2. /\ proc[p].todo \in SUBSET Specs /\ proc[p].todo # {}
      /\ \A t \in proc[p].todo : proc[p].deps[t] \cap proc[p].todo = {}
  BY <1>1 DEF ShellSound, TodoSound
<1>3. proc[p].cmd \in {"spec", "all"}
  BY <1>1 DEF ShellSound, TodoSound
<1> QED BY <1>2, <1>3, NextIsThere

(* The candidates are validated, and submitted in order.                   *)
LEMMA ValidateKeeps ==
  ASSUME SpecsInv, NEW p \in Procs, Validate(p)
  PROVE  SpecsInv'
<1>1. UNCHANGED <<file, wf, landed, told>>
  BY DEF Validate
<1>2. PICK todo \in SUBSET proc[p].todo : Loop(p, "submit", todo)
  BY DEF Validate
<1>3. proc[p].cmd \in {"spec", "all"}
  BY DEF Validate, SpecsInv, ShellSound, TodoSound
<1> QED BY <1>1, <1>2, <1>3, LoopKeeps

LEMMA SubmitFailsKeeps ==
  ASSUME SpecsInv, NEW p \in Procs, SubmitFails(p)
  PROVE  SpecsInv'
<1> DEFINE s == NextOf(proc[p].todo, proc[p].deps)
<1>1. proc[p].cmd \in {"spec", "all"} /\ s \in Specs
  BY NextSubmitted DEF SubmitFails
<1>2. /\ UNCHANGED <<file, landed, told>> /\ Loop(p, "submit", proc[p].todo \ {s})
      /\ UNCHANGED wf \/ \E r \in Runs : Begins(r, s)
  BY DEF SubmitFails
<1> HIDE DEF s
<1>3. PICK todo \in SUBSET proc[p].todo : Loop(p, "submit", todo)
  BY <1>2
<1>4. CASE UNCHANGED wf
  BY <1>1, <1>2, <1>3, <1>4, LoopKeeps
<1>5. ASSUME NEW r \in Runs, Begins(r, s)
      PROVE  SpecsInv'
  <2>1. proc' = [proc EXCEPT ![p] = proc'[p]] /\ IsShell(proc'[p]) /\ ShellSound(proc'[p])
    BY <1>1, <1>3, LoopMoves
  <2>2. /\ EvidenceGrows /\ FilesEarned' /\ RunsSound'
        /\ file' = [t \in Specs |-> file'[t]] /\ \A t \in Specs : IsFront(file'[t])
        /\ wf' = [q \in Runs |-> wf'[q]] /\ \A q \in Runs : IsRun(wf'[q])
    BY <1>1, <1>2, <1>5, BeginsGrows
  <2>3. ShellSound(proc[p])'
    BY <2>1, <2>2, ShellStays DEF SpecsInv
  <2> QED BY <2>1, <2>2, <2>3, ShellMoves
<1> QED BY <1>2, <1>4, <1>5

LEMMA SubmitKeeps ==
  ASSUME SpecsInv, NEW p \in Procs, Submit(p)
  PROVE  SpecsInv'
<1>1. /\ proc = [q \in Procs |-> proc[q]] /\ IsShell(proc[p]) /\ ShellSound(proc[p])
  BY DEF SpecsInv, Shapes
<1>2. PICK s \in Specs : s = NextOf(proc[p].todo, proc[p].deps) /\ s \in proc[p].todo
  BY NextSubmitted DEF Submit
<1>3. PICK r \in Runs :
        /\ Begins(r, s)
        /\ proc' = [proc EXCEPT ![p].pc = "read", ![p].spec = s, ![p].about = r,
                                ![p].todo = @ \ {s}, ![p].new = Change("dispatched", r, "none")]
  BY <1>2 DEF Submit
<1>4. UNCHANGED <<file, landed, told>>
  BY DEF Submit
<1>5. /\ EvidenceGrows /\ FilesEarned' /\ RunsSound' /\ r \in RunsOf(s)'
      /\ file' = [t \in Specs |-> file'[t]] /\ \A t \in Specs : IsFront(file'[t])
      /\ wf' = [q \in Runs |-> wf'[q]] /\ \A q \in Runs : IsRun(wf'[q])
  BY <1>3, <1>4, BeginsGrows
<1>6. proc'[p] = [cmd |-> proc[p].cmd, pc |-> "read", todo |-> proc[p].todo \ {s},
                  deps |-> proc[p].deps, seen |-> proc[p].seen, runs |-> proc[p].runs,
                  spec |-> s, about |-> r, buf |-> proc[p].buf,
                  new |-> Change("dispatched", r, "none")]
  BY <1>1, <1>3 DEF IsShell
<1>7. IsShell(proc'[p]) /\ proc' = [proc EXCEPT ![p] = proc'[p]]
  BY <1>1, <1>3, <1>6 DEF IsShell
<1>8. TodoSound(proc'[p])
  BY <1>1, <1>6 DEF ShellSound, TodoSound
<1>9. SeenSound(proc'[p])
  BY <1>1, <1>6 DEF ShellSound, SeenSound
<1>10. SeenSound(proc[p])'
  BY <1>5, <1>9, FrontStays, ListedStays, EvidenceStays DEF SpecsInv, SeenSound
<1>11. proc[p].cmd \in {"spec", "all"}
  BY NextSubmitted DEF Submit
<1>12. ChangeEarned(s, Change("dispatched", r, "none"))'
  BY <1>5 DEF ChangeEarned, Change
<1>13. UpdateSound(proc[p])'
  BY <1>2, <1>6, <1>11, <1>12 DEF UpdateSound, DropsEnded
<1>14. ShellSound(proc[p])'
  BY <1>8, <1>10, <1>13 DEF ShellSound, TodoSound
<1> QED BY <1>5, <1>7, <1>14, ShellMoves

(* mtor rptor_done: the evidence is the operator's word.                   *)
LEMMA StartDoneKeeps ==
  ASSUME SpecsInv, NEW p \in Procs, NEW s \in Specs, StartDone(p, s)
  PROVE  SpecsInv'
<1>1. /\ proc = [q \in Procs |-> proc[q]]
      /\ wf = [r \in Runs |-> wf[r]] /\ \A r \in Runs : IsRun(wf[r])
      /\ file = [t \in Specs |-> file[t]] /\ \A t \in Specs : IsFront(file[t])
  BY DEF SpecsInv, Shapes
<1>2. /\ proc' = [proc EXCEPT ![p] = [Idle EXCEPT !.cmd = "done", !.pc = "read", !.spec = s,
                                                  !.new = Change("done", Keep, "none")]]
      /\ told' = told \cup {s} /\ UNCHANGED <<file, wf, landed>>
  BY DEF StartDone
<1>3. proc'[p] = [cmd |-> "done", pc |-> "read", todo |-> {}, deps |-> NoDeps,
                  seen |-> [t \in Specs |-> Blank], runs |-> [t \in Specs |-> NoRun],
                  spec |-> s, about |-> 0, buf |-> Blank, new |-> Change("done", Keep, "none")]
  BY <1>1, <1>2 DEF Idle
<1>4. IsShell(proc'[p])
  BY <1>3 DEF IsShell
<1>5. EvidenceGrows
  BY <1>2 DEF EvidenceGrows
<1>6. FilesEarned' /\ RunsSound'
  BY <1>2, <1>5, FrontStays DEF SpecsInv, FilesEarned, RunsSound
<1>7. TodoSound(proc[p])'
  BY <1>3 DEF TodoSound
<1>8. SeenSound(proc[p])'
  BY <1>3 DEF SeenSound, FrontEarned, ListedSound, Blank, NoRun
<1>9. Accepted(s)'
  BY <1>2 DEF Accepted
<1>10. UpdateSound(proc[p])'
  BY <1>3, <1>9 DEF UpdateSound, ChangeEarned, DropsEnded, Change
<1>11. proc' = [proc EXCEPT ![p] = proc'[p]]
  BY <1>1, <1>2
<1>12. wf' = [r \in Runs |-> wf'[r]] /\ \A r \in Runs : IsRun(wf'[r])
  BY <1>1, <1>2
<1>13. file' = [t \in Specs |-> file'[t]] /\ \A t \in Specs : IsFront(file'[t])
  BY <1>1, <1>2
<1> QED BY <1>4, <1>5, <1>6, <1>7, <1>8, <1>10, <1>11, <1>12, <1>13, ShellMoves DEF ShellSound

---------------------------------------------------------------------------
(* The update of a file: what is written is the change applied to what was *)
(* read, however old.                                                      *)
LEMMA ResumeMoves ==
  ASSUME SpecsInv, NEW p \in Procs, Resume(p)
  PROVE  proc' = [proc EXCEPT ![p] = proc'[p]] /\ IsShell(proc'[p]) /\ ShellSound(proc'[p])
<1>1. PICK pc \in {"submit", "look"} :
        /\ pc = "submit" => proc[p].cmd \in {"spec", "all"}
        /\ Loop(p, pc, proc[p].todo)
  BY DEF Resume
<1>2. proc[p].todo \in SUBSET proc[p].todo
  OBVIOUS
<1> QED BY <1>1, <1>2, LoopMoves

LEMMA ReadKeeps ==
  ASSUME SpecsInv, NEW p \in Procs, Read(p) \/ Open(p)
  PROVE  SpecsInv'
<1>1. proc = [q \in Procs |-> proc[q]] /\ IsShell(proc[p]) /\ ShellSound(proc[p])
  BY DEF SpecsInv, Shapes
<1>2. UNCHANGED <<file, wf, landed, told>> /\ proc[p].pc \in {"read", "open"}
  BY DEF Read, Open
<1>3. proc[p].spec \in Specs
  BY <1>1, <1>2 DEF ShellSound, UpdateSound, Updating
<1>4. CASE Resume(p)
  BY <1>2, <1>4, ResumeMoves, QuietMove
<1>5. ASSUME NEW pc \in {"open", "write"}, NEW buf, FrontEarned(proc[p].spec, buf),
             proc' = [proc EXCEPT ![p] = proc'[p]],
             proc'[p] = [cmd |-> proc[p].cmd, pc |-> pc, todo |-> proc[p].todo,
                         deps |-> proc[p].deps, seen |-> proc[p].seen, runs |-> proc[p].runs,
                         spec |-> proc[p].spec, about |-> proc[p].about, buf |-> buf,
                         new |-> proc[p].new]
      PROVE  SpecsInv'
  <2>1. IsShell(proc'[p])
    BY <1>5 DEF IsShell
  <2>2. TodoSound(proc'[p])
    BY <1>1, <1>5 DEF ShellSound, TodoSound
  <2>3. SeenSound(proc'[p])
    BY <1>1, <1>5 DEF ShellSound, SeenSound
  <2>4. DropsEnded(proc[p]) => DropsEnded(proc'[p])
    BY <1>5 DEF DropsEnded
  <2>5. UpdateSound(proc'[p])
    BY <1>1, <1>2, <1>5, <2>4 DEF ShellSound, UpdateSound, Updating
  <2> QED BY <1>2, <1>5, <2>1, <2>2, <2>3, <2>5, QuietMove DEF ShellSound
<1>6. CASE Read(p) /\ ~Resume(p)
  <2>1. proc' = [proc EXCEPT ![p].pc = "open", ![p].buf = file[proc[p].spec]]
    BY <1>6 DEF Read
  <2>2. FrontEarned(proc[p].spec, file[proc[p].spec])
    BY <1>3 DEF SpecsInv, FilesEarned
  <2>3. proc'[p] = [cmd |-> proc[p].cmd, pc |-> "open", todo |-> proc[p].todo,
                    deps |-> proc[p].deps, seen |-> proc[p].seen, runs |-> proc[p].runs,
                    spec |-> proc[p].spec, about |-> proc[p].about,
                    buf |-> file[proc[p].spec], new |-> proc[p].new]
    BY <1>1, <2>1 DEF IsShell
  <2>4. proc' = [proc EXCEPT ![p] = proc'[p]]
    BY <1>1, <2>1
  <2> QED BY <1>5, <2>2, <2>3, <2>4
<1>7. CASE Open(p)
  <2>1. proc' = [proc EXCEPT ![p].pc = "write"] /\ proc[p].pc = "open"
    BY <1>7 DEF Open
  <2>2. FrontEarned(proc[p].spec, proc[p].buf)
    BY <1>1, <2>1 DEF ShellSound, UpdateSound, Updating
  <2>3. proc'[p] = [cmd |-> proc[p].cmd, pc |-> "write", todo |-> proc[p].todo,
                    deps |-> proc[p].deps, seen |-> proc[p].seen, runs |-> proc[p].runs,
                    spec |-> proc[p].spec, about |-> proc[p].about,
                    buf |-> proc[p].buf, new |-> proc[p].new]
    BY <1>1, <2>1 DEF IsShell
  <2>4. proc' = [proc EXCEPT ![p] = proc'[p]]
    BY <1>1, <2>1
  <2> QED BY <1>5, <2>2, <2>3, <2>4
<1> QED BY <1>4, <1>6, <1>7

LEMMA AppliedEarned ==
  ASSUME NEW s, NEW f, NEW c, FrontEarned(s, f), ChangeEarned(s, c)
  PROVE  FrontEarned(s, Applied(f, c))
BY DEF FrontEarned, ChangeEarned, Applied, Keep, Clear

(* A file that changes, to justified front matter.                         *)
LEMMA FileChanges ==
  ASSUME SpecsInv, EvidenceGrows, NEW s \in Specs,
         file' = [file EXCEPT ![s] = file'[s]], IsFront(file'[s]), FrontEarned(s, file'[s])
  PROVE  /\ file' = [t \in Specs |-> file'[t]] /\ \A t \in Specs : IsFront(file'[t])
         /\ FilesEarned'
<1>1. file = [t \in Specs |-> file[t]] /\ \A t \in Specs : IsFront(file[t])
  BY DEF SpecsInv, Shapes
<1>2. \A t \in Specs : t # s => file'[t] = file[t]
  BY <1>1
<1>3. file' = [t \in Specs |-> file'[t]]
  BY <1>1
<1>4. \A t \in Specs : IsFront(file'[t])
  BY <1>1, <1>2
<1>5. \A t \in Specs : FrontEarned(t, file'[t])
  BY <1>2 DEF SpecsInv, FilesEarned
<1>6. FilesEarned'
  BY <1>5, FrontStays DEF SpecsInv, FilesEarned
<1> QED BY <1>3, <1>4, <1>6

LEMMA WriteKeeps ==
  ASSUME SpecsInv, NEW p \in Procs, Write(p)
  PROVE  SpecsInv'
<1>1. UNCHANGED <<wf, landed, told>>
  BY DEF Write
<1>2. EvidenceGrows /\ RunsSound'
  BY <1>1 DEF EvidenceGrows, SpecsInv, RunsSound
<1>3. PICK s \in Specs :
        /\ s = proc[p].spec
        /\ FrontEarned(s, proc[p].buf) /\ ChangeEarned(s, proc[p].new)
  BY DEF Write, SpecsInv, ShellSound, UpdateSound, Updating
<1>4. file' = [file EXCEPT ![s] = Applied(proc[p].buf, proc[p].new)]
  BY <1>3 DEF Write
<1>5. file'[s] = Applied(proc[p].buf, proc[p].new)
  BY <1>4 DEF SpecsInv, Shapes
<1>6. file' = [file EXCEPT ![s] = file'[s]]
  BY <1>4, <1>5
<1>7. IsFront(file'[s])
  BY <1>5 DEF IsFront, Applied
<1>8. FrontEarned(s, file'[s])
  BY <1>3, <1>5, AppliedEarned
<1>9. /\ file' = [t \in Specs |-> file'[t]] /\ \A t \in Specs : IsFront(file'[t])
      /\ FilesEarned'
  BY <1>2, <1>6, <1>7, <1>8, FileChanges
<1>10. proc' = [proc EXCEPT ![p] = proc'[p]] /\ IsShell(proc'[p]) /\ ShellSound(proc'[p])
  BY ResumeMoves DEF Write
<1>11. ShellSound(proc[p])'
  BY <1>2, <1>10, ShellStays DEF SpecsInv
<1>12. wf' = [r \in Runs |-> wf'[r]] /\ \A r \in Runs : IsRun(wf'[r])
  BY <1>1 DEF SpecsInv, Shapes
<1> QED BY <1>2, <1>9, <1>10, <1>11, <1>12, ShellMoves

LEMMA DieKeeps ==
  ASSUME SpecsInv, NEW p \in Procs, Die(p)
  PROVE  SpecsInv'
<1>1. proc' = [proc EXCEPT ![p] = Dead] /\ UNCHANGED <<file, wf, landed, told>>
  BY DEF Die
<1>2. proc'[p] = Dead
  BY <1>1 DEF SpecsInv, Shapes
<1>3. proc' = [proc EXCEPT ![p] = proc'[p]]
  BY <1>1, <1>2
<1> QED BY <1>1, <1>2, <1>3, IdleSound, QuietMove

---------------------------------------------------------------------------
(* A workflow ends, a commit lands, the operator edits a status.           *)
LEMMA RunEnds ==
  ASSUME wf = [r \in Runs |-> wf[r]], \A r \in Runs : IsRun(wf[r]), NEW r \in Runs, Ends(r)
  PROVE  /\ \A q \in Runs : q # r => wf'[q] = wf[q]
         /\ wf' = [q \in Runs |-> wf'[q]]
         /\ \E v : \/ wf'[r] = [spec |-> wf[r].spec, status |-> "completed", verdict |-> v]
                   \/ wf'[r] = [spec |-> wf[r].spec, status |-> "failed", verdict |-> wf[r].verdict]
<1>1. CASE \E v \in Verdicts : wf' = [wf EXCEPT ![r].status = "completed", ![r].verdict = v]
  <2>1. PICK v \in Verdicts : wf' = [wf EXCEPT ![r].status = "completed", ![r].verdict = v]
    BY <1>1
  <2>2. wf'[r] = [spec |-> wf[r].spec, status |-> "completed", verdict |-> v]
    <3>1. wf[r] = [spec |-> wf[r].spec, status |-> wf[r].status, verdict |-> wf[r].verdict]
      BY DEF IsRun
    <3>2. wf'[r] = [wf[r] EXCEPT !.status = "completed", !.verdict = v]
      BY <2>1
    <3> QED BY <3>1, <3>2
  <2>3. wf' = [q \in Runs |-> wf'[q]] /\ \A q \in Runs : q # r => wf'[q] = wf[q]
    BY <2>1
  <2> QED BY <2>2, <2>3
<1>2. CASE wf' = [wf EXCEPT ![r].status = "failed"]
  <2>1. wf'[r] = [spec |-> wf[r].spec, status |-> "failed", verdict |-> wf[r].verdict]
    BY <1>2 DEF IsRun
  <2>2. wf' = [q \in Runs |-> wf'[q]] /\ \A q \in Runs : q # r => wf'[q] = wf[q]
    BY <1>2
  <2> QED BY <2>1, <2>2
<1> QED BY <1>1, <1>2 DEF Ends

LEMMA WorldKeeps ==
  ASSUME SpecsInv, (\E r \in Runs : Ends(r)) \/ (\E s \in Specs : Lands(s) \/ Edits(s))
  PROVE  SpecsInv'
<1>1. /\ proc = [q \in Procs |-> proc[q]] /\ \A q \in Procs : IsShell(proc[q]) /\ ShellSound(proc[q])
      /\ wf = [r \in Runs |-> wf[r]] /\ \A r \in Runs : IsRun(wf[r])
      /\ file = [t \in Specs |-> file[t]] /\ \A t \in Specs : IsFront(file[t])
      /\ RunsSound /\ FilesEarned
  BY DEF SpecsInv, Shapes
<1>2. proc' = proc /\ told' = told
  BY DEF Ends, Lands, Edits
<1>3. SUFFICES /\ EvidenceGrows /\ RunsSound' /\ FilesEarned'
               /\ file' = [t \in Specs |-> file'[t]] /\ \A t \in Specs : IsFront(file'[t])
               /\ wf' = [r \in Runs |-> wf'[r]] /\ \A r \in Runs : IsRun(wf'[r])
  <2>1. Shapes'
    BY <1>1, <1>2, <1>3 DEF Shapes, IsFront, IsRun, IsShell
  <2>2. \A q \in Procs : ShellSound(proc[q])'
    BY <1>1, <1>2, <1>3, ShellStays
  <2> QED BY <1>3, <2>1, <2>2 DEF SpecsInv
<1>4. CASE \E r \in Runs : Ends(r)
  <2>1. PICK r \in Runs : Ends(r)
    BY <1>4
  <2>2. wf[r].status = "running" /\ UNCHANGED <<file, landed>>
    BY <2>1 DEF Ends
  <2>3. /\ \A q \in Runs : q # r => wf'[q] = wf[q]
        /\ wf' = [q \in Runs |-> wf'[q]]
    BY <1>1, <2>1, RunEnds
  <2>4. PICK v : \/ wf'[r] = [spec |-> wf[r].spec, status |-> "completed", verdict |-> v]
                 \/ wf'[r] = [spec |-> wf[r].spec, status |-> "failed", verdict |-> wf[r].verdict]
    BY <1>1, <2>1, RunEnds
  <2>5. wf[r].verdict = "none"
    BY <1>1, <2>2 DEF RunsSound
  <2>6. \A q \in Runs : IsRun(wf'[q])
    BY <1>1, <2>3, <2>4 DEF IsRun
  <2>7. RunsSound'
    <3>1. wf'[r].status \in {"completed", "failed"} /\ wf'[r].spec = wf[r].spec
      BY <2>4
    <3>2. wf'[r].verdict # "none" => wf'[r].status = "completed"
      BY <2>4, <2>5
    <3>3. wf[r].spec \in Specs
      BY <1>1, <2>2 DEF RunsSound
    <3>4. ASSUME NEW q \in Runs
          PROVE  /\ wf'[q].status \in {"none", "running", "completed", "failed"}
                 /\ wf'[q].status # "none" => wf'[q].spec \in Specs
                 /\ wf'[q].verdict # "none" => wf'[q].status = "completed"
      BY <1>1, <2>3, <3>1, <3>2, <3>3 DEF RunsSound
    <3> QED BY <3>4 DEF RunsSound
  <2>8. EvidenceGrows
    BY <1>2, <2>2, <2>3, <2>4 DEF EvidenceGrows
  <2>9. FilesEarned'
    BY <1>1, <2>2, <2>8, FrontStays DEF FilesEarned
  <2> QED BY <1>1, <2>2, <2>3, <2>6, <2>7, <2>8, <2>9
<1>5. CASE \E s \in Specs : Lands(s)
  <2>1. landed \subseteq landed' /\ UNCHANGED <<file, wf>>
    BY <1>5 DEF Lands
  <2>2. EvidenceGrows /\ RunsSound'
    BY <1>1, <1>2, <2>1 DEF EvidenceGrows, RunsSound
  <2>3. FilesEarned'
    BY <1>1, <2>1, <2>2, FrontStays DEF FilesEarned
  <2> QED BY <1>1, <2>1, <2>2, <2>3
<1>6. CASE \E s \in Specs : Edits(s)
  <2>1. PICK s \in Specs : file' = [file EXCEPT ![s].status = "ready"]
    BY <1>6 DEF Edits
  <2>2. UNCHANGED <<wf, landed>>
    BY <1>6 DEF Edits
  <2>3. EvidenceGrows /\ RunsSound'
    BY <1>1, <1>2, <2>2 DEF EvidenceGrows, RunsSound
  <2>4. file'[s] = [status |-> "ready", wid |-> file[s].wid, verdict |-> file[s].verdict]
    BY <1>1, <2>1 DEF IsFront
  <2>5. file' = [file EXCEPT ![s] = file'[s]]
    BY <1>1, <2>1
  <2>6. IsFront(file'[s])
    BY <2>4 DEF IsFront
  <2>7. FrontEarned(s, file'[s])
    BY <1>1, <2>4 DEF FilesEarned, FrontEarned
  <2> QED BY <1>1, <2>2, <2>3, <2>5, <2>6, <2>7, FileChanges
<1> QED BY <1>4, <1>5, <1>6
---------------------------------------------------------------------------
LEMMA SpecsInit_Inv ==
  ASSUME SpecsInit
  PROVE  SpecsInv
<1>1. /\ file = [s \in Specs |-> Blank] /\ proc \in [Procs -> {Idle, Dead}]
      /\ wf = [r \in Runs |-> [spec |-> 0, status |-> "none", verdict |-> "none"]]
  BY DEF SpecsInit
<1>2. Shapes
  <2>1. file = [s \in Specs |-> file[s]] /\ \A s \in Specs : IsFront(file[s])
    BY <1>1 DEF IsFront, Blank
  <2>2. wf = [r \in Runs |-> wf[r]] /\ \A r \in Runs : IsRun(wf[r])
    BY <1>1 DEF IsRun
  <2>3. proc = [p \in Procs |-> proc[p]] /\ \A p \in Procs : IsShell(proc[p])
    BY <1>1, IdleSound
  <2> QED BY <2>1, <2>2, <2>3 DEF Shapes
<1>3. RunsSound
  BY <1>1 DEF RunsSound
<1>4. FilesEarned
  BY <1>1 DEF FilesEarned, FrontEarned, Blank
<1>5. \A p \in Procs : ShellSound(proc[p])
  BY <1>1, IdleSound
<1> QED BY <1>2, <1>3, <1>4, <1>5 DEF SpecsInv

LEMMA SpecsStep_Inv ==
  ASSUME SpecsInv, SpecsNext
  PROVE  SpecsInv'
<1>1. ASSUME NEW p \in Procs, Starts(p)
      PROVE  SpecsInv'
  BY <1>1, StartsKeep, StartDoneKeeps DEF Starts
<1>2. ASSUME NEW p \in Procs, Works(p)
      PROVE  SpecsInv'
  BY <1>2, ValidateKeeps, SubmitFailsKeeps, SubmitKeeps, DescribeKeeps, MatchKeeps, ReadKeeps, WriteKeeps DEF Works
<1> QED BY <1>1, <1>2, DieKeeps, WorldKeeps DEF SpecsNext

(* Every step adds to the evidence.                                        *)
LEMMA StepGrows ==
  ASSUME SpecsInv, SpecsNext
  PROVE  EvidenceGrows
<1>1. wf = [r \in Runs |-> wf[r]] /\ \A r \in Runs : IsRun(wf[r])
  BY DEF SpecsInv, Shapes
<1>2. ASSUME NEW p \in Procs, NEW r \in Runs, NEW s, Begins(r, s), UNCHANGED <<landed, told>>
      PROVE  EvidenceGrows
  <2>1. wf[r].status = "none" /\ \A q \in Runs : q # r => wf'[q] = wf[q]
    BY <1>1, <1>2 DEF Begins, Fresh
  <2> QED BY <1>2, <2>1 DEF EvidenceGrows
<1>3. CASE \E r \in Runs : Ends(r)
  <2>1. UNCHANGED <<landed, told>>
    BY <1>3 DEF Ends
  <2>2. PICK r \in Runs : Ends(r)
    BY <1>3
  <2>3. wf[r].status = "running"
    BY <2>2 DEF Ends
  <2>4. \A q \in Runs : q # r => wf'[q] = wf[q]
    BY <1>1, <2>2, RunEnds
  <2>5. PICK v : \/ wf'[r] = [spec |-> wf[r].spec, status |-> "completed", verdict |-> v]
                 \/ wf'[r] = [spec |-> wf[r].spec, status |-> "failed", verdict |-> wf[r].verdict]
    BY <1>1, <2>2, RunEnds
  <2> QED BY <2>1, <2>3, <2>4, <2>5 DEF EvidenceGrows
<1>4. CASE ~(\E r \in Runs : Ends(r)) /\ ~(\E p \in Procs : Submit(p) \/ SubmitFails(p))
  <2>1. UNCHANGED wf /\ told \subseteq told' /\ landed \subseteq landed'
    BY <1>4 DEF SpecsNext, Starts, Works, StartSpec, StartAll, StartReconcile, StartList,
                StartDone, Validate, Describe, Match, Read, Open, Write, Die, Lands, Edits
  <2> QED BY <2>1 DEF EvidenceGrows
<1>5. ASSUME NEW p \in Procs, Submit(p) \/ SubmitFails(p)
      PROVE  EvidenceGrows
  <2>1. \/ UNCHANGED wf
        \/ \E r \in Runs : Begins(r, NextOf(proc[p].todo, proc[p].deps))
    BY <1>5 DEF Submit, SubmitFails
  <2>2. UNCHANGED <<landed, told>>
    BY <1>5 DEF Submit, SubmitFails
  <2>3. CASE UNCHANGED wf
    BY <2>2, <2>3 DEF EvidenceGrows
  <2> QED BY <1>2, <2>1, <2>2, <2>3
<1> QED BY <1>3, <1>4, <1>5

---------------------------------------------------------------------------
(* Types.  A workflow that the commands started.                            *)
Workflows == [spec : Specs \cup {0}, verdict : Verdicts,
              status : {"none", "running", "completed", "failed"}]

(* A shell with other fields of their kinds is a shell.                     *)
LEMMA ShellFields ==
  ASSUME NEW c \in Shells
  PROVE  /\ \A pc \in Steps, todo \in SUBSET Specs :
              [c EXCEPT !.pc = pc, !.todo = todo] \in Shells
         /\ \A pc \in Steps, s \in Specs, about \in Runs \cup {0}, todo \in SUBSET Specs,
               new \in Changes_ :
              [c EXCEPT !.pc = pc, !.spec = s, !.about = about, !.todo = todo, !.new = new]
                \in Shells
         /\ \A pc \in Steps, buf \in Fronts : [c EXCEPT !.pc = pc, !.buf = buf] \in Shells
         /\ \A pc \in Steps : [c EXCEPT !.pc = pc] \in Shells
<1> USE DEF Shells
<1>1. \A pc \in Steps, todo \in SUBSET Specs : [c EXCEPT !.pc = pc, !.todo = todo] \in Shells
  OBVIOUS
<1>2. ASSUME NEW pc \in Steps, NEW s \in Specs, NEW about \in Runs \cup {0},
             NEW todo \in SUBSET Specs, NEW new \in Changes_
      PROVE  [c EXCEPT !.pc = pc, !.spec = s, !.about = about, !.todo = todo, !.new = new]
               \in Shells
  OBVIOUS
<1>3. \A pc \in Steps, buf \in Fronts : [c EXCEPT !.pc = pc, !.buf = buf] \in Shells
  OBVIOUS
<1>4. \A pc \in Steps : [c EXCEPT !.pc = pc] \in Shells
  OBVIOUS
<1> HIDE DEF Shells
<1> QED BY <1>1, <1>2, <1>3, <1>4

LEMMA IdleTyped ==
  /\ Blank \in Fronts /\ NoRun \in Execution /\ NoDeps \in [Specs -> SUBSET Specs]
  /\ Idle \in Shells /\ Dead \in Shells
<1>1. Blank \in Fronts /\ NoRun \in Execution /\ NoDeps \in [Specs -> SUBSET Specs]
  BY DEF Blank, Fronts, Statuses, Verdicts, NoRun, Execution, NoDeps
<1>2. Change("ready", Keep, "none") \in Changes_
  BY DEF Change, Changes_, Statuses, Verdicts
<1>3. Idle \in Shells
  BY <1>1, <1>2 DEF Idle, Shells, Commands, Steps
<1>4. Dead \in Shells
  BY <1>3, ShellFields DEF Dead, Steps
<1> QED BY <1>1, <1>3, <1>4

(* What update_spec_status writes, and what reconcile_spec decides.        *)
LEMMA ChangesTyped ==
  /\ \A s \in Specs : SpecsTypeOK => Parsed(s) \in Fronts /\ ParsedDeps(s) \subseteq Specs
  /\ \A f \in Fronts, c \in Changes_ : Applied(f, c) \in Fronts
  /\ \A f \in Fronts : \A s, run :
       run.verdict \in Verdicts => Decision(s, f, run) \in Changes_
<1>1. \A s \in Specs : SpecsTypeOK => Parsed(s) \in Fronts /\ ParsedDeps(s) \subseteq Specs
  BY IdleTyped, SpecsAssumption DEF SpecsTypeOK, Parsed, ParsedDeps
<1>2. ASSUME NEW f \in Fronts, NEW c \in Changes_ PROVE Applied(f, c) \in Fronts
  <2>1. f.wid \in Runs \cup {0} /\ f.verdict \in Verdicts
    BY DEF Fronts
  <2>2. c.status \in Statuses /\ c.verdict \in Verdicts /\ c.wid \in Runs \cup {Keep, Clear}
    BY DEF Changes_
  <2>3. c.wid # Keep => c.wid \in Runs \cup {0}
    BY <2>2 DEF Clear
  <2> QED BY <2>1, <2>2, <2>3 DEF Applied, Fronts
<1>3. ASSUME NEW f \in Fronts, NEW s, NEW run, run.verdict \in Verdicts
      PROVE  Decision(s, f, run) \in Changes_
  <2> DEFINE verdict == IF f.verdict # "none" THEN f.verdict ELSE run.verdict
  <2>1. verdict \in Verdicts /\ "none" \in Verdicts
    BY <1>3 DEF Fronts, Verdicts
  <2>2. \A status \in Statuses, wid \in {Keep, Clear}, v \in Verdicts :
          Change(status, wid, v) \in Changes_
    BY DEF Change, Changes_
  <2>3. Decision(s, f, run) \in
          {Change("ready", Clear, "none"), Change("failed", Keep, verdict),
           Change("dispatched", Keep, "none"), Change("done", Keep, verdict)}
    BY DEF Decision
  <2> HIDE DEF verdict
  <2> QED BY <2>1, <2>2, <2>3 DEF Statuses
<1> QED BY <1>1, <1>2, <1>3

LEMMA LoopTyped ==
  ASSUME proc \in [Procs -> Shells], NEW p \in Procs, NEW pc \in Steps, NEW todo \in SUBSET Specs,
         Loop(p, pc, todo)
  PROVE  proc' \in [Procs -> Shells]
<1>1. [proc[p] EXCEPT !.pc = pc, !.todo = todo] \in Shells
  BY ShellFields
<1> QED BY <1>1, IdleTyped DEF Loop

LEMMA DecideTyped ==
  ASSUME proc \in [Procs -> Shells], NEW p \in Procs, NEW s \in Specs, NEW f \in Fronts, NEW run,
         run.verdict \in Verdicts, Decide(p, s, f, run)
  PROVE  proc' \in [Procs -> Shells]
<1> DEFINE c == Decision(s, f, run)
<1> DEFINE todo == proc[p].todo \ {s}
<1>1. c \in Changes_ /\ f.wid \in Runs \cup {0} /\ todo \in SUBSET Specs
  <2>1. c \in Changes_
    BY ChangesTyped
  <2>2. proc[p].todo \subseteq Specs
    BY DEF Shells
  <2> QED BY <2>1, <2>2 DEF Fronts
<1>2. \/ Loop(p, "look", todo)
      \/ proc' = [proc EXCEPT ![p] = [@ EXCEPT !.pc = "read", !.spec = s, !.about = f.wid,
                                               !.todo = todo, !.new = c]]
  BY DEF Decide
<1> HIDE DEF c, todo
<1>3. "look" \in Steps /\ "read" \in Steps
  BY DEF Steps
<1>4. [proc[p] EXCEPT !.pc = "read", !.spec = s, !.about = f.wid, !.todo = todo, !.new = c]
        \in Shells
  BY <1>1, <1>3, ShellFields
<1> QED BY <1>1, <1>2, <1>3, <1>4, LoopTyped

LEMMA ListingsTyped ==
  ASSUME SpecsTypeOK
  PROVE  \A s \in Specs : Listings(s) \subseteq Execution
<1> SUFFICES ASSUME NEW s \in Specs, NEW r \in RunsOf(s)
             PROVE  [run |-> r, status |-> wf[r].status, verdict |-> wf[r].verdict] \in Execution
  BY IdleTyped DEF Listings
<1>1. r \in Runs /\ wf[r].status # "none"
  BY DEF RunsOf
<1> QED BY <1>1 DEF Execution, SpecsTypeOK

(* The commands start ...                                                  *)
LEMMA StartsTyped ==
  ASSUME SpecsTypeOK, SpecsInv, NEW p \in Procs, Starts(p)
  PROVE  proc' \in [Procs -> Shells]
<1> USE DEF SpecsTypeOK
<1>1. ASSUME NEW s \in Specs, StartSpec(p, s)
      PROVE  proc' \in [Procs -> Shells]
  <2>1. [Idle EXCEPT !.cmd = "spec", !.pc = "submit", !.todo = {s}] \in Shells
    BY IdleTyped DEF Shells, Commands, Steps
  <2> QED BY <1>1, <2>1 DEF StartSpec
<1>2. ASSUME NEW s \in Specs, StartDone(p, s)
      PROVE  proc' \in [Procs -> Shells]
  <2>1. Change("done", Keep, "none") \in Changes_
    BY DEF Change, Changes_, Statuses, Verdicts
  <2>2. [Idle EXCEPT !.cmd = "done", !.pc = "read", !.spec = s,
                     !.new = Change("done", Keep, "none")] \in Shells
    BY <2>1, IdleTyped DEF Shells, Commands, Steps
  <2> QED BY <1>2, <2>2 DEF StartDone
<1>3. CASE StartAll(p)
  <2> DEFINE deps == [s \in Specs |-> ParsedDeps(s)]
  <2>1. deps \in [Specs -> SUBSET Specs] /\ ResolvedDag \subseteq Specs
    BY ChangesTyped DEF ResolvedDag
  <2>2. proc' = [proc EXCEPT ![p] =
                  [Idle EXCEPT !.cmd = "all", !.pc = "validate", !.todo = ResolvedDag, !.deps = deps]]
    BY <1>3 DEF StartAll
  <2> HIDE DEF deps
  <2>3. [Idle EXCEPT !.cmd = "all", !.pc = "validate", !.todo = ResolvedDag, !.deps = deps] \in Shells
    BY <2>1, IdleTyped DEF Shells, Commands, Steps
  <2> QED BY <2>2, <2>3
<1>4. CASE StartReconcile(p)
  <2> DEFINE todo == {s \in Specs : Settles(Parsed(s))}
  <2> DEFINE seen == [s \in Specs |-> IF Settles(Parsed(s)) THEN Parsed(s) ELSE Blank]
  <2>1. seen \in [Specs -> Fronts] /\ todo \subseteq Specs
    BY ChangesTyped, IdleTyped
  <2>2. proc' = [proc EXCEPT ![p] =
                  [Idle EXCEPT !.cmd = "reconcile", !.pc = "look", !.todo = todo, !.seen = seen]]
    BY <1>4 DEF StartReconcile
  <2> HIDE DEF todo, seen
  <2>3. [Idle EXCEPT !.cmd = "reconcile", !.pc = "look", !.todo = todo, !.seen = seen] \in Shells
    BY <2>1, IdleTyped DEF Shells, Commands, Steps
  <2> QED BY <2>2, <2>3
<1>5. CASE StartList(p)
  <2>0. PICK runs \in [Specs -> UNION {Listings(s) : s \in Specs}] :
          /\ \A s \in Specs : runs[s] \in Listings(s)
          /\ proc' = [proc EXCEPT ![p] =
               [Idle EXCEPT !.cmd = "list", !.pc = "look",
                            !.todo = {s \in Specs : runs[s] # NoRun}, !.runs = runs]]
    BY <1>5 DEF StartList
  <2> DEFINE todo == {s \in Specs : runs[s] # NoRun}
  <2>1. runs \in [Specs -> Execution] /\ todo \subseteq Specs
    BY <2>0, ListingsTyped
  <2>2. proc' = [proc EXCEPT ![p] =
                  [Idle EXCEPT !.cmd = "list", !.pc = "look", !.todo = todo, !.runs = runs]]
    BY <2>0
  <2> HIDE DEF todo
  <2>3. [Idle EXCEPT !.cmd = "list", !.pc = "look", !.todo = todo, !.runs = runs] \in Shells
    BY <2>1, IdleTyped DEF Shells, Commands, Steps
  <2> QED BY <2>2, <2>3
<1> QED BY <1>1, <1>2, <1>3, <1>4, <1>5 DEF Starts

(* ... and go on; what they submit is a spec of theirs.                    *)
LEMMA NextTyped ==
  ASSUME SpecsInv, NEW p \in Procs, proc[p].pc \in {"validate", "submit", "look"}
  PROVE  /\ NextOf(proc[p].todo, proc[p].deps) \in Specs
         /\ NextOf(proc[p].todo, NoDeps) \in Specs
<1>1. ShellSound(proc[p])
  BY DEF SpecsInv
<1>2. proc[p].todo \in SUBSET Specs /\ proc[p].todo # {}
  BY <1>1 DEF ShellSound, TodoSound
<1>3. \A t \in proc[p].todo : NoDeps[t] \cap proc[p].todo = {}
  BY <1>2 DEF NoDeps
<1>4. \A t \in proc[p].todo : proc[p].deps[t] \cap proc[p].todo = {}
  BY <1>1 DEF ShellSound, TodoSound
<1> QED BY <1>2, <1>3, <1>4, NextIsThere

LEMMA BeginsTyped ==
  ASSUME SpecsTypeOK, NEW r \in Runs, NEW s \in Specs, Begins(r, s)
  PROVE  wf' \in [Runs -> Workflows]
BY DEF Begins, SpecsTypeOK, Workflows, Verdicts

LEMMA SubmitTyped ==
  ASSUME SpecsTypeOK, SpecsInv, NEW p \in Procs, Submit(p)
  PROVE  proc' \in [Procs -> Shells] /\ wf' \in [Runs -> Workflows]
<1> DEFINE s == NextOf(proc[p].todo, proc[p].deps)
<1>1. s \in Specs
  BY NextTyped DEF Submit
<1>2. PICK r \in Runs :
        /\ Begins(r, s)
        /\ proc' = [proc EXCEPT ![p].pc = "read", ![p].spec = s, ![p].about = r,
                                ![p].todo = @ \ {s}, ![p].new = Change("dispatched", r, "none")]
  BY DEF Submit
<1> HIDE DEF s
<1>3. r \in Runs /\ "read" \in Steps
  BY DEF Steps
<1>4. wf' \in [Runs -> Workflows]
  BY <1>1, <1>2, BeginsTyped
<1>5. Change("dispatched", r, "none") \in Changes_
  BY <1>3 DEF Change, Changes_, Statuses, Verdicts
<1>6. proc[p] \in Shells /\ proc[p].todo \ {s} \in SUBSET Specs
  BY DEF SpecsTypeOK, Shells
<1> DEFINE new == Change("dispatched", r, "none")
<1> HIDE DEF new
<1>7. [proc[p] EXCEPT !.pc = "read", !.spec = s, !.about = r, !.todo = proc[p].todo \ {s},
                      !.new = new] \in Shells
  BY <1>1, <1>3, <1>5, <1>6, ShellFields DEF new
<1>8. proc' = [proc EXCEPT ![p] = [proc[p] EXCEPT !.pc = "read", !.spec = s, !.about = r,
                                      !.todo = proc[p].todo \ {s}, !.new = new]]
  BY <1>2 DEF new, SpecsTypeOK
<1> QED BY <1>4, <1>7, <1>8 DEF SpecsTypeOK

LEMMA WorksTyped ==
  ASSUME SpecsTypeOK, SpecsInv, NEW p \in Procs, Works(p)
  PROVE  SpecsTypeOK'
<1>1. proc \in [Procs -> Shells] /\ proc[p] \in Shells /\ proc[p].todo \in SUBSET Specs
  BY DEF SpecsTypeOK, Shells
<1>2. "submit" \in Steps /\ "look" \in Steps /\ "open" \in Steps /\ "write" \in Steps
  BY DEF Steps
<1>3. CASE Validate(p)
  <2>1. PICK todo \in SUBSET Specs : Loop(p, "submit", todo)
    BY <1>1, <1>3 DEF Validate
  <2>2. UNCHANGED <<file, torn, wf, landed, told, edits>>
    BY <1>3 DEF Validate
  <2> QED BY <1>1, <1>2, <2>1, <2>2, LoopTyped DEF SpecsTypeOK
<1>4. CASE Submit(p)
  BY <1>4, SubmitTyped DEF Submit, SpecsTypeOK, Workflows
<1>5. CASE Describe(p)
  <2> DEFINE s == NextOf(proc[p].todo, NoDeps)
  <2> DEFINE f == proc[p].seen[s]
  <2>1. s \in Specs
    BY <1>5, NextTyped DEF Describe
  <2>2. f \in Fronts
    BY <1>1, <2>1 DEF Shells
  <2>3. PICK run \in {wf[f.wid], Missing} : Decide(p, s, f, run)
    BY <1>5 DEF Describe
  <2>4. s \in proc[p].todo /\ proc[p].cmd = "reconcile" /\ ShellSound(proc[p])
    <3>1. ShellSound(proc[p]) /\ proc[p].pc = "look" /\ proc[p].cmd = "reconcile"
      BY <1>5 DEF SpecsInv, Describe
    <3>2. proc[p].todo # {} /\ \A t \in proc[p].todo : NoDeps[t] \cap proc[p].todo = {}
      BY <1>1, <3>1 DEF ShellSound, TodoSound, NoDeps
    <3> QED BY <1>1, <3>1, <3>2, NextIsThere
  <2>5. f.wid \in Runs
    BY <2>2, <2>4 DEF ShellSound, SeenSound, Settles, Fronts
  <2>6. run.verdict \in Verdicts
    BY <2>3, <2>5 DEF SpecsTypeOK, Missing, Verdicts
  <2> HIDE DEF s, f
  <2>7. proc' \in [Procs -> Shells]
    BY <1>1, <2>1, <2>2, <2>3, <2>6, DecideTyped
  <2> QED BY <1>5, <2>7 DEF Describe, SpecsTypeOK
<1>6. CASE Match(p)
  <2> DEFINE s == NextOf(proc[p].todo, NoDeps)
  <2> DEFINE run == proc[p].runs[s]
  <2>1. s \in Specs
    BY <1>6, NextTyped DEF Match
  <2>2. run \in Execution /\ Parsed(s) \in Fronts
    BY <1>1, <2>1, ChangesTyped DEF Shells
  <2>3. run.verdict \in Verdicts
    BY <2>2 DEF Execution
  <2>4. Decide(p, s, Parsed(s), run) \/ Loop(p, "look", proc[p].todo \ {s})
    BY <1>6 DEF Match
  <2> HIDE DEF s, run
  <2>5. proc[p].todo \ {s} \in SUBSET Specs
    BY <1>1
  <2>6. proc' \in [Procs -> Shells]
    BY <1>1, <1>2, <2>1, <2>2, <2>3, <2>4, <2>5, DecideTyped, LoopTyped
  <2> QED BY <1>6, <2>6 DEF Match, SpecsTypeOK
<1>7. Resume(p) => proc' \in [Procs -> Shells]
  BY <1>1, <1>2, LoopTyped DEF Resume
<1>8. CASE Read(p)
  <2>1. proc[p].spec \in Specs
    BY <1>8 DEF Read, SpecsInv, ShellSound, UpdateSound, Updating
  <2>2. file[proc[p].spec] \in Fronts
    BY <2>1 DEF SpecsTypeOK
  <2>3. [proc[p] EXCEPT !.pc = "open", !.buf = file[proc[p].spec]] \in Shells
    BY <1>1, <1>2, <2>2, ShellFields
  <2>4. \/ Resume(p)
        \/ proc' = [proc EXCEPT ![p] = [proc[p] EXCEPT !.pc = "open", !.buf = file[proc[p].spec]]]
    BY <1>1, <1>8 DEF Read
  <2>5. proc' \in [Procs -> Shells]
    BY <1>1, <1>7, <2>3, <2>4
  <2> QED BY <1>8, <2>5 DEF Read, SpecsTypeOK
<1>9. CASE Open(p)
  <2>1. proc[p].spec \in Specs
    BY <1>9 DEF Open, SpecsInv, ShellSound, UpdateSound, Updating
  <2>2. [proc[p] EXCEPT !.pc = "write"] \in Shells
    BY <1>1, <1>2, ShellFields
  <2>3. proc' = [proc EXCEPT ![p] = [proc[p] EXCEPT !.pc = "write"]]
    BY <1>9 DEF Open
  <2>4. proc' \in [Procs -> Shells]
    BY <1>1, <2>2, <2>3
  <2> QED BY <1>9, <2>1, <2>4 DEF Open, SpecsTypeOK
<1>10. CASE Write(p)
  <2>1. Applied(proc[p].buf, proc[p].new) \in Fronts
    BY <1>1, ChangesTyped DEF Shells
  <2>2. file' \in [Specs -> Fronts]
    BY <1>10, <2>1 DEF Write, SpecsTypeOK
  <2>3. proc' \in [Procs -> Shells]
    BY <1>7, <1>10 DEF Write
  <2> QED BY <1>10, <2>2, <2>3 DEF Write, SpecsTypeOK
<1>11. CASE SubmitFails(p)
  <2> DEFINE s == NextOf(proc[p].todo, proc[p].deps)
  <2>1. s \in Specs /\ proc[p].todo \ {s} \in SUBSET Specs
    BY <1>1, <1>11, NextTyped DEF SubmitFails
  <2>2. /\ UNCHANGED <<file, torn, landed, told, edits>> /\ Loop(p, "submit", proc[p].todo \ {s})
        /\ UNCHANGED wf \/ \E r \in Runs : Begins(r, s)
    BY <1>11 DEF SubmitFails
  <2> HIDE DEF s
  <2>3. wf' \in [Runs -> Workflows]
    BY <2>1, <2>2, BeginsTyped DEF SpecsTypeOK, Workflows
  <2>4. proc' \in [Procs -> Shells]
    BY <1>1, <1>2, <2>1, <2>2, LoopTyped
  <2> QED BY <2>2, <2>3, <2>4 DEF SpecsTypeOK, Workflows
<1> QED BY <1>3, <1>4, <1>5, <1>6, <1>8, <1>9, <1>10, <1>11 DEF Works

LEMMA SpecsStep_Types ==
  ASSUME SpecsTypeOK, SpecsInv, SpecsNext
  PROVE  SpecsTypeOK'
<1>1. ASSUME NEW p \in Procs, Starts(p)
      PROVE  SpecsTypeOK'
  <2>1. proc' \in [Procs -> Shells]
    BY <1>1, StartsTyped
  <2>2. UNCHANGED <<file, torn, wf, landed, edits>> /\ told' \subseteq Specs
    BY <1>1 DEF Starts, StartSpec, StartDone, StartAll, StartReconcile, StartList, SpecsTypeOK
  <2> QED BY <2>1, <2>2 DEF SpecsTypeOK
<1>2. ASSUME NEW p \in Procs, Die(p)
      PROVE  SpecsTypeOK'
  BY <1>2, IdleTyped DEF Die, SpecsTypeOK
<1>3. ASSUME NEW r \in Runs, Ends(r)
      PROVE  SpecsTypeOK'
  <2>1. \A v \in Verdicts : [wf EXCEPT ![r].status = "completed", ![r].verdict = v] \in [Runs -> Workflows]
    BY DEF SpecsTypeOK, Workflows
  <2>2. [wf EXCEPT ![r].status = "failed"] \in [Runs -> Workflows]
    BY DEF SpecsTypeOK, Workflows
  <2>3. wf' \in [Runs -> Workflows]
    BY <1>3, <2>1, <2>2 DEF Ends
  <2> QED BY <1>3, <2>3 DEF Ends, SpecsTypeOK, Workflows
<1>4. ASSUME NEW s \in Specs, Lands(s) \/ Edits(s)
      PROVE  SpecsTypeOK'
  <2>1. CASE Lands(s)
    BY <2>1 DEF Lands, SpecsTypeOK
  <2>2. CASE Edits(s)
    <3>1. file' \in [Specs -> Fronts]
      BY <2>2 DEF Edits, SpecsTypeOK, Fronts, Statuses
    <3>2. edits' \in 0 .. MaxEdits
      BY <2>2, SpecsAssumption DEF Edits, SpecsTypeOK
    <3> QED BY <2>2, <3>1, <3>2 DEF Edits, SpecsTypeOK
  <2> QED BY <1>4, <2>1, <2>2
<1> QED BY <1>1, <1>2, <1>3, <1>4, WorksTyped DEF SpecsNext

LEMMA SpecsInit_Types == SpecsInit => SpecsTypeOK
<1> SUFFICES ASSUME SpecsInit PROVE SpecsTypeOK
  OBVIOUS
<1>1. file \in [Specs -> Fronts] /\ proc \in [Procs -> Shells]
  BY IdleTyped DEF SpecsInit
<1>2. wf \in [Runs -> Workflows]
  BY DEF SpecsInit, Workflows, Verdicts
<1> QED BY <1>1, <1>2 DEF SpecsInit, SpecsTypeOK, Workflows

---------------------------------------------------------------------------
(* The smallest number of which something fails, if there is one.          *)
LEMMA LeastFailure ==
  ASSUME NEW S \in SUBSET Nat, S # {}
  PROVE  \E m \in S : \A k \in Nat : k < m => k \notin S
<1>1. PICK m \in S : \A s \in S : ~(<<s, m>> \in OpToRel(<, Nat))
  BY WFMin, NatLessThanWellFounded
<1> QED BY <1>1 DEF OpToRel

(* The batch is built spec by spec.                                        *)
FirstUpTo(n, f) ==
  f = [k \in 0 .. n |-> IF k = 0 THEN {} ELSE WithNext(f[k - 1])]

LEMMA BatchIsBuilt == FirstUpTo(MaxConcurrent, First)
<1> DEFINE S == {n \in Nat : ~\E f : FirstUpTo(n, f)}
<1>1. S = {}
  <2>1. SUFFICES ASSUME S # {} PROVE FALSE
    OBVIOUS
  <2>2. PICK m \in S : \A k \in Nat : k < m => k \notin S
    <3>1. S \in SUBSET Nat
      OBVIOUS
    <3> QED BY <2>1, <3>1, LeastFailure
  <2>3. CASE m = 0
    <3>1. FirstUpTo(0, [k \in 0 .. 0 |-> {}])
      BY DEF FirstUpTo
    <3> QED BY <2>3, <3>1
  <2>4. CASE m # 0
    <3>1. m - 1 \in Nat /\ m - 1 < m /\ m \in Nat
      BY <2>4
    <3>2. PICK f : FirstUpTo(m - 1, f)
      BY <2>2, <3>1
    <3> DEFINE g == [k \in 0 .. m |-> IF k = m THEN WithNext(f[m - 1]) ELSE f[k]]
    <3>3. ASSUME NEW k \in 0 .. m
          PROVE  g[k] = IF k = 0 THEN {} ELSE WithNext(g[k - 1])
      <4>1. CASE k = m
        <5>1. g[k] = WithNext(f[m - 1]) /\ g[k - 1] = f[m - 1]
          BY <2>4, <3>1, <4>1
        <5> QED BY <2>4, <4>1, <5>1
      <4>2. CASE k # m
        <5>1. k \in 0 .. (m - 1) /\ (k # 0 => k - 1 \in 0 .. m /\ k - 1 # m)
          BY <3>1, <4>2
        <5>2. f[k] = IF k = 0 THEN {} ELSE WithNext(f[k - 1])
          BY <3>2, <5>1 DEF FirstUpTo
        <5>3. g[k] = f[k] /\ (k # 0 => g[k - 1] = f[k - 1])
          BY <4>2, <5>1
        <5> QED BY <5>2, <5>3
      <4> QED BY <4>1, <4>2
    <3>4. g = [k \in 0 .. m |-> g[k]]
      OBVIOUS
    <3> HIDE DEF g
    <3>5. FirstUpTo(m, g)
      BY <3>3, <3>4 DEF FirstUpTo
    <3> QED BY <3>1, <3>5
  <2> QED BY <2>3, <2>4
<1>2. \E f : FirstUpTo(MaxConcurrent, f)
  BY <1>1, WatchAssumption
<1>3. First = CHOOSE f : f = [k \in 0 .. MaxConcurrent |-> IF k = 0 THEN {} ELSE WithNext(f[k - 1])]
  BY DEF First
<1> QED BY <1>2, <1>3 DEF FirstUpTo

(* A batch is part of what is ready, of MaxConcurrent specs at most.       *)
LEMMA BatchIsSmall ==
  ASSUME ready \subseteq Specs, \A s \in ready : needs[s] \cap ready = {}
  PROVE  Batch \subseteq ready /\ IsFiniteSet(Batch) /\ Cardinality(Batch) <= MaxConcurrent
<1> DEFINE Fits(n) == /\ First[n] \subseteq ready
                      /\ IsFiniteSet(First[n]) /\ Cardinality(First[n]) <= n
<1> DEFINE S == {n \in 0 .. MaxConcurrent : ~Fits(n)}
<1>1. MaxConcurrent \in Nat
  BY WatchAssumption
<1>2. \A k \in 0 .. MaxConcurrent : First[k] = IF k = 0 THEN {} ELSE WithNext(First[k - 1])
  BY BatchIsBuilt DEF FirstUpTo
<1>3. S = {}
  <2>1. SUFFICES ASSUME S # {} PROVE FALSE
    OBVIOUS
  <2>2. PICK m \in S : \A k \in Nat : k < m => k \notin S
    <3>1. S \in SUBSET Nat
      BY <1>1
    <3> QED BY <2>1, <3>1, LeastFailure
  <2>3. CASE m = 0
    <3>1. First[0] = {}
      BY <1>1, <1>2
    <3> QED BY <2>2, <2>3, <3>1, FS_EmptySet
  <2>4. CASE m # 0
    <3>1. m - 1 \in 0 .. MaxConcurrent /\ m - 1 < m /\ m - 1 \in Nat /\ m \in 0 .. MaxConcurrent
      BY <1>1, <2>4
    <3>2. Fits(m - 1)
      BY <2>2, <3>1
    <3>3. First[m] = WithNext(First[m - 1])
      BY <1>2, <2>4, <3>1
    <3>4. CASE ready \subseteq First[m - 1]
      <4>1. First[m] = First[m - 1]
        BY <3>3, <3>4 DEF WithNext
      <4>2. Cardinality(First[m]) \in Nat
        BY <3>2, <4>1, FS_CardinalityType
      <4> QED BY <3>1, <3>2, <4>1, <4>2
    <3>5. CASE ~(ready \subseteq First[m - 1])
      <4> DEFINE rest == ready \ First[m - 1]
      <4> DEFINE next == NextOf(rest, needs)
      <4>1. First[m] = First[m - 1] \cup {next}
        BY <3>3, <3>5 DEF WithNext
      <4>2. next \in rest
        <5>1. rest \in SUBSET Specs /\ rest # {}
          BY <3>5
        <5>2. \A s \in rest : needs[s] \cap rest = {}
          OBVIOUS
        <5> HIDE DEF rest
        <5> QED BY <5>1, <5>2, NextIsThere
      <4>3. First[m] \subseteq ready
        BY <3>2, <4>1, <4>2
      <4> DEFINE old == First[m - 1]
      <4>4. IsFiniteSet(old) /\ next \notin old /\ Cardinality(old) <= m - 1
        BY <3>2, <4>2
      <4> HIDE DEF next, old
      <4>5. IsFiniteSet(old \cup {next}) /\ Cardinality(old \cup {next}) = Cardinality(old) + 1
        BY <4>4, FS_AddElement
      <4>6. Cardinality(old) \in Nat
        BY <4>4, FS_CardinalityType
      <4>7. IsFiniteSet(First[m]) /\ Cardinality(First[m]) <= m
        BY <3>1, <4>1, <4>4, <4>5, <4>6 DEF old
      <4>8. Fits(m)
        BY <4>3, <4>7
      <4> QED BY <2>2, <4>8
    <3> QED BY <3>4, <3>5
  <2> QED BY <2>3, <2>4
<1>4. Fits(MaxConcurrent)
  BY <1>1, <1>3
<1> QED BY <1>4 DEF Batch

---------------------------------------------------------------------------
(* The watch: what it has in hand between the batches does not depend on   *)
(* itself, no child runs beyond the batch, and no cycle beyond the last.   *)
WatchHands ==
  /\ phase # "batch" => ready = {}
  /\ phase \in {"off", "cycle", "over"} => kids = {}
  /\ \A s \in ready : needs[s] \cap ready = {}

BatchIsBounded ==
  /\ kids \cap ready = {}
  /\ IsFiniteSet(kids) /\ Cardinality(kids) <= MaxConcurrent

WatchCounts == streak <= inRun /\ (phase = "cycle" => inRun < MaxCycles)

WatchInv ==
  WatchTypeOK /\ WatchWaitsForDependencies /\ WatchHands /\ BatchIsBounded /\ WatchCounts

LEMMA NoKids == IsFiniteSet({}) /\ Cardinality({}) <= MaxConcurrent
BY FS_EmptySet, WatchAssumption

LEMMA WatchInit_Inv == WatchInit => WatchInv
<1> SUFFICES ASSUME WatchInit PROVE WatchInv
  OBVIOUS
<1>1. WatchTypeOK
  <2>1. 0 \in 0 .. MaxCycles
    BY WatchAssumption
  <2>2. NoDeps \in [Specs -> SUBSET Specs]
    BY DEF NoDeps
  <2> QED BY <2>1, <2>2 DEF WatchInit, WatchTypeOK
<1>2. WatchWaitsForDependencies /\ WatchHands
  BY DEF WatchInit, WatchWaitsForDependencies, WatchHands
<1>3. BatchIsBounded
  BY NoKids DEF WatchInit, BatchIsBounded
<1>4. WatchCounts
  BY WatchAssumption DEF WatchInit, WatchCounts
<1> QED BY <1>1, <1>2, <1>3, <1>4 DEF WatchInv

(* What the watch scans is ready, and what that needs is done.             *)
LEMMA ScanKeeps ==
  ASSUME SpecsInv, WatchInv, NEW found \in {ResolvedDag, {}}, Scan(found)
  PROVE  WatchInv'
<1>1. /\ ready' = found /\ phase' = IF found = {} THEN "end" ELSE "batch"
      /\ needs' = [s \in Specs |-> IF s \in found THEN ParsedDeps(s) ELSE {}]
      /\ inRun' = inRun + 1 /\ streak' = IF found = {} THEN streak + 1 ELSE 0
      /\ UNCHANGED <<wf, landed, told, kids, stop>>
  BY DEF Scan, specsVars
<1>2. phase = "cycle" /\ kids = {} /\ inRun < MaxCycles /\ streak <= inRun
  BY DEF Scan, WatchInv, WatchHands, WatchCounts
<1>3. found \subseteq Specs
  BY DEF ResolvedDag
<1>4. ASSUME NEW s \in found, needs'[s] = Deps[s], NEW d \in Deps[s]
      PROVE  Accepted(d)'
  <2>1. s \in Specs /\ found = ResolvedDag
    BY <1>3
  <2>2. d \in Specs
    BY <2>1, SpecsAssumption
  <2>3. Parsed(d).status = "done"
    BY <1>1, <1>4, <2>1 DEF ResolvedDag
  <2>4. file[d].status = "done"
    BY <2>3 DEF Parsed, Blank
  <2>5. Accepted(d)
    BY <2>2, <2>4 DEF SpecsInv, FilesEarned, FrontEarned
  <2> QED BY <1>1, <2>5 DEF Accepted, RunsOf
<1>5. WatchWaitsForDependencies'
  BY <1>1, <1>2, <1>4 DEF WatchWaitsForDependencies
<1>6. ASSUME NEW s \in found PROVE needs'[s] \cap found = {}
  <2>1. s \in Specs /\ found = ResolvedDag
    BY <1>3
  <2> QED BY <1>1, <2>1 DEF ResolvedDag
<1>7. WatchHands'
  BY <1>1, <1>2, <1>6 DEF WatchHands
<1>8. BatchIsBounded'
  BY <1>1, <1>2, NoKids DEF BatchIsBounded
<1>9. MaxCycles \in Nat /\ inRun \in 0 .. MaxCycles /\ streak \in 0 .. MaxCycles
  BY WatchAssumption DEF WatchInv, WatchTypeOK
<1>10. WatchCounts'
  BY <1>1, <1>2, <1>9 DEF WatchCounts
<1>11. WatchTypeOK'
  <2>1. \A s \in Specs : ParsedDeps(s) \subseteq Specs
    BY SpecsAssumption DEF ParsedDeps
  <2>2. needs' \in [Specs -> SUBSET Specs]
    BY <1>1, <2>1
  <2>3. inRun' \in 0 .. MaxCycles /\ streak' \in 0 .. MaxCycles
    BY <1>1, <1>2, <1>9
  <2>4. stop' \in BOOLEAN
    BY <1>1 DEF WatchInv, WatchTypeOK
  <2> QED BY <1>1, <1>2, <1>3, <2>2, <2>3, <2>4 DEF WatchTypeOK
<1> QED BY <1>5, <1>7, <1>8, <1>10, <1>11 DEF WatchInv

(* A batch is taken from what is ready, when no child runs.                *)
LEMMA LaunchKeeps ==
  ASSUME WatchInv, Launch
  PROVE  WatchInv'
<1>1. /\ phase = "batch" /\ kids = {} /\ kids' = Batch /\ ready' = ready \ Batch
      /\ phase' = IF ready' = {} THEN "end" ELSE "batch"
      /\ UNCHANGED <<wf, landed, told, needs, inRun, streak, stop>>
  BY DEF Launch, specsVars
<1>2. ready \subseteq Specs /\ \A s \in ready : needs[s] \cap ready = {}
  BY DEF WatchInv, WatchTypeOK, WatchHands
<1>3. Batch \subseteq ready /\ IsFiniteSet(Batch) /\ Cardinality(Batch) <= MaxConcurrent
  BY <1>2, BatchIsSmall
<1> HIDE DEF Batch
<1>4. WatchTypeOK'
  BY <1>1, <1>2, <1>3 DEF WatchInv, WatchTypeOK
<1>5. WatchWaitsForDependencies'
  BY <1>1, <1>3 DEF WatchInv, WatchWaitsForDependencies, Accepted, RunsOf
<1>6. WatchHands'
  BY <1>1, <1>2 DEF WatchHands
<1>7. BatchIsBounded'
  BY <1>1, <1>3 DEF BatchIsBounded
<1>8. WatchCounts'
  BY <1>1 DEF WatchInv, WatchCounts
<1> QED BY <1>4, <1>5, <1>6, <1>7, <1>8 DEF WatchInv

(* A child ends alone, or takes the others and the watch with it.          *)
LEMMA ChildKeeps ==
  ASSUME WatchInv, NEW s \in Specs, KidEnds(s) \/ KidFails(s)
  PROVE  WatchInv'
<1>1. CASE KidEnds(s)
  <2>1. /\ kids' = kids \ {s}
        /\ UNCHANGED <<wf, landed, told, phase, ready, needs, inRun, streak, stop>>
    BY <1>1 DEF KidEnds, specsVars
  <2>2. WatchTypeOK' /\ WatchHands' /\ WatchCounts'
    BY <2>1 DEF WatchInv, WatchTypeOK, WatchHands, WatchCounts
  <2>3. WatchWaitsForDependencies'
    BY <2>1 DEF WatchInv, WatchWaitsForDependencies, Accepted, RunsOf
  <2>4. IsFiniteSet(kids \ {s}) /\ Cardinality(kids \ {s}) <= Cardinality(kids)
        /\ Cardinality(kids) \in Nat /\ Cardinality(kids \ {s}) \in Nat
    BY FS_Subset, FS_CardinalityType DEF WatchInv, BatchIsBounded
  <2>5. BatchIsBounded'
    BY <2>1, <2>4, WatchAssumption DEF WatchInv, BatchIsBounded
  <2> QED BY <2>2, <2>3, <2>5 DEF WatchInv
<1>2. CASE KidFails(s)
  <2>1. /\ phase' = "over" /\ ready' = {} /\ needs' = NoDeps /\ kids' = {}
        /\ UNCHANGED <<inRun, streak, stop>>
    BY <1>2 DEF KidFails
  <2>2. WatchTypeOK' /\ WatchHands' /\ WatchCounts' /\ WatchWaitsForDependencies'
    BY <2>1 DEF WatchInv, WatchTypeOK, WatchHands, WatchCounts, WatchWaitsForDependencies, NoDeps
  <2>3. BatchIsBounded'
    BY <2>1, NoKids DEF BatchIsBounded
  <2> QED BY <2>2, <2>3 DEF WatchInv
<1> QED BY <1>1, <1>2

(* A cycle, or the watch, ends with no child running.                      *)
LEMMA EndsKeep ==
  ASSUME WatchInv, Halts \/ EndOfCycle
  PROVE  WatchInv'
<1>1. kids = {} /\ ready' = {} /\ needs' = NoDeps /\ UNCHANGED <<kids, stop>>
      /\ phase' \in {"cycle", "over"}
  BY DEF Halts, EndOfCycle, WatchInv, WatchHands
<1>2. \/ inRun' = 0 /\ streak' = 0
      \/ UNCHANGED <<inRun, streak>> /\ (phase' = "cycle" => inRun < MaxCycles)
  BY WatchAssumption DEF Halts, EndOfCycle, WatchInv, WatchTypeOK
<1>3. WatchTypeOK'
  BY <1>1, <1>2, WatchAssumption DEF WatchInv, WatchTypeOK, NoDeps
<1>4. WatchHands' /\ WatchWaitsForDependencies'
  BY <1>1 DEF WatchHands, WatchWaitsForDependencies
<1>5. BatchIsBounded'
  BY <1>1, NoKids DEF BatchIsBounded
<1>6. WatchCounts'
  BY <1>2, WatchAssumption DEF WatchInv, WatchCounts
<1> QED BY <1>3, <1>4, <1>5, <1>6 DEF WatchInv

(* The commands leave the watch alone, and only add to the evidence.       *)
LEMMA BesidesWatch ==
  ASSUME WatchInv, RunsSound, EvidenceGrows, UNCHANGED watchVars
  PROVE  WatchInv'
<1>1. WatchWaitsForDependencies'
  BY EvidenceStays DEF WatchInv, WatchWaitsForDependencies, watchVars
<1> QED BY <1>1 DEF WatchInv, WatchTypeOK, WatchHands, BatchIsBounded, WatchCounts, watchVars

LEMMA WatchStep_Inv ==
  ASSUME SpecsInv, WatchInv, [Next]_vars
  PROVE  SpecsInv' /\ WatchInv'
<1>1. CASE SpecsNext /\ UNCHANGED watchVars
  <2>1. SpecsInv' /\ EvidenceGrows /\ RunsSound
    BY <1>1, SpecsStep_Inv, StepGrows DEF SpecsInv
  <2> QED BY <1>1, <2>1, BesidesWatch
<1>2. CASE Watches \/ Child \/ StopSignal \/ UNCHANGED vars
  <2>1. UNCHANGED <<file, wf, landed, told, proc>>
    BY <1>2 DEF Watches, Child, Halts, Scans, ScanFails, Scan, Launch, EndOfCycle, KidEnds,
                KidFails, StopSignal, vars, specsVars
  <2>2. EvidenceGrows
    BY <2>1 DEF EvidenceGrows
  <2>3. SpecsInv'
    <3>1. Shapes' /\ RunsSound'
      BY <2>1 DEF SpecsInv, Shapes, RunsSound
    <3>2. FilesEarned'
      BY <2>1, <2>2, FrontStays DEF SpecsInv, FilesEarned
    <3>3. \A p \in Procs : ShellSound(proc[p])'
      BY <2>1, <2>2, ShellStays DEF SpecsInv
    <3> QED BY <3>1, <3>2, <3>3 DEF SpecsInv
  <2>4. CASE Scans \/ ScanFails
    BY <2>3, <2>4, ScanKeeps DEF Scans, ScanFails
  <2>5. CASE Halts \/ Launch \/ EndOfCycle \/ Child
    BY <2>3, <2>5, LaunchKeeps, EndsKeep, ChildKeeps DEF Child
  <2>6. CASE StopSignal
    <3>1. stop' = TRUE /\ UNCHANGED <<specsVars, phase, ready, needs, kids, inRun, streak>>
      BY <2>6 DEF StopSignal
    <3> QED BY <2>3, <3>1 DEF specsVars, WatchInv, WatchTypeOK, WatchWaitsForDependencies, WatchHands,
                              BatchIsBounded, WatchCounts, Accepted, RunsOf
  <2>7. CASE UNCHANGED vars
    BY <2>2, <2>3, <2>7, BesidesWatch DEF vars, SpecsInv
  <2> QED BY <1>2, <2>4, <2>5, <2>6, <2>7 DEF Watches
<1> QED BY <1>1, <1>2 DEF Next

LEMMA Spec_Inv == Spec => [](SpecsInv /\ WatchInv)
<1>1. Init => SpecsInv /\ WatchInv
  BY SpecsInit_Inv, WatchInit_Inv DEF Init
<1> QED BY <1>1, WatchStep_Inv, PTL DEF Spec

---------------------------------------------------------------------------
(* A spec is done or failed in its file only on evidence, in whatever      *)
(* order the commands read, decide and write, and wherever they die.       *)
THEOREM OutcomesAreEarned == Spec => []OutcomeWasEarned
<1>1. SpecsInv => OutcomeWasEarned
  BY DEF SpecsInv, FilesEarned, FrontEarned, OutcomeWasEarned, Given
<1> QED BY <1>1, Spec_Inv, PTL

(* dispatch-all and the watch have a spec in hand only when the specs it   *)
(* depends on were accepted.                                               *)
THEOREM DependenciesComeFirst == Spec => []StartsWaitForDependencies
<1>1. SpecsInv => AllWaitsForDependencies
  BY DEF SpecsInv, ShellSound, SeenSound, AllWaitsForDependencies
<1>2. WatchInv => WatchWaitsForDependencies
  BY DEF WatchInv
<1> QED BY <1>1, <1>2, Spec_Inv, PTL DEF StartsWaitForDependencies

(* The watch never runs more children than max_concurrent, nor one that it *)
(* still has to start in this cycle: the next batch waits for the last     *)
(* child of this one, whatever signals and failures come in between        *)
(* (workflow.py:495-509).                                                  *)
THEOREM BatchesAreBounded == Spec => []BatchIsBounded
<1>1. WatchInv => BatchIsBounded
  BY DEF WatchInv
<1> QED BY <1>1, Spec_Inv, PTL

(* Every record of a file, a workflow, a shell and the watch has its kind; *)
(* the streak of empty cycles stays within one run of the chain.           *)
THEOREM SpecsTypes == Spec => []TypeOK
<1>1. Init => SpecsTypeOK
  BY SpecsInit_Types DEF Init
<1>2. SpecsTypeOK /\ SpecsInv /\ [Next]_vars => SpecsTypeOK'
  <2>1. SUFFICES ASSUME SpecsTypeOK, SpecsInv, [Next]_vars
                 PROVE  SpecsTypeOK'
    OBVIOUS
  <2>2. CASE SpecsNext
    BY <2>1, <2>2, SpecsStep_Types
  <2>3. CASE UNCHANGED specsVars
    BY <2>1, <2>3 DEF specsVars, SpecsTypeOK
  <2>4. SpecsNext \/ UNCHANGED specsVars
    BY <2>1 DEF Next, Watches, Child, Halts, Scans, ScanFails, Scan, Launch, EndOfCycle,
                KidEnds, KidFails, StopSignal, vars
  <2> QED BY <2>2, <2>3, <2>4
<1>3. SpecsTypeOK /\ WatchInv => TypeOK
  BY DEF TypeOK, WatchInv
<1> QED BY <1>1, <1>2, <1>3, Spec_Inv, PTL DEF Spec

(* A command that makes a file forget a running workflow is one of the     *)
(* four kinds the property names.                                          *)
LEMMA WriteExcused ==
  ASSUME SpecsInv, NEW r \in Runs, Running(r), Named(r), NEW p \in Procs, Write(p),
         wf'[r].spec = wf[r].spec, ~Named(r)'
  PROVE  Excused(p, wf[r].spec, r)
<1> DEFINE s == wf[r].spec
<1>1. s \in Specs
  BY DEF SpecsInv, RunsSound, Running
<1>2. file[s].wid = r /\ file'[s].wid # r
  BY DEF Named
<1>3. file' = [file EXCEPT ![proc[p].spec] = Applied(proc[p].buf, proc[p].new)]
  BY DEF Write
<1>4. file = [t \in Specs |-> file[t]]
  BY DEF SpecsInv, Shapes
<1>5. proc[p].spec = s /\ file'[s] = Applied(proc[p].buf, proc[p].new)
  BY <1>1, <1>2, <1>3, <1>4
<1>6. proc[p].pc = "write" /\ DropsEnded(proc[p])
  BY DEF Write, SpecsInv, ShellSound, UpdateSound, Updating
<1>7. CASE proc[p].new.wid = Keep
  <2>1. file'[s].wid = proc[p].buf.wid
    BY <1>5, <1>7 DEF Applied
  <2>2. proc[p].buf # file[s]
    BY <1>2, <2>1
  <2> QED BY <1>5, <1>6, <2>2 DEF Excused
<1>8. CASE proc[p].about \in RunsOf(proc[p].spec) /\ ~Running(proc[p].about)
  BY <1>5, <1>6, <1>8 DEF Excused
<1> QED BY <1>5, <1>6, <1>7, <1>8 DEF DropsEnded, Excused

(* A file forgets the running workflow it names only then.                 *)
THEOREM RunningWorkIsKept == Spec => RunningIsKept
<1>1. ASSUME SpecsInv, [Next]_vars, NEW r \in Runs,
             Running(r), Running(r)', Named(r), ~Named(r)'
      PROVE  \E p \in Procs : Excused(p, wf[r].spec, r)
  <2>1. wf'[r].spec = wf[r].spec /\ wf[r].spec \in Specs
    <3>1. CASE SpecsNext
      BY <1>1, <3>1, StepGrows DEF EvidenceGrows, Running, SpecsInv, RunsSound
    <3>2. CASE UNCHANGED specsVars
      BY <1>1, <3>2 DEF specsVars, Running, SpecsInv, RunsSound
    <3>3. SpecsNext \/ UNCHANGED specsVars
      BY <1>1 DEF Next, Watches, Child, Halts, Scans, ScanFails, Scan, Launch, EndOfCycle,
                  KidEnds, KidFails, StopSignal, vars
    <3> QED BY <3>1, <3>2, <3>3
  <2>2. ~UNCHANGED file
    BY <1>1, <2>1 DEF Named
  <2>3. SpecsNext
    BY <1>1, <2>2 DEF Next, Watches, Child, Halts, Scans, ScanFails, Scan, Launch, EndOfCycle,
                      KidEnds, KidFails, StopSignal, vars, specsVars
  <2>4. (\E p \in Procs : Write(p)) \/ (\E s \in Specs : Edits(s))
    BY <2>2, <2>3 DEF SpecsNext, Starts, Works, StartSpec, StartAll, StartReconcile, StartList,
                      StartDone, Validate, SubmitFails, Submit, Describe, Match, Read, Open, Die,
                      Ends, Lands
  <2>5. ~(\E s \in Specs : Edits(s))
    <3>1. SUFFICES ASSUME NEW s \in Specs, Edits(s) PROVE FALSE
      OBVIOUS
    <3>2. file' = [file EXCEPT ![s].status = "ready"]
      BY <3>1 DEF Edits
    <3>3. /\ file = [t \in Specs |-> file[t]] /\ \A t \in Specs : IsFront(file[t])
      BY <1>1 DEF SpecsInv, Shapes
    <3>4. \A t \in Specs : file'[t].wid = file[t].wid
      BY <3>2, <3>3 DEF IsFront
    <3> QED BY <1>1, <2>1, <3>4 DEF Named
  <2> QED BY <1>1, <2>1, <2>4, <2>5, WriteExcused
<1>2. SpecsInv /\ [Next]_vars =>
        [\A r \in Runs : Running(r) /\ Running(r)' /\ Named(r) /\ ~Named(r)'
           => \E p \in Procs : Excused(p, wf[r].spec, r)]_specsVars
  BY <1>1
<1> QED BY <1>2, Spec_Inv, PTL DEF Spec, RunningIsKept
=============================================================================
