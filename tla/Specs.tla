-------------------------------- MODULE Specs ---------------------------------
(***************************************************************************)
(* The life of a spec file: the commands of the operator that dispatch     *)
(* specs and settle them read the front matter, ask Temporal, and write    *)
(* the file back, with no lock between the reading and the writing.        *)
(*                                                                         *)
(* Each command is a process of its own.  An update reads the file, opens  *)
(* it (which empties it) and writes it, in three steps: another command    *)
(* may run between any two, and sees an empty file between the last two.   *)
(* A command may die at any step.                                          *)
(*                                                                         *)
(* Left out: the freeze and pause markers and the dedup window, which only *)
(* make `mtor --spec` refuse; a submission may fail at any time instead.   *)
(* Two submissions of one spec are two workflows; the server would make    *)
(* one of two of the same second, whose ids are equal.                     *)
(*                                                                         *)
(* src/mtor/cli.py, reconcile.py, spec.py, dispatch.py, rptor.py           *)
(***************************************************************************)
EXTENDS Integers, FiniteSets

CONSTANTS
  Specs,      \* the names of the plan directory, numbers ordered as the code sorts them
  Deps,       \* depends_on of each
  Untested,   \* specs with no tests field
  Procs,      \* operators' shells, one command at a time
  May,        \* the commands used in each
  MaxRuns,    \* bound on the workflows the commands start
  MaxEdits    \* bound on the operator's own edits of a status

Runs == 1 .. MaxRuns

ASSUME SpecsAssumption ==
  /\ Specs \subseteq Nat
  /\ Deps \in [Specs -> SUBSET Specs]
  /\ Untested \subseteq Specs
  /\ MaxRuns \in Nat /\ MaxEdits \in Nat

VARIABLES
  file,     \* the front matter of each spec
  torn,     \* the specs whose file a command has opened and not yet written
  wf,       \* the workflows the commands started
  landed,   \* the specs a commit on main mentions
  told,     \* the specs an operator declared done (rptor_done)
  proc,     \* each shell
  edits     \* how often the operator has edited a status

specsVars == <<file, torn, wf, landed, told, proc, edits>>

Statuses == {"ready", "dispatched", "done", "failed"}
Verdicts == {"none", "approved", "rejected"}
Fronts   == [status : Statuses, wid : Runs \cup {0}, verdict : Verdicts]

Blank == [status |-> "ready", wid |-> 0, verdict |-> "none"]

(* What the commands parse: an emptied file has no front matter, which     *)
(* reads as a ready spec with no dependencies and no tests.                *)
Parsed(s)     == IF s \in torn THEN Blank ELSE file[s]
ParsedDeps(s) == IF s \in torn THEN {} ELSE Deps[s]
Tested(s)     == s \notin torn /\ s \notin Untested

(* Mutant: a dependency is satisfied once it was dispatched. *)
ResolvedOnDispatched ==
  {s \in Specs : /\ Parsed(s).status = "ready"
                 /\ \A d \in ParsedDeps(s) : Parsed(d).status \in {"dispatched", "done"}}

(* resolve_dag over what was parsed: statuses and dependencies.            *)
ResolvedDag ==
  {s \in Specs : /\ Parsed(s).status = "ready"
                 /\ \A d \in ParsedDeps(s) : Parsed(d).status = "done"}

(* The next spec of the list: the least name with no dependency left in it *)
(* is the next of topological_sort; without dependencies, of scan_specs.   *)
NextOf(todo, deps) ==
  LET free == {s \in todo : deps[s] \cap todo = {}}
  IN CHOOSE s \in free : \A t \in free : s <= t

NoDeps == [s \in Specs |-> {}]

---------------------------------------------------------------------------
(* A change of front matter: the status, and a workflow id and a verdict   *)
(* to set, to keep or to clear.                                            *)
Change(status, wid, verdict) == [status |-> status, wid |-> wid, verdict |-> verdict]
Keep  == -1
Clear == 0

Changes_ == [status : Statuses, wid : Runs \cup {Keep, Clear}, verdict : Verdicts]

(* update_spec_status on the text it has read. *)
Applied(f, c) ==
  [status  |-> c.status,
   wid     |-> IF c.wid = Keep THEN f.wid ELSE c.wid,
   verdict |-> IF c.verdict = "none" THEN f.verdict ELSE c.verdict]

(* reconcile_spec: a spec that is dispatched, and what Temporal says of    *)
(* the workflow it names; no change is its own status.                     *)
Missing == [status |-> "missing", verdict |-> "none"]

(* Mutant: a completed workflow without a verdict is done work. *)
DecisionUnverified(s, f, run) ==
  LET verdict == IF f.verdict # "none" THEN f.verdict ELSE run.verdict
  IN CASE run.status = "missing"   -> Change("ready", Clear, "none")
       [] run.status = "failed"    -> Change("failed", Keep, verdict)
       [] run.status = "completed" /\ verdict = "rejected" -> Change("failed", Keep, verdict)
       [] run.status = "completed" /\ verdict # "rejected" -> Change("done", Keep, verdict)
       [] OTHER -> Change("dispatched", Keep, "none")

Decision(s, f, run) ==
  LET verdict == IF f.verdict # "none" THEN f.verdict ELSE run.verdict
  IN IF run.status = "missing" THEN Change("ready", Clear, "none")
     ELSE IF run.status = "failed" THEN Change("failed", Keep, verdict)
     ELSE IF run.status # "completed" THEN Change("dispatched", Keep, "none")
     ELSE IF verdict = "rejected" THEN Change("failed", Keep, verdict)
     ELSE IF verdict = "approved" \/ (verdict = "none" /\ s \in landed)
       THEN Change("done", Keep, verdict)
     ELSE Change("ready", Clear, "none")

Settles(f) == f.status = "dispatched" /\ f.wid # 0

---------------------------------------------------------------------------
(* A shell: its command, the specs it has still to look at, what it read   *)
(* of them at the start, and the update under way.                         *)
Commands == {"none", "spec", "all", "reconcile", "list", "done"}
Steps    == {"idle", "validate", "submit", "look", "read", "open", "write", "dead"}

Execution == [run : Runs \cup {0}, status : {"none", "running", "completed", "failed"},
              verdict : Verdicts]
NoRun == [run |-> 0, status |-> "none", verdict |-> "none"]

Idle ==
  [cmd |-> "none", pc |-> "idle", todo |-> {}, deps |-> NoDeps,
   seen |-> [s \in Specs |-> Blank], runs |-> [s \in Specs |-> NoRun],
   spec |-> 0, about |-> 0, buf |-> Blank, new |-> Change("ready", Keep, "none")]

Dead == [Idle EXCEPT !.pc = "dead"]

(* Nothing has been dispatched; some shells are never used, and some edits *)
(* never made.                                                             *)
SpecsInit ==
  /\ file = [s \in Specs |-> Blank]
  /\ torn = {} /\ landed = {} /\ told = {}
  /\ wf = [r \in Runs |-> [spec |-> 0, status |-> "none", verdict |-> "none"]]
  /\ proc \in [Procs -> {Idle, Dead}]
  /\ edits \in 0 .. MaxEdits

Fresh    == {r \in Runs : wf[r].status = "none"}
RunsOf(s) == {r \in Runs : wf[r].status # "none" /\ wf[r].spec = s}

(* The shell goes on with the rest of its list, or is done. *)
Loop(p, pc, todo) ==
  proc' = [proc EXCEPT ![p] = IF todo = {} THEN Idle
                              ELSE [@ EXCEPT !.pc = pc, !.todo = todo]]
Resume(p) ==
  Loop(p, IF proc[p].cmd \in {"spec", "all"} THEN "submit" ELSE "look", proc[p].todo)

(* mtor --spec: the file must be ready and have tests; its dependencies    *)
(* are not looked at.                                                      *)
StartSpec(p, s) ==
  /\ proc[p].pc = "idle" /\ "spec" \in May[p]
  /\ Parsed(s).status = "ready" /\ Tested(s)
  /\ proc' = [proc EXCEPT ![p] = [Idle EXCEPT !.cmd = "spec", !.pc = "submit", !.todo = {s}]]
  /\ UNCHANGED <<file, torn, wf, landed, told, edits>>

(* dispatch-all scans the directory once ... *)
StartAll(p) ==
  /\ proc[p].pc = "idle" /\ "all" \in May[p]
  /\ ResolvedDag # {}
  /\ proc' = [proc EXCEPT ![p] =
       [Idle EXCEPT !.cmd = "all", !.pc = "validate", !.todo = ResolvedDag,
                    !.deps = [s \in Specs |-> ParsedDeps(s)]]]
  /\ UNCHANGED <<file, torn, wf, landed, told, edits>>

(* ... reads each candidate again to validate it, and goes through those   *)
(* that pass in topological order.                                         *)
Validate(p) ==
  /\ proc[p].pc = "validate"
  /\ Loop(p, "submit",
          {s \in proc[p].todo : Parsed(s).status = "ready" /\ Tested(s)})
  /\ UNCHANGED <<file, torn, wf, landed, told, edits>>

(* The server starts a workflow of the spec. *)
Begins(r, s) ==
  /\ r \in Fresh /\ \A q \in Fresh : r <= q
  /\ wf' = [wf EXCEPT ![r] = [spec |-> s, status |-> "running", verdict |-> "none"]]

(* _dispatch_prompt fails, before the workflow exists or after: its answer *)
(* is lost, or the file cannot be marked.                                  *)
SubmitFails(p) ==
  /\ proc[p].pc = "submit"
  /\ LET s == NextOf(proc[p].todo, proc[p].deps)
     IN /\ UNCHANGED wf \/ \E r \in Runs : Begins(r, s)
        /\ Loop(p, "submit", proc[p].todo \ {s})
  /\ UNCHANGED <<file, torn, landed, told, edits>>

(* _dispatch_prompt starts the workflow, and has yet to mark the file.     *)
Submit(p) ==
  /\ proc[p].pc = "submit"
  /\ \E r \in Runs :
       LET s == NextOf(proc[p].todo, proc[p].deps)
       IN /\ Begins(r, s)
          /\ proc' = [proc EXCEPT ![p].pc = "read", ![p].spec = s, ![p].about = r,
                                  ![p].todo = @ \ {s},
                                  ![p].new = Change("dispatched", r, "none")]
  /\ UNCHANGED <<file, torn, landed, told, edits>>

(* mtor reconcile scans the directory once.  A spec that is not dispatched *)
(* it leaves alone.                                                        *)
StartReconcile(p) ==
  /\ proc[p].pc = "idle" /\ "reconcile" \in May[p]
  /\ \E s \in Specs : Settles(Parsed(s))
  /\ proc' = [proc EXCEPT ![p] =
       [Idle EXCEPT !.cmd = "reconcile", !.pc = "look",
                    !.todo = {s \in Specs : Settles(Parsed(s))},
                    !.seen = [s \in Specs |-> IF Settles(Parsed(s)) THEN Parsed(s) ELSE Blank]]]
  /\ UNCHANGED <<file, torn, wf, landed, told, edits>>

(* mtor list asks for the executions once and takes the first of each      *)
(* spec; with its filters and its count that may be any of them, or none.  *)
Listings(s) ==
  {NoRun} \cup {[run |-> r, status |-> wf[r].status, verdict |-> wf[r].verdict] : r \in RunsOf(s)}

StartList(p) ==
  /\ proc[p].pc = "idle" /\ "list" \in May[p]
  /\ \E runs \in [Specs -> UNION {Listings(s) : s \in Specs}] :
       LET listed == {s \in Specs : runs[s] # NoRun}
       IN /\ \A s \in Specs : runs[s] \in Listings(s)
          /\ listed # {}
          /\ proc' = [proc EXCEPT ![p] =
               [Idle EXCEPT !.cmd = "list", !.pc = "look", !.todo = listed, !.runs = runs]]
  /\ UNCHANGED <<file, torn, wf, landed, told, edits>>

(* The decision for the next spec of the list; the update comes after it.  *)
Decide(p, s, f, run) ==
  LET c == Decision(s, f, run)
      todo == proc[p].todo \ {s}
  IN IF c.status = "dispatched" THEN Loop(p, "look", todo)
     ELSE proc' = [proc EXCEPT ![p].pc = "read", ![p].spec = s, ![p].about = f.wid,
                               ![p].todo = todo, ![p].new = c]

(* reconcile_all asks Temporal about what it read at the start; an error   *)
(* of the request is a workflow not found.                                 *)
Describe(p) ==
  /\ proc[p].pc = "look" /\ proc[p].cmd = "reconcile"
  /\ LET s == NextOf(proc[p].todo, NoDeps)
         f == proc[p].seen[s]
     IN \E run \in {wf[f.wid], Missing} : Decide(p, s, f, run)
  /\ UNCHANGED <<file, torn, wf, landed, told, edits>>

(* Mutant: the execution is not compared with the one the file names. *)
MatchAnyRun(p) ==
  /\ proc[p].pc = "look" /\ proc[p].cmd = "list"
  /\ LET s == NextOf(proc[p].todo, NoDeps)
     IN IF Settles(Parsed(s)) THEN Decide(p, s, Parsed(s), proc[p].runs[s])
        ELSE Loop(p, "look", proc[p].todo \ {s})
  /\ UNCHANGED <<file, torn, wf, landed, told, edits>>

(* reconcile_workflow_specs reads the file now: it must name the execution. *)
Match(p) ==
  /\ proc[p].pc = "look" /\ proc[p].cmd = "list"
  /\ LET s == NextOf(proc[p].todo, NoDeps)
     IN IF Parsed(s).wid = proc[p].runs[s].run /\ Settles(Parsed(s))
        THEN Decide(p, s, Parsed(s), proc[p].runs[s])
        ELSE Loop(p, "look", proc[p].todo \ {s})
  /\ UNCHANGED <<file, torn, wf, landed, told, edits>>

(* mtor rptor_done. *)
StartDone(p, s) ==
  /\ proc[p].pc = "idle" /\ "done" \in May[p]
  /\ proc' = [proc EXCEPT ![p] =
       [Idle EXCEPT !.cmd = "done", !.pc = "read", !.spec = s,
                    !.new = Change("done", Keep, "none")]]
  /\ told' = told \cup {s}
  /\ UNCHANGED <<file, torn, wf, landed, edits>>

(* update_spec_status: read, with nothing to do if there is no front       *)
(* matter; open; write.                                                    *)
Read(p) ==
  /\ proc[p].pc = "read"
  /\ IF proc[p].spec \in torn THEN Resume(p)
     ELSE proc' = [proc EXCEPT ![p].pc = "open", ![p].buf = file[proc[p].spec]]
  /\ UNCHANGED <<file, torn, wf, landed, told, edits>>

Open(p) ==
  /\ proc[p].pc = "open"
  /\ torn' = torn \cup {proc[p].spec}
  /\ proc' = [proc EXCEPT ![p].pc = "write"]
  /\ UNCHANGED <<file, wf, landed, told, edits>>

Write(p) ==
  /\ proc[p].pc = "write"
  /\ file' = [file EXCEPT ![proc[p].spec] = Applied(proc[p].buf, proc[p].new)]
  /\ torn' = torn \ {proc[p].spec}
  /\ Resume(p)
  /\ UNCHANGED <<wf, landed, told, edits>>

(* The command is killed; its shell is not used again. *)
Die(p) ==
  /\ proc[p].pc \notin {"idle", "dead"}
  /\ proc' = [proc EXCEPT ![p] = Dead]
  /\ UNCHANGED <<file, torn, wf, landed, told, edits>>

---------------------------------------------------------------------------
(* A workflow ends: completed, with the verdict of its search attribute if *)
(* that was set, or failed, canceled or terminated.                        *)
Ends(r) ==
  /\ wf[r].status = "running"
  /\ \/ \E v \in Verdicts : wf' = [wf EXCEPT ![r].status = "completed", ![r].verdict = v]
     \/ wf' = [wf EXCEPT ![r].status = "failed"]
  /\ UNCHANGED <<file, torn, landed, told, proc, edits>>

(* A commit that mentions the spec is on main. *)
Lands(s) ==
  /\ s \notin landed /\ RunsOf(s) # {}
  /\ landed' = landed \cup {s}
  /\ UNCHANGED <<file, torn, wf, told, proc, edits>>

(* The operator asks for a spec again, by editing its status: no command   *)
(* does that.  The rest of the front matter stays.                         *)
Edits(s) ==
  /\ edits < MaxEdits
  /\ s \notin torn /\ file[s].status \in {"done", "failed"}
  /\ file' = [file EXCEPT ![s].status = "ready"]
  /\ edits' = edits + 1
  /\ UNCHANGED <<torn, wf, landed, told, proc>>

Works(p) == \/ Validate(p) \/ SubmitFails(p) \/ Submit(p) \/ Describe(p) \/ Match(p)
            \/ Read(p) \/ Open(p) \/ Write(p)

Starts(p) == \/ \E s \in Specs : StartSpec(p, s) \/ StartDone(p, s)
             \/ StartAll(p) \/ StartReconcile(p) \/ StartList(p)

SpecsNext ==
  \/ \E p \in Procs : Starts(p) \/ Works(p) \/ Die(p)
  \/ \E r \in Runs : Ends(r)
  \/ \E s \in Specs : Lands(s) \/ Edits(s)

---------------------------------------------------------------------------
Shells ==
  [cmd : Commands, pc : Steps, todo : SUBSET Specs, deps : [Specs -> SUBSET Specs],
   seen : [Specs -> Fronts], runs : [Specs -> Execution],
   spec : Specs \cup {0}, about : Runs \cup {0}, buf : Fronts, new : Changes_]

SpecsTypeOK ==
  /\ file \in [Specs -> Fronts]
  /\ torn \subseteq Specs /\ landed \subseteq Specs /\ told \subseteq Specs
  /\ wf \in [Runs -> [spec : Specs \cup {0}, verdict : Verdicts,
                      status : {"none", "running", "completed", "failed"}]]
  /\ proc \in [Procs -> Shells]
  /\ edits \in 0 .. MaxEdits

(* Evidence for a status, which no later step takes back. *)
Accepted(s) == \/ s \in told
               \/ \E r \in RunsOf(s) : wf[r].status = "completed" /\ wf[r].verdict = "approved"
               \/ s \in landed /\ \E r \in RunsOf(s) : wf[r].status = "completed"
Refused(s)  == \E r \in RunsOf(s) : wf[r].status = "failed" \/ wf[r].verdict = "rejected"

(* Whatever the commands overwrite of one another, a spec is done only if  *)
(* an operator said so, a workflow of it was approved, or one completed    *)
(* and a commit mentions it; failed only if one of it failed or was        *)
(* rejected; and the verdict in its file is one it was given               *)
(* (reconcile.py:150-255, spec.py:108-194).                                *)
OutcomeWasEarned ==
  \A s \in Specs :
    /\ file[s].status = "done" => Accepted(s)
    /\ file[s].status = "failed" => Refused(s)
    /\ file[s].verdict # "none" =>
         \E r \in RunsOf(s) : wf[r].verdict = file[s].verdict

(* dispatch-all starts a spec only when each of its dependencies was       *)
(* accepted, unless it read the spec while another command was writing it  *)
(* and saw no dependencies (cli.py:4779-4861, rptor.py:408-434).           *)
AllWaitsForDependencies ==
  \A p \in Procs :
    proc[p].cmd = "all" /\ proc[p].pc # "dead" =>
      \A s \in proc[p].todo :
        proc[p].deps[s] = Deps[s] => \A d \in Deps[s] : Accepted(d)

(* A running workflow that its spec's file names is dropped from the file  *)
(* only by a command that marks a newer run, wrote over what it had not    *)
(* read, decided about an older run, or was told the workflow is missing   *)
(* (reconcile.py:191-254, 310-375, spec.py:134-194, dispatch.py:1467-1476). *)
Running(r) == wf[r].status = "running"
Named(r)   == file[wf[r].spec].wid = r

Excused(p, s, r) ==
  /\ proc[p].pc = "write" /\ proc[p].spec = s
  /\ \/ proc[p].cmd \in {"spec", "all"}
     \/ proc[p].buf # file[s]
     \/ proc[p].about # r
     \/ proc[p].cmd = "reconcile" /\ proc[p].new = Change("ready", Clear, "none")

RunningIsKept ==
  [][\A r \in Runs : Running(r) /\ Running(r)' /\ Named(r) /\ ~Named(r)'
       => \E p \in Procs : Excused(p, wf[r].spec, r)]_specsVars
=============================================================================
