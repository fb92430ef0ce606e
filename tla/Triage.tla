-------------------------------- MODULE Triage --------------------------------
(***************************************************************************)
(* The triage store: which workflows the operator has reviewed, archived   *)
(* and given another verdict.  Commands of several terminals rewrite one   *)
(* file, each by loading it whole, changing it and replacing it under a    *)
(* file lock; `archive --all-reviewed` picks its ids from a read before    *)
(* the lock.  A command may die between any two steps.  A file that is     *)
(* there and cannot be read or parsed is loaded as an empty store, and     *)
(* replaced by what the command makes of that.                             *)
(*                                                                         *)
(* src/mtor/triage.py, src/mtor/cli.py                                     *)
(***************************************************************************)
EXTENDS FiniteSets

CONSTANTS
  Ids,         \* workflow ids
  Terminals    \* where commands run, one at a time each

VARIABLES
  triage,      \* triage.json: [reviewed, archived, verdict_overrides]
  lock,        \* the terminals that hold triage.json.lock
  cmd,         \* the command of each terminal
  told         \* history: what commands saved, to report it when they return,
               \* since one last replaced the file without reading it

triageVars == <<triage, lock, cmd, told>>

Stores == [reviewed : SUBSET Ids, archived : SUBSET Ids, verdict_overrides : SUBSET Ids]
EmptyStore == [reviewed |-> {}, archived |-> {}, verdict_overrides |-> {}]
Operations == {"review", "archive", "verdict"}
NoCommand  == [pc |-> "idle", op |-> "review", ids |-> {},
                data |-> EmptyStore, read |-> TRUE]

TriageInit ==
  /\ triage = EmptyStore /\ told = EmptyStore
  /\ lock = {} /\ cmd = [t \in Terminals |-> NoCommand]

(* What a command makes of the data it has loaded. *)
Reviewed(ids, data)   == [data EXCEPT !.reviewed = @ \cup (ids \ data.archived)]
Archived(ids, data)   == [data EXCEPT !.reviewed = @ \ ids, !.archived = @ \cup ids]
Overridden(ids, data) == [data EXCEPT !.verdict_overrides = @ \cup ids]

Mutated(op, ids, data) ==
  CASE op = "review"  -> Reviewed(ids, data)
    [] op = "archive" -> Archived(ids, data)
    [] op = "verdict" -> Overridden(ids, data)

Call(t, op, ids) ==
  /\ cmd[t].pc = "idle"
  /\ cmd' = [cmd EXCEPT ![t] = [NoCommand EXCEPT !.pc = "lock", !.op = op, !.ids = ids]]
  /\ UNCHANGED <<triage, lock, told>>

Review(t, ids)         == Call(t, "review", ids)
Archive(t, ids)        == Call(t, "archive", ids)
ArchiveAllReviewed(t)  == \E ids \in {triage.reviewed, {}} : Call(t, "archive", ids)
OverrideVerdict(t, ids) == Call(t, "verdict", ids)

(* Mutant: the file is rewritten without its lock. *)
AcquireNothing(t) ==
  /\ cmd[t].pc = "lock"
  /\ cmd' = [cmd EXCEPT ![t].pc = "load"]
  /\ UNCHANGED <<triage, lock, told>>

Acquire(t) ==
  /\ cmd[t].pc = "lock" /\ lock = {}
  /\ lock' = {t}
  /\ cmd' = [cmd EXCEPT ![t].pc = "load"]
  /\ UNCHANGED <<triage, told>>

(* load_triage: what the file holds, or nothing where it cannot be read. *)
Loaded(read) == IF read THEN triage ELSE EmptyStore

LoadTriage(t) ==
  /\ cmd[t].pc = "load"
  /\ \E read \in BOOLEAN :
       cmd' = [cmd EXCEPT ![t].pc = "save", ![t].read = read,
                          ![t].data = Mutated(cmd[t].op, cmd[t].ids, Loaded(read))]
  /\ UNCHANGED <<triage, lock, told>>

(* The ids of a command are added to what was reported. *)
Noted(op, ids, reports) ==
  CASE op = "review"  -> [reports EXCEPT !.reviewed = @ \cup ids]
    [] op = "archive" -> [reports EXCEPT !.archived = @ \cup ids]
    [] op = "verdict" -> [reports EXCEPT !.verdict_overrides = @ \cup ids]

SaveTriage(t) ==   \* a temporary file, then the atomic replace
  /\ cmd[t].pc = "save"
  /\ triage' = cmd[t].data
  /\ told' = Noted(cmd[t].op, cmd[t].ids, IF cmd[t].read THEN told ELSE EmptyStore)
  /\ lock' = lock \ {t}
  /\ cmd' = [cmd EXCEPT ![t] = NoCommand]

Dies(t) ==   \* the kernel drops its lock
  /\ cmd[t].pc # "idle"
  /\ cmd' = [cmd EXCEPT ![t] = NoCommand]
  /\ lock' = lock \ {t}
  /\ UNCHANGED <<triage, told>>

TriageNext ==
  \E t \in Terminals :
    \/ \E ids \in (SUBSET Ids) \ {{}} : Review(t, ids) \/ Archive(t, ids) \/ OverrideVerdict(t, ids)
    \/ ArchiveAllReviewed(t)
    \/ Acquire(t) \/ LoadTriage(t) \/ SaveTriage(t) \/ Dies(t)

TriageSpec == TriageInit /\ [][TriageNext]_triageVars

---------------------------------------------------------------------------
Command == [pc : {"idle", "lock", "load", "save"}, op : Operations,
            ids : SUBSET Ids, data : Stores, read : BOOLEAN]

TriageTypeOK ==
  /\ triage \in Stores /\ told \in Stores
  /\ lock \subseteq Terminals
  /\ cmd \in [Terminals -> Command]

(* What a command saves and reports stays in the store, whatever other      *)
(* terminals write meanwhile and wherever they die: an archived id stays    *)
(* archived, one reviewed is reviewed or archived, and no id is both.  That *)
(* lasts until a command cannot read the file: it takes it for empty, and   *)
(* what it saves is all that is left (triage.py:28-43, 78-90, 137-152,      *)
(* 165-221).                                                                *)
TriageKeepsReports ==
  /\ told.archived \subseteq triage.archived
  /\ told.reviewed \subseteq triage.reviewed \cup triage.archived
  /\ told.verdict_overrides \subseteq triage.verdict_overrides
  /\ triage.reviewed \cap triage.archived = {}
=============================================================================
