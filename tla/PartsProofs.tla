----------------------------- MODULE PartsProofs ------------------------------
(***************************************************************************)
(* What the triage store, the provider routing, the reaper, the stall      *)
(* detector and the chaperone promise for every set of ids, terminals,     *)
(* providers, activities, processes, hashes, thresholds and results.       *)
(*                                                                         *)
(* The triage store: the lock makes a command's load and save one step, so *)
(* what it is about to save differs by its own ids alone from the file, or *)
(* from an empty store where it could not read the file.                   *)
(*                                                                         *)
(* The routing: every path out of the loop decrements the count of the     *)
(* provider it incremented, and a restart forgets both sides; a result is  *)
(* merged into the file as it is when the result arrives.  What is chosen  *)
(* is available, or of all those cooling down the first to be free; what   *)
(* was tried counts as one of them, until an instant no other has.         *)
(*                                                                         *)
(* The reaper: nothing born before a look escapes it, since a process that *)
(* is on record is found again by its number and start time, and whatever  *)
(* the record holds is the task's, since being the task's is inherited.    *)
(*                                                                         *)
(* The stall detector: the samples it keeps say what the silence was, so   *)
(* what it compares is a silence as long as the rule asks for, and while   *)
(* the silence lasts the count of one rule or the other keeps up with it.  *)
(*                                                                         *)
(* The chaperone: a result never changes, so each property is a fact about *)
(* one result: which flags a verdict leaves possible, and what the         *)
(* deductions for those flags add up to.                                   *)
(***************************************************************************)
EXTENDS Health, Triage, Reap, Stall, Review,
        FiniteSetTheorems, SequenceTheorems, WellFoundedInduction, TLAPS

---------------------------------------------------------------------------
(* The triage store. *)
Locked == {"load", "save"}

(* Who loads or saves holds the lock, alone. *)
LockHeld == \A t \in Terminals : cmd[t].pc \in Locked => lock = {t}

(* Who is about to save has changed what is in the file now, or nothing. *)
SavesOnTop ==
  \A t \in Terminals :
    cmd[t].pc = "save" => cmd[t].data = Mutated(cmd[t].op, cmd[t].ids, Loaded(cmd[t].read))

(* A store has taken the ids of an operation. *)
Taken(op, ids, store) ==
  /\ op = "review"  => ids \subseteq store.reviewed \cup store.archived
  /\ op = "archive" => ids \subseteq store.archived
  /\ op = "verdict" => ids \subseteq store.verdict_overrides

TriageInv == TriageTypeOK /\ LockHeld /\ SavesOnTop /\ TriageKeepsReports

(* A change only adds: what a store has taken it keeps, and the ids of the *)
(* operation are taken.                                                    *)
Grows(old, new) ==
  /\ old.archived \subseteq new.archived
  /\ old.reviewed \subseteq new.reviewed \cup new.archived
  /\ old.verdict_overrides \subseteq new.verdict_overrides

LEMMA MutatedShape ==
  ASSUME NEW op \in Operations, NEW ids \in SUBSET Ids, NEW data \in Stores
  PROVE  LET new == Mutated(op, ids, data)
         IN /\ new \in Stores
            /\ Grows(data, new)
            /\ Taken(op, ids, new)
            /\ data.reviewed \cap data.archived = {} => new.reviewed \cap new.archived = {}
<1>1. CASE op = "review"
  <2>1. Mutated(op, ids, data) = Reviewed(ids, data)
    BY <1>1 DEF Mutated
  <2>2. Reviewed(ids, data) = [reviewed |-> data.reviewed \cup (ids \ data.archived),
                               archived |-> data.archived,
                               verdict_overrides |-> data.verdict_overrides]
    BY DEF Reviewed, Stores
  <2> QED BY <1>1, <2>1, <2>2 DEF Stores, Grows, Taken
<1>2. CASE op = "archive"
  <2>1. Mutated(op, ids, data) = Archived(ids, data)
    BY <1>2 DEF Mutated
  <2>2. Archived(ids, data) \in Stores
    BY DEF Archived, Stores
  <2>3. /\ Archived(ids, data).reviewed = data.reviewed \ ids
        /\ Archived(ids, data).archived = data.archived \cup ids
        /\ Archived(ids, data).verdict_overrides = data.verdict_overrides
    BY DEF Archived, Stores
  <2> QED BY <1>2, <2>1, <2>2, <2>3 DEF Grows, Taken
<1>3. CASE op = "verdict"
  <2>1. Mutated(op, ids, data) = Overridden(ids, data)
    BY <1>3 DEF Mutated
  <2>2. Overridden(ids, data) = [reviewed |-> data.reviewed, archived |-> data.archived,
                                 verdict_overrides |-> data.verdict_overrides \cup ids]
    BY DEF Overridden, Stores
  <2> QED BY <1>3, <2>1, <2>2 DEF Stores, Grows, Taken
<1> QED BY <1>1, <1>2, <1>3 DEF Operations

(* What is reported of an operation, where the store has taken its ids.    *)
LEMMA NotedShape ==
  ASSUME NEW op \in Operations, NEW ids \in SUBSET Ids, NEW reports \in Stores,
         NEW store \in Stores, Taken(op, ids, store), Grows(reports, store)
  PROVE  Noted(op, ids, reports) \in Stores /\ Grows(Noted(op, ids, reports), store)
<1>1. CASE op = "review"
  <2>1. Noted(op, ids, reports) = [reviewed |-> reports.reviewed \cup ids,
                                   archived |-> reports.archived,
                                   verdict_overrides |-> reports.verdict_overrides]
    BY <1>1 DEF Noted, Stores
  <2> QED BY <1>1, <2>1 DEF Stores, Grows, Taken
<1>2. CASE op = "archive"
  <2>1. Noted(op, ids, reports) = [reviewed |-> reports.reviewed,
                                   archived |-> reports.archived \cup ids,
                                   verdict_overrides |-> reports.verdict_overrides]
    BY <1>2 DEF Noted, Stores
  <2> QED BY <1>2, <2>1 DEF Stores, Grows, Taken
<1>3. CASE op = "verdict"
  <2>1. Noted(op, ids, reports) = [reviewed |-> reports.reviewed,
                                   archived |-> reports.archived,
                                   verdict_overrides |-> reports.verdict_overrides \cup ids]
    BY <1>3 DEF Noted, Stores
  <2> QED BY <1>3, <2>1 DEF Stores, Grows, Taken
<1> QED BY <1>1, <1>2, <1>3 DEF Operations

(* What is reported is in a store that has grown from one that had it.     *)
LEMMA GrowsOn ==
  ASSUME NEW one, NEW other, NEW third, Grows(one, other), Grows(other, third)
  PROVE  Grows(one, third)
BY DEF Grows

(* The store holds the invariant at the start.                             *)
LEMMA TriageInit_Inv == TriageInit => TriageInv
BY DEF TriageInit, TriageInv, TriageTypeOK, LockHeld, SavesOnTop,
       TriageKeepsReports, EmptyStore, Stores, NoCommand, Command, Operations, Locked

(* The records of commands are commands.                                   *)
LEMMA CommandShape ==
  ASSUME NEW c \in Command, NEW op \in Operations, NEW ids \in SUBSET Ids,
         NEW data \in Stores, NEW read \in BOOLEAN
  PROVE  /\ NoCommand \in Command /\ EmptyStore \in Stores
         /\ [NoCommand EXCEPT !.pc = "lock", !.op = op, !.ids = ids] \in Command
         /\ [c EXCEPT !.pc = "save", !.read = read, !.data = data] \in Command
<1>1. EmptyStore \in Stores
  BY DEF EmptyStore, Stores
<1>2. NoCommand \in Command
  BY <1>1 DEF NoCommand, Command, Operations
<1>3. ASSUME NEW d \in Command
      PROVE  [d EXCEPT !.pc = "lock", !.op = op, !.ids = ids] \in Command
  BY DEF Command
<1>4. [c EXCEPT !.pc = "save", !.read = read, !.data = data] \in Command
  BY DEF Command
<1> QED BY <1>1, <1>2, <1>3, <1>4

LEMMA CallKeeps ==
  ASSUME TriageInv, NEW t \in Terminals, NEW op \in Operations, NEW ids \in SUBSET Ids,
         Call(t, op, ids)
  PROVE  TriageInv'
<1> USE DEF TriageInv, Call
<1>1. cmd[t] \in Command /\ triage \in Stores
  BY DEF TriageTypeOK
<1>2. [NoCommand EXCEPT !.pc = "lock", !.op = op, !.ids = ids] \in Command
  BY <1>1, CommandShape
<1>3. TriageTypeOK'
  BY <1>2 DEF TriageTypeOK
<1>4. \A u \in Terminals : u # t => cmd'[u] = cmd[u]
  BY DEF TriageTypeOK
<1>5. cmd'[t].pc = "lock"
  BY DEF TriageTypeOK, NoCommand
<1>6. LockHeld' /\ SavesOnTop'
  BY <1>4, <1>5 DEF LockHeld, SavesOnTop, Locked, Loaded
<1>7. TriageKeepsReports'
  BY DEF TriageKeepsReports
<1> QED BY <1>3, <1>6, <1>7

LEMMA AcquireKeeps ==
  ASSUME TriageInv, NEW t \in Terminals, Acquire(t)
  PROVE  TriageInv'
<1> USE DEF TriageInv, Acquire
<1>1. TriageTypeOK'
  BY DEF TriageTypeOK, Command
<1>2. \A u \in Terminals : u # t => cmd'[u] = cmd[u]
  BY DEF TriageTypeOK
<1>3. cmd'[t].pc = "load"
  BY DEF TriageTypeOK, Command
<1>4. LockHeld' /\ SavesOnTop'
  BY <1>2, <1>3 DEF LockHeld, SavesOnTop, Locked, Loaded
<1>5. TriageKeepsReports'
  BY DEF TriageKeepsReports
<1> QED BY <1>1, <1>4, <1>5

LEMMA LoadKeeps ==
  ASSUME TriageInv, NEW t \in Terminals, LoadTriage(t)
  PROVE  TriageInv'
<1> USE DEF TriageInv
<1>1. cmd[t] \in Command /\ triage \in Stores
  BY DEF TriageTypeOK
<1>2. cmd[t].op \in Operations /\ cmd[t].ids \in SUBSET Ids
  BY <1>1 DEF Command
<1>3. PICK read \in BOOLEAN :
        cmd' = [cmd EXCEPT ![t].pc = "save", ![t].read = read,
                           ![t].data = Mutated(cmd[t].op, cmd[t].ids, Loaded(read))]
  BY DEF LoadTriage
<1> DEFINE data == Mutated(cmd[t].op, cmd[t].ids, Loaded(read))
<1>4. Loaded(read) \in Stores
  BY <1>1 DEF Loaded, EmptyStore, Stores
<1>5. data \in Stores
  BY <1>2, <1>4, MutatedShape
<1>6. UNCHANGED <<triage, lock, told>> /\ cmd[t].pc = "load"
  BY DEF LoadTriage
<1> HIDE DEF data
<1>7. cmd' = [cmd EXCEPT ![t] = [cmd[t] EXCEPT !.pc = "save", !.read = read, !.data = data]]
  BY <1>3 DEF TriageTypeOK, data
<1>8. TriageTypeOK'
  <2>1. [cmd[t] EXCEPT !.pc = "save", !.read = read, !.data = data] \in Command
    BY <1>1, <1>2, <1>5, CommandShape
  <2> QED BY <1>6, <1>7, <2>1 DEF TriageTypeOK
<1>9. \A u \in Terminals : u # t => cmd'[u] = cmd[u]
  BY <1>7 DEF TriageTypeOK
<1>10. /\ cmd'[t].pc = "save" /\ cmd'[t].op = cmd[t].op /\ cmd'[t].ids = cmd[t].ids
       /\ cmd'[t].read = read /\ cmd'[t].data = data
  BY <1>1, <1>7 DEF TriageTypeOK, Command
<1>11. LockHeld'
  BY <1>6, <1>9, <1>10 DEF LockHeld, Locked
<1>12. SavesOnTop'
  <2>1. cmd'[t].data = Mutated(cmd'[t].op, cmd'[t].ids,
                               IF cmd'[t].read THEN triage' ELSE EmptyStore)
    BY <1>6, <1>10 DEF data, Loaded
  <2>2. ASSUME NEW u \in Terminals, u # t, cmd'[u].pc = "save"
        PROVE  cmd'[u].data = Mutated(cmd'[u].op, cmd'[u].ids,
                                      IF cmd'[u].read THEN triage' ELSE EmptyStore)
    BY <1>6, <1>9, <2>2 DEF SavesOnTop, Loaded
  <2> QED BY <2>1, <2>2 DEF SavesOnTop, Loaded
<1>13. TriageKeepsReports'
  BY <1>6 DEF TriageKeepsReports
<1> QED BY <1>8, <1>11, <1>12, <1>13

LEMMA SaveKeeps ==
  ASSUME TriageInv, NEW t \in Terminals, SaveTriage(t)
  PROVE  TriageInv'
<1> USE DEF TriageInv
<1>1. cmd[t] \in Command /\ triage \in Stores /\ told \in Stores /\ EmptyStore \in Stores
  BY DEF TriageTypeOK, EmptyStore, Stores
<1>2. cmd[t].op \in Operations /\ cmd[t].ids \in SUBSET Ids /\ cmd[t].read \in BOOLEAN
  BY <1>1 DEF Command
<1>3. triage' = Mutated(cmd[t].op, cmd[t].ids, Loaded(cmd[t].read))
  BY DEF SaveTriage, SavesOnTop
<1> DEFINE reports == IF cmd[t].read THEN told ELSE EmptyStore
<1>4. told' = Noted(cmd[t].op, cmd[t].ids, reports)
  BY DEF SaveTriage
<1>5. /\ Loaded(cmd[t].read) \in Stores /\ reports \in Stores
      /\ Grows(reports, Loaded(cmd[t].read))
      /\ Loaded(cmd[t].read).reviewed \cap Loaded(cmd[t].read).archived = {}
  <2>1. CASE cmd[t].read
    BY <1>1, <2>1 DEF Loaded, Grows, TriageKeepsReports
  <2>2. CASE ~cmd[t].read
    BY <1>1, <2>2 DEF Loaded, Grows, EmptyStore
  <2> QED BY <2>1, <2>2
<1> HIDE DEF reports
<1>6. /\ triage' \in Stores
      /\ Grows(Loaded(cmd[t].read), triage')
      /\ Taken(cmd[t].op, cmd[t].ids, triage')
      /\ triage'.reviewed \cap triage'.archived = {}
  BY <1>2, <1>3, <1>5, MutatedShape
<1>7. Grows(reports, triage')
  BY <1>5, <1>6, GrowsOn
<1>8. told' \in Stores /\ Grows(told', triage')
  BY <1>2, <1>4, <1>5, <1>6, <1>7, NotedShape
<1>9. cmd' = [cmd EXCEPT ![t] = NoCommand] /\ lock' = lock \ {t} /\ cmd[t].pc = "save"
  BY DEF SaveTriage
<1>10. TriageTypeOK'
  <2>1. NoCommand \in Command
    BY <1>1, <1>2, CommandShape
  <2> QED BY <1>6, <1>8, <1>9, <2>1 DEF TriageTypeOK
<1>11. \A u \in Terminals : u # t => cmd'[u] = cmd[u]
  BY <1>9 DEF TriageTypeOK
<1>12. cmd'[t].pc = "idle"
  BY <1>9 DEF TriageTypeOK, NoCommand
<1>13. \A u \in Terminals : u # t => cmd[u].pc \notin Locked
  BY <1>9 DEF LockHeld, Locked
<1>14. LockHeld' /\ SavesOnTop'
  BY <1>11, <1>12, <1>13 DEF LockHeld, SavesOnTop, Locked
<1>15. TriageKeepsReports'
  BY <1>6, <1>8 DEF TriageKeepsReports, Grows
<1> QED BY <1>10, <1>14, <1>15

LEMMA DiesKeeps ==
  ASSUME TriageInv, NEW t \in Terminals, Dies(t)
  PROVE  TriageInv'
<1> USE DEF TriageInv, Dies
<1>1. NoCommand \in Command
  BY DEF NoCommand, EmptyStore, Command, Operations, Stores
<1>2. TriageTypeOK'
  BY <1>1 DEF TriageTypeOK
<1>3. \A u \in Terminals : u # t => cmd'[u] = cmd[u]
  BY DEF TriageTypeOK
<1>4. cmd'[t].pc = "idle"
  BY DEF TriageTypeOK, NoCommand
<1>5. LockHeld' /\ SavesOnTop'
  BY <1>3, <1>4 DEF LockHeld, SavesOnTop, Locked, Loaded
<1>6. TriageKeepsReports'
  BY DEF TriageKeepsReports
<1> QED BY <1>2, <1>5, <1>6

LEMMA TriageStep_Inv == TriageInv /\ [TriageNext]_triageVars => TriageInv'
<1> SUFFICES ASSUME TriageInv, [TriageNext]_triageVars PROVE TriageInv'
  OBVIOUS
<1>1. CASE UNCHANGED triageVars
  BY <1>1 DEF TriageInv, triageVars, TriageTypeOK, LockHeld, SavesOnTop,
              TriageKeepsReports, Loaded
<1>2. ASSUME NEW t \in Terminals, NEW ids \in SUBSET Ids,
             Review(t, ids) \/ Archive(t, ids) \/ OverrideVerdict(t, ids)
      PROVE  TriageInv'
  BY <1>2, CallKeeps DEF Review, Archive, OverrideVerdict, Operations
<1>3. ASSUME NEW t \in Terminals, ArchiveAllReviewed(t)
      PROVE  TriageInv'
  <2>1. PICK ids \in {triage.reviewed, {}} : Call(t, "archive", ids)
    BY <1>3 DEF ArchiveAllReviewed
  <2>2. ids \in SUBSET Ids
    BY DEF TriageInv, TriageTypeOK, Stores
  <2> QED BY <2>1, <2>2, CallKeeps DEF Operations
<1>4. ASSUME NEW t \in Terminals,
             Acquire(t) \/ LoadTriage(t) \/ SaveTriage(t) \/ Dies(t)
      PROVE  TriageInv'
  BY <1>4, AcquireKeeps, LoadKeeps, SaveKeeps, DiesKeeps
<1> QED BY <1>1, <1>2, <1>3, <1>4 DEF TriageNext

(* What a command saves and reports stays in the store, whatever other     *)
(* terminals write and wherever they die, until one of them cannot read    *)
(* the file (triage.py:28-43, 137-152, 165-221).                           *)
THEOREM TriageReportsAreKept == TriageSpec => []TriageKeepsReports
<1>1. TriageInv => TriageKeepsReports
  BY DEF TriageInv
<1> QED BY <1>1, TriageInit_Inv, TriageStep_Inv, PTL DEF TriageSpec

(* The store is one that loads, changes and saves in a single step: what    *)
(* replaces the file is what one command makes of the file as it is then,   *)
(* or, when it could not read the file, of an empty one: two commands never *)
(* work on the same file (triage.py:28-43, 137-152, 165-221).               *)
OneCommandAtATime ==
  [][\E t \in Terminals :
       /\ cmd[t].pc = "save"
       /\ triage' = Mutated(cmd[t].op, cmd[t].ids, Loaded(cmd[t].read))]_triage

THEOREM NoUpdateIsLost == TriageSpec => OneCommandAtATime
<1>1. ASSUME TriageInv, [TriageNext]_triageVars, triage' # triage
      PROVE  \E t \in Terminals :
               /\ cmd[t].pc = "save"
               /\ triage' = Mutated(cmd[t].op, cmd[t].ids, Loaded(cmd[t].read))
  <2>1. PICK t \in Terminals : SaveTriage(t)
    BY <1>1 DEF TriageNext, triageVars, Review, Archive, OverrideVerdict, ArchiveAllReviewed,
                Call, Acquire, LoadTriage, Dies
  <2>2. cmd[t].pc = "save" /\ triage' = cmd[t].data
    BY <2>1 DEF SaveTriage
  <2> QED BY <1>1, <2>2 DEF TriageInv, SavesOnTop
<1>2. TriageInv /\ [TriageNext]_triageVars =>
        [\E t \in Terminals :
           /\ cmd[t].pc = "save"
           /\ triage' = Mutated(cmd[t].op, cmd[t].ids, Loaded(cmd[t].read))]_triage
  BY <1>1
<1> QED BY <1>2, TriageInit_Inv, TriageStep_Inv, PTL DEF TriageSpec, OneCommandAtATime

(* Every record of the store and of its commands has its kind.             *)
THEOREM TriageTypes == TriageSpec => []TriageTypeOK
<1>1. TriageInv => TriageTypeOK
  BY DEF TriageInv
<1> QED BY <1>1, TriageInit_Inv, TriageStep_Inv, PTL DEF TriageSpec

---------------------------------------------------------------------------
(* The circuit breaker's file. *)
BreakerInv ==
  /\ disk \in [Providers -> HealthEntry] /\ limits \in [Providers -> Nat] /\ clock \in Nat
  /\ BreakerRemembers

(* A result changes the entry of its provider and its history alike.       *)
LEMMA PersistKeeps ==
  ASSUME BreakerInv, NEW t \in Tasks, Persist(t)
  PROVE  BreakerInv'
<1> USE HealthAssumption DEF BreakerInv, HealthEntry
<1>1. PICK rc \in {0, 1, 42}, w \in Windows :
        /\ disk' = Updated(disk, task[t].prov, rc, Now + 2 * w)
        /\ limits' = [limits EXCEPT ![task[t].prov] = IF rc = 42 THEN @ + 1
                                                      ELSE IF rc = 0 THEN 0 ELSE @]
  BY DEF Persist
<1>2. clock' = clock
  BY DEF Persist
<1>3. Now + 2 * w \in Nat
  BY DEF Now
<1> DEFINE p == task[t].prov
<1>4. CASE rc = 42
  <2>1. /\ disk' = [disk EXCEPT ![p] = [state |-> "open", until |-> Now + 2 * w,
                                        failures |-> @.failures + 1]]
        /\ limits' = [limits EXCEPT ![p] = @ + 1]
    BY <1>1, <1>4 DEF Updated
  <2> HIDE DEF p
  <2>5. disk' = [q \in Providers |->
                  IF q = p THEN [state |-> "open", until |-> Now + 2 * w,
                                 failures |-> disk[q].failures + 1]
                  ELSE disk[q]]
    BY <2>1
  <2>6. limits' = [q \in Providers |-> IF q = p THEN limits[q] + 1 ELSE limits[q]]
    BY <2>1
  <2>2. disk' \in [Providers -> HealthEntry]
    BY <1>3, <2>5
  <2>3. limits' \in [Providers -> Nat]
    BY <2>6
  <2>4. ASSUME NEW q \in Providers
        PROVE  /\ disk'[q].failures = limits'[q]
               /\ disk'[q].state = "open" <=> limits'[q] > 0
    <3>1. CASE q = p
      <4>1. /\ disk'[q].failures = disk[q].failures + 1 /\ disk'[q].state = "open"
            /\ limits'[q] = limits[q] + 1
        BY <2>5, <2>6, <3>1
      <4> QED BY <4>1 DEF BreakerRemembers
    <3>2. CASE q # p
      <4>1. disk'[q] = disk[q] /\ limits'[q] = limits[q]
        BY <2>1, <3>2
      <4> QED BY <4>1 DEF BreakerRemembers
    <3> QED BY <3>1, <3>2
  <2> QED BY <1>2, <2>2, <2>3, <2>4 DEF BreakerRemembers
<1>5. CASE rc = 0
  <2>1. disk' = [disk EXCEPT ![p] = Closed] /\ limits' = [limits EXCEPT ![p] = 0]
    BY <1>1, <1>5 DEF Updated
  <2> HIDE DEF p
  <2>2. disk' \in [Providers -> HealthEntry] /\ limits' \in [Providers -> Nat]
    BY <2>1 DEF Closed
  <2>3. ASSUME NEW q \in Providers
        PROVE  /\ disk'[q].failures = limits'[q]
               /\ disk'[q].state = "open" <=> limits'[q] > 0
    <3>1. CASE q = p
      BY <2>1, <3>1 DEF Closed
    <3>2. CASE q # p
      <4>1. disk'[q] = disk[q] /\ limits'[q] = limits[q]
        BY <2>1, <3>2
      <4> QED BY <4>1 DEF BreakerRemembers
    <3> QED BY <3>1, <3>2
  <2> QED BY <1>2, <2>2, <2>3 DEF BreakerRemembers
<1>6. CASE rc = 1
  <2>1. disk' = disk
    BY <1>1, <1>6 DEF Updated
  <2>2. limits' = limits
    BY <1>1, <1>6
  <2> QED BY <1>2, <2>1, <2>2 DEF BreakerRemembers
<1> QED BY <1>4, <1>5, <1>6

LEMMA BreakerStep_Inv == BreakerInv /\ [HealthNext]_healthVars => BreakerInv'
<1> SUFFICES ASSUME BreakerInv, [HealthNext]_healthVars PROVE BreakerInv'
  OBVIOUS
<1>1. CASE \E t \in Tasks : Persist(t)
  BY <1>1, PersistKeeps
<1>2. CASE AnHourPasses
  BY <1>2 DEF AnHourPasses, BreakerInv, BreakerRemembers
<1>3. CASE UNCHANGED <<disk, limits, clock>>
  BY <1>3 DEF BreakerInv, BreakerRemembers
<1>4. [HealthNext]_healthVars =>
        \/ \E t \in Tasks : Persist(t)
        \/ AnHourPasses
        \/ UNCHANGED <<disk, limits, clock>>
  BY DEF HealthNext, Loop, Trouble, healthVars, Begin, Select, Spawned, HarnessEnds, Retry,
         SpawnFails, StallKillUnverified, Restart
<1> QED BY <1>1, <1>2, <1>3, <1>4

(* A provider's circuit is open just when it was rate limited after its    *)
(* last success, with as many failures as limits: no result of another     *)
(* activity is lost (provider.py, persist_health_result).                  *)
THEOREM BreakerKeepsResults == HealthSpec => []BreakerRemembers
<1>1. HealthInit => BreakerInv
  BY DEF HealthInit, BreakerInv, BreakerRemembers, Closed, HealthEntry
<1>2. BreakerInv => BreakerRemembers
  BY DEF BreakerInv
<1> QED BY <1>1, <1>2, BreakerStep_Inv, PTL DEF HealthSpec

---------------------------------------------------------------------------
(* The slots. *)
Busy(r) == r.pc \in {"spawning", "running"}

(* What an activity holds is a record of its six fields. *)
IsTask(r) == r = [pc |-> r.pc, asked |-> r.asked, health |-> r.health, rr |-> r.rr,
                  tried |-> r.tried, prov |-> r.prov]

SlotTypes ==
  /\ active \in [Providers -> Nat] /\ leaked \in [Providers -> Nat]
  /\ task = [t \in Tasks |-> task[t]] /\ \A t \in Tasks : IsTask(task[t])

SlotInv == SlotTypes /\ SlotsAreRunning

LEMMA RunningFinite == ASSUME NEW p PROVE IsFiniteSet(Running(p))
BY HealthAssumption, FS_Subset DEF Running

(* One activity moves: it joins the activities running on a provider or    *)
(* leaves them.                                                            *)
LEMMA OneMoves ==
  ASSUME NEW t \in Tasks, NEW p, \A u \in Tasks \ {t} : task'[u] = task[u]
  PROVE  Running(p)' = IF Busy(task'[t]) /\ task'[t].prov = p
                       THEN Running(p) \cup {t} ELSE Running(p) \ {t}
BY DEF Running, Busy

On(t, p) == Busy(task[t]) /\ task[t].prov = p

LEMMA MoveCounts ==
  ASSUME NEW t \in Tasks, NEW p, \A u \in Tasks \ {t} : task'[u] = task[u]
  PROVE  /\ Cardinality(Running(p)) \in Nat
         /\ On(t, p) <=> On(t, p)' => Cardinality(Running(p))' = Cardinality(Running(p))
         /\ ~On(t, p) /\ On(t, p)' => Cardinality(Running(p))' = Cardinality(Running(p)) + 1
         /\ On(t, p) /\ ~On(t, p)' => /\ Cardinality(Running(p)) > 0
                                      /\ Cardinality(Running(p))' = Cardinality(Running(p)) - 1
<1>1. IsFiniteSet(Running(p)) /\ Cardinality(Running(p)) \in Nat
  BY RunningFinite, FS_CardinalityType
<1>2. t \in Running(p) <=> On(t, p)
  BY DEF Running, On, Busy
<1>3. Running(p)' = IF On(t, p)' THEN Running(p) \cup {t} ELSE Running(p) \ {t}
  BY OneMoves DEF On
<1>4. On(t, p) => Cardinality(Running(p)) # 0
  BY <1>1, <1>2, FS_EmptySet
<1>5. /\ Cardinality(Running(p) \cup {t})
           = IF On(t, p) THEN Cardinality(Running(p)) ELSE Cardinality(Running(p)) + 1
      /\ Cardinality(Running(p) \ {t})
           = IF On(t, p) THEN Cardinality(Running(p)) - 1 ELSE Cardinality(Running(p))
  BY <1>1, <1>2, FS_AddElement, FS_RemoveElement
<1>6. Cardinality(Running(p))' = IF On(t, p)' THEN Cardinality(Running(p) \cup {t})
                                 ELSE Cardinality(Running(p) \ {t})
  BY <1>3
<1> QED BY <1>1, <1>4, <1>5, <1>6

(* An activity moves, and the count of each provider follows it.           *)
LEMMA SlotMove ==
  ASSUME SlotInv, NEW t \in Tasks,
         task' = [task EXCEPT ![t] = task'[t]], IsTask(task'[t]),
         active' \in [Providers -> Nat], leaked' \in [Providers -> Nat],
         \A p \in Providers :
           /\ On(t, p) <=> On(t, p)' => active'[p] = active[p] /\ leaked'[p] = leaked[p]
           /\ ~On(t, p) /\ On(t, p)' => active'[p] = active[p] + 1 /\ leaked'[p] = leaked[p]
           /\ On(t, p) /\ ~On(t, p)' =>
                \/ active'[p] = active[p] - 1 /\ leaked'[p] = leaked[p]
                \/ active'[p] = active[p] /\ leaked'[p] = leaked[p] + 1
  PROVE  SlotInv'
<1>1. SlotTypes'
  BY DEF SlotInv, SlotTypes, IsTask
<1>2. \A u \in Tasks \ {t} : task'[u] = task[u]
  BY DEF SlotInv, SlotTypes
<1>3. ASSUME NEW p \in Providers
      PROVE  active'[p] = Cardinality(Running(p))' + leaked'[p]
  <2>1. active[p] = Cardinality(Running(p)) + leaked[p]
    BY DEF SlotInv, SlotsAreRunning
  <2>2. active[p] \in Nat /\ leaked[p] \in Nat
    BY DEF SlotInv, SlotTypes
  <2> QED BY <1>2, <2>1, <2>2, MoveCounts
<1> QED BY <1>1, <1>3 DEF SlotInv, SlotsAreRunning

(* A slot that is held is counted.                                         *)
LEMMA HeldIsCounted ==
  ASSUME SlotInv, NEW t \in Tasks, NEW p \in Providers, On(t, p)
  PROVE  active[p] > 0
<1>1. t \in Running(p)
  BY DEF Running, On, Busy
<1>2. IsFiniteSet(Running(p)) /\ Cardinality(Running(p)) \in Nat \ {0}
  BY <1>1, RunningFinite, FS_CardinalityType, FS_EmptySet
<1> QED BY <1>2 DEF SlotInv, SlotTypes, SlotsAreRunning

(* The moves that take no slot and release none.                           *)
LEMMA QuietKeeps ==
  ASSUME SlotInv, NEW t \in Tasks, Begin(t) \/ Spawned(t) \/ Persist(t) \/ Retry(t)
  PROVE  SlotInv'
<1>1. task = [u \in Tasks |-> task[u]] /\ IsTask(task[t])
  BY DEF SlotInv, SlotTypes
<1>2. UNCHANGED <<active, leaked>>
  BY DEF Begin, Spawned, Persist, Retry
<1>3. /\ task' = [task EXCEPT ![t] = task'[t]] /\ IsTask(task'[t])
      /\ Busy(task'[t]) <=> Busy(task[t])
      /\ Busy(task[t]) => task'[t].prov = task[t].prov
  <2>1. CASE Begin(t)
    <3>1. PICK asked \in Providers \cup {None} :
            task' = [task EXCEPT ![t] =
              IF asked \in Retired THEN [Idle EXCEPT !.pc = "failed", !.asked = asked]
              ELSE [Idle EXCEPT !.pc = "select", !.asked = asked, !.health = disk,
                                !.rr = IF asked = None THEN 1 ELSE 0]]
      BY <2>1 DEF Begin
    <3>2. task'[t] = [pc |-> IF asked \in Retired THEN "failed" ELSE "select",
                      asked |-> asked,
                      health |-> IF asked \in Retired THEN Idle.health ELSE disk,
                      rr |-> IF asked \in Retired THEN 0 ELSE IF asked = None THEN 1 ELSE 0,
                      tried |-> {}, prov |-> None]
      BY <1>1, <3>1 DEF Idle
    <3>3. IsTask(task'[t])
      BY <3>2 DEF IsTask
    <3>4. task' = [task EXCEPT ![t] = task'[t]]
      BY <1>1, <3>1
    <3>5. task[t].pc = "idle"
      BY <2>1, Zenon DEF Begin
    <3>6. task'[t].pc \in {"failed", "select"}
      BY <3>2
    <3>7. ~Busy(task[t]) /\ ~Busy(task'[t])
      BY <3>5, <3>6 DEF Busy
    <3> QED BY <3>3, <3>4, <3>7
  <2>2. CASE Spawned(t)
    BY <1>1, <2>2 DEF Spawned, IsTask, Busy
  <2>3. CASE Persist(t)
    <3>1. PICK rc, health :
            task' = [task EXCEPT ![t].health = health, ![t].rr = 0,
                                 ![t].pc = IF rc = 42 THEN "throttled" ELSE "returned"]
      BY <2>3, Zenon DEF Persist
    <3>2. task'[t] = [pc |-> IF rc = 42 THEN "throttled" ELSE "returned", asked |-> task[t].asked,
                      health |-> health, rr |-> 0, tried |-> task[t].tried, prov |-> task[t].prov]
      BY <1>1, <3>1 DEF IsTask
    <3>3. IsTask(task'[t])
      BY <3>2 DEF IsTask
    <3>4. task' = [task EXCEPT ![t] = task'[t]]
      BY <1>1, <3>1
    <3>5. task[t].pc = "ended"
      BY <2>3, Zenon DEF Persist
    <3>6. task'[t].pc \in {"throttled", "returned"}
      BY <3>2
    <3>7. ~Busy(task[t]) /\ ~Busy(task'[t])
      BY <3>5, <3>6 DEF Busy
    <3> QED BY <3>3, <3>4, <3>7
  <2>4. CASE Retry(t)
    BY <1>1, <2>4 DEF Retry, IsTask, Busy
  <2> QED BY <2>1, <2>2, <2>3, <2>4
<1>4. \A p \in Providers : On(t, p) <=> On(t, p)'
  BY <1>3 DEF On
<1>5. active' \in [Providers -> Nat] /\ leaked' \in [Providers -> Nat]
  BY <1>2 DEF SlotInv, SlotTypes
<1> QED BY <1>2, <1>3, <1>4, <1>5, SlotMove

(* A slot is taken before the harness is spawned.                          *)
LEMMA SelectKeeps ==
  ASSUME SlotInv, NEW t \in Tasks, Select(t)
  PROVE  SlotInv'
<1>1. task = [u \in Tasks |-> task[u]] /\ IsTask(task[t])
  BY DEF SlotInv, SlotTypes
<1>2. PICK p : /\ task' = [task EXCEPT ![t].pc = "spawning", ![t].prov = p,
                                       ![t].tried = @ \cup {p}]
               /\ active' = [active EXCEPT ![p] = @ + 1]
  BY DEF Select
<1>3. task'[t] = [pc |-> "spawning", asked |-> task[t].asked, health |-> task[t].health,
                  rr |-> task[t].rr, tried |-> task[t].tried \cup {p}, prov |-> p]
  BY <1>1, <1>2 DEF IsTask
<1>4. task' = [task EXCEPT ![t] = task'[t]] /\ IsTask(task'[t])
  BY <1>1, <1>2, <1>3 DEF IsTask
<1>5. task[t].pc = "select" /\ leaked' = leaked
  BY DEF Select
<1>6. \A q \in Providers : ~On(t, q) /\ (On(t, q)' <=> q = p)
  BY <1>3, <1>5 DEF On, Busy
<1>7. /\ active' \in [Providers -> Nat]
      /\ \A q \in Providers : active'[q] = IF q = p THEN active[q] + 1 ELSE active[q]
  <2>1. active \in [Providers -> Nat]
    BY DEF SlotInv, SlotTypes
  <2>2. active' = [q \in Providers |-> IF q = p THEN active[q] + 1 ELSE active[q]]
    BY <1>2, <2>1
  <2>3. active' \in [Providers -> Nat]
    BY <2>1, <2>2
  <2>4. \A q \in Providers : active'[q] = IF q = p THEN active[q] + 1 ELSE active[q]
    BY <2>1, <2>2
  <2> QED BY <2>3, <2>4
<1>8. leaked' \in [Providers -> Nat]
  BY <1>5 DEF SlotInv, SlotTypes
<1> QED BY <1>4, <1>5, <1>6, <1>7, <1>8, SlotMove

(* It is released when the harness has ended or could not be spawned, and  *)
(* is lost when a stall kill raises.                                       *)
LEMMA ReleaseKeeps ==
  ASSUME SlotInv, NEW t \in Tasks, SpawnFails(t) \/ HarnessEnds(t) \/ StallKillUnverified(t)
  PROVE  SlotInv'
<1> DEFINE p == task[t].prov
<1>1. task = [u \in Tasks |-> task[u]] /\ IsTask(task[t])
  BY DEF SlotInv, SlotTypes
<1>2. /\ task[t].pc \in {"spawning", "running"}
      /\ task' = [task EXCEPT ![t] = task'[t]] /\ IsTask(task'[t])
      /\ task'[t].pc \in {"failed", "ended", "returned"}
  BY <1>1 DEF SpawnFails, HarnessEnds, StallKillUnverified, IsTask
<1>3. \A q \in Providers : (On(t, q) <=> q = p) /\ ~On(t, q)'
  BY <1>2 DEF On, Busy
<1>4. p \in Providers => active[p] > 0
  BY <1>3, HeldIsCounted
<1>5. active \in [Providers -> Nat] /\ leaked \in [Providers -> Nat]
  BY DEF SlotInv, SlotTypes
<1>6. CASE SpawnFails(t) \/ HarnessEnds(t)
  <2>1. active' = [active EXCEPT ![p] = IF @ > 0 THEN @ - 1 ELSE 0] /\ leaked' = leaked
    BY <1>6 DEF SpawnFails, HarnessEnds, Released
  <2>2. /\ active' \in [Providers -> Nat]
        /\ \A q \in Providers : active'[q] = IF q = p THEN active[q] - 1 ELSE active[q]
    <3> HIDE DEF p
    <3>1. active' = [q \in Providers |-> IF q = p THEN (IF active[q] > 0 THEN active[q] - 1 ELSE 0)
                                         ELSE active[q]]
      BY <1>5, <2>1
    <3>2. active' \in [Providers -> Nat]
      BY <1>5, <3>1
    <3>3. \A q \in Providers : active'[q] = IF q = p THEN active[q] - 1 ELSE active[q]
      BY <1>4, <1>5, <3>1
    <3> QED BY <3>2, <3>3
  <2> QED BY <1>2, <1>3, <1>5, <2>1, <2>2, SlotMove
<1>7. CASE StallKillUnverified(t)
  <2>1. leaked' = [leaked EXCEPT ![p] = @ + 1] /\ active' = active
    BY <1>7 DEF StallKillUnverified
  <2>2. /\ leaked' \in [Providers -> Nat]
        /\ \A q \in Providers : leaked'[q] = IF q = p THEN leaked[q] + 1 ELSE leaked[q]
    <3> HIDE DEF p
    <3>1. leaked' = [q \in Providers |-> IF q = p THEN leaked[q] + 1 ELSE leaked[q]]
      BY <1>5, <2>1
    <3>2. leaked' \in [Providers -> Nat]
      BY <1>5, <3>1
    <3>3. \A q \in Providers : leaked'[q] = IF q = p THEN leaked[q] + 1 ELSE leaked[q]
      BY <1>5, <3>1
    <3> QED BY <3>2, <3>3
  <2> QED BY <1>2, <1>3, <1>5, <2>1, <2>2, SlotMove
<1> QED BY <1>6, <1>7

(* A restarted worker counts nothing and runs nothing.                     *)
LEMMA RestartKeeps ==
  ASSUME SlotInv, Restart
  PROVE  SlotInv'
<1>1. /\ active' = [p \in Providers |-> 0] /\ leaked' = [p \in Providers |-> 0]
      /\ task' = [t \in Tasks |->
                    IF task[t].pc \in {"idle", "returned", "failed"} THEN task[t] ELSE Idle]
  BY DEF Restart
<1>2. IsTask(Idle) /\ Idle.pc = "idle"
  BY DEF IsTask, Idle
<1>3. SlotTypes'
  <2>1. \A t \in Tasks : IsTask(task[t])
    BY DEF SlotInv, SlotTypes
  <2>2. \A t \in Tasks : IsTask(task'[t])
    BY <1>1, <1>2, <2>1
  <2>3. task' = [t \in Tasks |-> task'[t]]
    BY <1>1
  <2> QED BY <1>1, <2>2, <2>3 DEF SlotTypes
<1>4. \A p \in Providers : Running(p)' = {}
  BY <1>1, <1>2 DEF Running
<1>5. \A p \in Providers : Cardinality(Running(p))' = 0
  BY <1>4, FS_EmptySet
<1>6. SlotsAreRunning'
  BY <1>1, <1>5 DEF SlotsAreRunning
<1> QED BY <1>3, <1>6 DEF SlotInv

LEMMA SlotInit_Inv == HealthInit => SlotInv
<1> SUFFICES ASSUME HealthInit PROVE SlotInv
  OBVIOUS
<1>1. IsTask(Idle) /\ Idle.pc = "idle"
  BY DEF IsTask, Idle
<1>2. SlotTypes
  BY <1>1 DEF HealthInit, SlotTypes
<1>3. \A p \in Providers : Running(p) = {}
  BY <1>1 DEF HealthInit, Running
<1>4. SlotsAreRunning
  BY <1>3, FS_EmptySet DEF HealthInit, SlotsAreRunning
<1> QED BY <1>2, <1>4 DEF SlotInv

LEMMA SlotStep_Inv == SlotInv /\ [HealthNext]_healthVars => SlotInv'
<1> SUFFICES ASSUME SlotInv, [HealthNext]_healthVars PROVE SlotInv'
  OBVIOUS
<1>1. CASE UNCHANGED <<task, active, leaked>>
  BY <1>1 DEF SlotInv, SlotTypes, SlotsAreRunning, Running
<1>2. ASSUME NEW t \in Tasks, Loop(t) \/ Trouble(t)
      PROVE  SlotInv'
  BY <1>2, QuietKeeps, SelectKeeps, ReleaseKeeps DEF Loop, Trouble
<1> QED BY <1>1, <1>2, RestartKeeps DEF HealthNext, AnHourPasses, healthVars

(* A provider's count is the number of harnesses running on it, plus the   *)
(* releases that a stall kill skipped (translocase.py:1683-1893).          *)
THEOREM SlotsFollowHarnesses == HealthSpec => []SlotsAreRunning
<1>1. SlotInv => SlotsAreRunning
  BY DEF SlotInv
<1> QED BY <1>1, SlotInit_Inv, SlotStep_Inv, PTL DEF HealthSpec

---------------------------------------------------------------------------
(* The routing: which provider is chosen, and what it is chosen from.      *)

(* A set that a measure is defined on has an element that is least in it.  *)
LEMMA LeastMeasure ==
  ASSUME NEW S, S # {}, NEW f, \A x \in S : f[x] \in Nat
  PROVE  \E x \in S : \A y \in S : f[x] <= f[y]
<1> DEFINE V == {f[x] : x \in S}
<1>1. V # {} /\ V \subseteq Nat
  OBVIOUS
<1> HIDE DEF V
<1>2. PICK v \in V : \A u \in V : ~(<<u, v>> \in OpToRel(<, Nat))
  BY <1>1, WFMin, NatLessThanWellFounded
<1>3. \A u \in V : ~(u < v)
  BY <1>1, <1>2 DEF OpToRel
<1>4. PICK x \in S : v = f[x]
  BY DEF V
<1>5. \A y \in S : ~(f[y] < f[x])
  BY <1>3, <1>4 DEF V
<1> QED BY <1>5

(* Each routed provider has a place of its own, and there are finitely     *)
(* many.                                                                   *)
LEMMA Places ==
  /\ \A p \in Routed : Place(p) \in Nat /\ Priority[Place(p)] = p
  /\ \A p, q \in Routed : Place(p) = Place(q) => p = q
  /\ IsFiniteSet(Routed)
<1>1. Priority \in Seq(Routed) /\ DOMAIN Priority = 1 .. Len(Priority)
  BY HealthAssumption
<1>2. \A p \in Routed : Place(p) \in DOMAIN Priority /\ Priority[Place(p)] = p
  BY DEF Routed, ToSet, Place
<1>3. IsFiniteSet(Routed)
  <2>1. IsFiniteSet(1 .. Len(Priority))
    BY <1>1, FS_Interval
  <2> DEFINE pl == [i \in 1 .. Len(Priority) |-> Priority[i]]
  <2>2. pl \in Surjection(1 .. Len(Priority), Routed)
    BY <1>1 DEF Surjection, Routed, ToSet
  <2> QED BY <2>1, <2>2, FS_Surjection
<1> QED BY <1>1, <1>2, <1>3

(* The first of some providers is the one that none precedes.              *)
LEMMA FirstOfThem ==
  ASSUME NEW ps \in SUBSET Routed, ps # {}
  PROVE  Nth(ps, 0) \in ps
<1> DEFINE pl == [p \in ps |-> Place(p)]
<1>1. \A p \in ps : pl[p] \in Nat
  BY Places
<1>2. PICK p \in ps : \A q \in ps : pl[p] <= pl[q]
  BY <1>1, LeastMeasure
<1>3. Before(ps, p) = {}
  BY <1>1, <1>2 DEF Before
<1> QED BY <1>3, FS_EmptySet DEF Nth

(* And for every number below theirs there is one that so many precede:    *)
(* how many precede a provider tells it from the others, so those numbers  *)
(* are as many as the providers.                                           *)
LEMMA NthOfThem ==
  ASSUME NEW ps \in SUBSET Routed, NEW k \in Nat, k < Cardinality(ps)
  PROVE  Nth(ps, k) \in ps
<1> DEFINE n == Cardinality(ps)
           rank == [p \in ps |-> Cardinality(Before(ps, p))]
           ranks == {rank[p] : p \in ps}
<1>1. IsFiniteSet(ps) /\ n \in Nat
  BY Places, FS_Subset, FS_CardinalityType
<1>2. \A p \in ps : Before(ps, p) \in SUBSET ps /\ p \notin Before(ps, p)
  BY Places DEF Before
<1>3. \A p \in ps : IsFiniteSet(Before(ps, p)) /\ rank[p] \in Nat
  BY <1>1, <1>2, FS_Subset, FS_CardinalityType
<1>4. \A p \in ps : rank[p] \in 0 .. n - 1
  <2> TAKE p \in ps
  <2>1. Cardinality(Before(ps, p)) <= n /\ Cardinality(Before(ps, p)) # n
    BY <1>1, <1>2, FS_Subset
  <2> QED BY <1>1, <1>3, <2>1
<1>5. \A p, q \in ps : Place(p) < Place(q) => rank[p] # rank[q]
  <2> SUFFICES ASSUME NEW p \in ps, NEW q \in ps, Place(p) < Place(q)
               PROVE  Cardinality(Before(ps, p)) # Cardinality(Before(ps, q))
    OBVIOUS
  <2>1. Before(ps, p) \in SUBSET Before(ps, q) /\ p \in Before(ps, q) /\ p \notin Before(ps, p)
    BY Places DEF Before
  <2> QED BY <1>3, <2>1, FS_Subset
<1>6. \A p, q \in ps : p # q => rank[p] # rank[q]
  <2> TAKE p, q \in ps
  <2>1. p # q => Place(p) < Place(q) \/ Place(q) < Place(p)
    BY Places
  <2> QED BY <1>5, <2>1
<1>7. rank \in Bijection(ps, ranks)
  BY <1>6 DEF Bijection, Injection, Surjection, IsInjective
<1>8. Cardinality(ranks) = n
  <2>1. ExistsBijection(ps, ranks)
    BY <1>7 DEF ExistsBijection
  <2> HIDE DEF ranks
  <2> QED BY <1>1, <2>1, FS_SameCardinalityBij, FS_Bijection, FS_CardinalityType
<1>9. Cardinality(0 .. n - 1) = n /\ IsFiniteSet(0 .. n - 1)
  <2> HIDE DEF n
  <2>1. IF 0 > n - 1 THEN n = 0 ELSE TRUE
    BY <1>1
  <2> QED BY <1>1, <2>1, FS_Interval
<1>10. ranks = 0 .. n - 1
  <2>1. ranks \in SUBSET (0 .. n - 1)
    BY <1>4
  <2> HIDE DEF ranks, n
  <2> QED BY <1>8, <1>9, <2>1, FS_Subset
<1>11. \E p \in ps : rank[p] = k
  <2>1. k \in 0 .. n - 1
    BY <1>1
  <2>2. k \in ranks
    BY <1>10, <2>1
  <2> HIDE DEF rank
  <2> QED BY <2>2
<1> QED BY <1>11 DEF Nth

LEMMA LeastLoadedOfThem ==
  ASSUME active \in [Providers -> Nat], NEW ps \in SUBSET Routed, ps # {}
  PROVE  LeastLoaded(ps) \in SUBSET ps /\ LeastLoaded(ps) # {}
<1>1. \A p \in ps : active[p] \in Nat
  BY DEF Providers
<1> QED BY <1>1, LeastMeasure DEF LeastLoaded

(* What the advance of expired cooldowns leaves of a circuit.              *)
LEMMA AdvancedLeaves ==
  ASSUME NEW h, NEW t \in Nat, NEW p \in Routed, Routed \subseteq DOMAIN h, h[p] \in HealthEntry
  PROVE  /\ Advanced(h, t)[p].until = h[p].until
         /\ IsAvailable(Advanced(h, t), p, t) <=> IsAvailable(h, p, t)
         /\ ~IsAvailable(h, p, t) => Advanced(h, t)[p] = h[p]
<1>1. Advanced(h, t)[p] = IF h[p].state = "open" /\ t >= h[p].until
                          THEN [h[p] EXCEPT !.state = "half_open"] ELSE h[p]
  BY DEF Advanced
<1>2. [h[p] EXCEPT !.state = "half_open"].until = h[p].until
      /\ [h[p] EXCEPT !.state = "half_open"].state = "half_open"
  BY DEF HealthEntry
<1>3. h[p].until \in Nat
  BY DEF HealthEntry
<1> QED BY <1>1, <1>2, <1>3 DEF IsAvailable

(* The routing chooses a provider that is available, or else the one whose *)
(* cooldown ends first.                                                    *)
LEMMA RoutingChooses ==
  ASSUME active \in [Providers -> Nat], NEW h, NEW idx \in Nat, NEW t \in Nat,
         Routed \subseteq DOMAIN h, \A p \in Routed : h[p] \in HealthEntry
  PROVE  /\ Routing(h, idx, t) \in Routed
         /\ \/ IsAvailable(h, Routing(h, idx, t), t)
            \/ \A q \in Routed : /\ ~IsAvailable(h, q, t)
                                 /\ h[Routing(h, idx, t)].until <= h[q].until
<1> DEFINE a == Advanced(h, t)
           healthy == {p \in Routed : IsAvailable(a, p, t)}
           free == {p \in healthy : active[p] < Limit[p]}
           least == LeastLoaded(free)
           r == Routing(h, idx, t)
<1>1. r = CASE free # {}                 -> Nth(least, idx % Cardinality(least))
            [] free = {} /\ healthy # {} -> Nth(LeastLoaded(healthy), 0)
            [] OTHER                     -> EarliestCooldown(a)
  BY DEF Routing
<1> HIDE DEF r
<1>2. CASE free # {}
  <2>1. free \in SUBSET Routed
    OBVIOUS
  <2> HIDE DEF free
  <2>2. least \in SUBSET free /\ least # {}
    BY <1>2, <2>1, LeastLoadedOfThem
  <2>3. least \in SUBSET Routed
    BY <2>1, <2>2
  <2> HIDE DEF least
  <2>4. IsFiniteSet(least) /\ Cardinality(least) \in Nat \ {0}
    BY <2>2, <2>3, Places, FS_Subset, FS_CardinalityType, FS_EmptySet
  <2> DEFINE k == idx % Cardinality(least)
  <2>5. k \in Nat /\ k < Cardinality(least)
    BY <2>4
  <2> HIDE DEF k
  <2>6. Nth(least, k) \in least
    BY <2>3, <2>5, NthOfThem
  <2>7. r \in free
    BY <1>1, <1>2, <2>2, <2>6 DEF k
  <2> QED BY <2>7, AdvancedLeaves DEF r, free
<1>3. CASE free = {} /\ healthy # {}
  <2>1. healthy \in SUBSET Routed
    OBVIOUS
  <2>2. r = Nth(LeastLoaded(healthy), 0)
    BY <1>1, <1>3
  <2> HIDE DEF healthy, free
  <2>3. LeastLoaded(healthy) \in SUBSET healthy /\ LeastLoaded(healthy) # {}
    BY <1>3, <2>1, LeastLoadedOfThem
  <2>4. r \in healthy
    BY <2>1, <2>2, <2>3, FirstOfThem
  <2> QED BY <2>4, AdvancedLeaves DEF r, healthy
<1>4. CASE healthy = {}
  <2>1. r = EarliestCooldown(a)
    BY <1>1, <1>4
  <2>2. \A q \in Routed : ~IsAvailable(a, q, t)
    BY <1>4
  <2>3. \A q \in Routed : ~IsAvailable(h, q, t) /\ a[q] = h[q]
    BY <2>2, AdvancedLeaves
  <2>4. \A q \in Routed : a[q].state = "open"
    BY <2>2 DEF IsAvailable
  <2> DEFINE soonest == {p \in Routed : \A q \in Routed : a[p].until <= a[q].until}
             until == [p \in Routed |-> a[p].until]
  <2> HIDE DEF a
  <2>5. {p \in Routed : a[p].state = "open"} = Routed /\ Routed # {}
    BY <2>4, HealthAssumption
  <2>6. r = Nth(soonest, 0)
    BY <2>1, <2>5 DEF EarliestCooldown
  <2>7. \A p \in Routed : until[p] \in Nat
    BY <2>3 DEF HealthEntry
  <2>8. \E p \in Routed : \A q \in Routed : until[p] <= until[q]
    BY <2>5, <2>7, LeastMeasure
  <2>9. soonest # {} /\ soonest \in SUBSET Routed
    BY <2>8
  <2> HIDE DEF soonest
  <2>10. r \in soonest
    BY <2>6, <2>9, FirstOfThem
  <2>11. r \in Routed /\ \A q \in Routed : a[r].until <= a[q].until
    BY <2>10 DEF soonest
  <2> QED BY <2>3, <2>11 DEF r
<1> QED BY <1>2, <1>3, <1>4

---------------------------------------------------------------------------
(* Cooldowns end on the hour of a tick, and the hour that what was tried   *)
(* is given between two of them: the two never end together.               *)
OnTheTick == [state : {"closed", "open", "half_open"}, until : {2 * n : n \in Nat},
              failures : Nat]

HealthTask ==
  [pc : {"idle", "select", "spawning", "running", "ended", "throttled", "returned", "failed"},
   asked : Providers \cup {None}, health : [Providers -> OnTheTick],
   rr : Nat, tried : SUBSET Providers, prov : Providers \cup {None}]

HealthInv ==
  /\ disk \in [Providers -> OnTheTick]
  /\ active \in [Providers -> Nat] /\ leaked \in [Providers -> Nat]
  /\ limits \in [Providers -> Nat] /\ clock \in Nat /\ restarts \in Nat
  /\ task \in [Tasks -> HealthTask]

LEMMA TickEntry == OnTheTick \subseteq HealthEntry
BY DEF OnTheTick, HealthEntry

LEMMA HealthInvTypes == HealthInv => HealthTypeOK
<1>1. HealthTask \subseteq
        [pc : {"idle", "select", "spawning", "running", "ended", "throttled", "returned",
               "failed"},
         asked : Providers \cup {None}, health : [Providers -> HealthEntry],
         rr : Nat, tried : SUBSET Providers, prov : Providers \cup {None}]
  BY TickEntry DEF HealthTask
<1> QED BY <1>1, TickEntry DEF HealthInv, HealthTypeOK

(* The choice of an activity is a provider, and a fresh one unless all     *)
(* fresh ones cool down for longer than what was tried.                    *)
LEMMA ChoiceIsFresh ==
  ASSUME HealthInv, NEW w \in HealthTask
  PROVE  /\ Choice(w) \in Providers
         /\ w.tried # {} =>
              \/ Choice(w) \notin w.tried
              \/ \A p \in Routed \ w.tried :
                   w.health[p].state = "open" /\ w.health[p].until > Later + 2
<1>1. /\ active \in [Providers -> Nat] /\ Later \in Nat /\ Later + 2 \in Nat
      /\ \A n \in Nat : 2 * n # Later + 2
  BY DEF HealthInv, Later, Now
<1>2. /\ w.health \in [Providers -> OnTheTick] /\ w.rr \in Nat
      /\ w.asked # None => w.asked \in Providers
  BY DEF HealthTask
<1>3. Routed \subseteq Providers
  BY DEF Providers
<1>4. CASE w.tried = {}
  <2>1. Routing(w.health, w.rr, Later) \in Routed
    BY <1>1, <1>2, <1>3, TickEntry, RoutingChooses
  <2> QED BY <1>2, <1>3, <1>4, <2>1 DEF Choice
<1>5. CASE w.tried # {}
  <2> DEFINE m == [p \in Routed |->
                     IF p \in w.tried THEN [state |-> "open", until |-> Later + 2, failures |-> 0]
                     ELSE w.health[p]]
             r == Routing(m, 0, Later)
  <2>1. Choice(w) = r
    BY <1>5 DEF Choice
  <2>2. \A p \in Routed : m[p] \in HealthEntry
    <3> TAKE p \in Routed
    <3>1. w.health[p] \in HealthEntry
      BY <1>2, <1>3, TickEntry
    <3>2. [state |-> "open", until |-> Later + 2, failures |-> 0] \in HealthEntry
      BY <1>1 DEF HealthEntry
    <3> QED BY <3>1, <3>2
  <2>3. DOMAIN m = Routed
    OBVIOUS
  <2>4. \A p \in Routed \cap w.tried : ~IsAvailable(m, p, Later) /\ m[p].until = Later + 2
    BY <1>1 DEF IsAvailable
  <2>5. \A p \in Routed \ w.tried : m[p] = w.health[p] /\ m[p].until \in {2 * n : n \in Nat}
    BY <1>2, <1>3 DEF OnTheTick
  <2> HIDE DEF m
  <2>6. /\ r \in Routed
        /\ \/ IsAvailable(m, r, Later)
           \/ \A q \in Routed : ~IsAvailable(m, q, Later) /\ m[r].until <= m[q].until
    BY <1>1, <2>2, <2>3, RoutingChooses
  <2> HIDE DEF r
  <2>7. ASSUME r \in w.tried, NEW p \in Routed \ w.tried
        PROVE  w.health[p].state = "open" /\ w.health[p].until > Later + 2
    <3>1. ~IsAvailable(m, p, Later) /\ Later + 2 <= m[p].until
      BY <2>4, <2>6, <2>7
    <3>2. m[p] = w.health[p] /\ m[p].until # Later + 2 /\ m[p].until \in Nat
      BY <1>1, <2>5
    <3> QED BY <1>1, <3>1, <3>2 DEF IsAvailable
  <2> QED BY <1>3, <2>1, <2>6, <2>7
<1> QED BY <1>4, <1>5

LEMMA ClosedOnTick == Closed \in OnTheTick
BY DEF Closed, OnTheTick

LEMMA IdleIsTask == Idle \in HealthTask
BY ClosedOnTick DEF Idle, HealthTask

LEMMA HealthInvInit == HealthInit => HealthInv
BY ClosedOnTick, IdleIsTask DEF HealthInit, HealthInv

(* The entry a result leaves in the file.                                  *)
LEMMA UpdatedOnTick ==
  ASSUME NEW h \in [Providers -> OnTheTick], NEW p, NEW rc \in {0, 1, 42}, NEW n \in Nat
  PROVE  Updated(h, p, rc, 2 * n) \in [Providers -> OnTheTick]
<1>1. CASE rc = 42
  <2> DEFINE e == [state |-> "open", until |-> 2 * n, failures |-> h[p].failures + 1]
  <2>1. p \in Providers => e \in OnTheTick
    BY DEF OnTheTick
  <2> HIDE DEF e
  <2>2. [h EXCEPT ![p] = e] \in [Providers -> OnTheTick]
    BY <2>1
  <2> QED BY <1>1, <2>2 DEF Updated, e
<1>2. CASE rc = 0
  <2>1. [h EXCEPT ![p] = Closed] \in [Providers -> OnTheTick]
    BY ClosedOnTick
  <2> QED BY <1>2, <2>1 DEF Updated
<1>3. CASE rc = 1
  BY <1>3 DEF Updated
<1> QED BY <1>1, <1>2, <1>3

(* One activity moves and stays a task.                                    *)
LEMMA TaskMoves ==
  ASSUME HealthInv, NEW t \in Tasks, NEW w \in HealthTask, task' = [task EXCEPT ![t] = w]
  PROVE  task' \in [Tasks -> HealthTask]
BY DEF HealthInv

LEMMA HealthLoopStep ==
  ASSUME HealthInv, NEW t \in Tasks, Loop(t) \/ Trouble(t)
  PROVE  HealthInv'
<1> DEFINE w == task[t]
<1>1. w \in HealthTask /\ task \in [Tasks -> HealthTask]
  BY DEF HealthInv
<1>2. CASE Begin(t)
  <2> DEFINE fails(a) == [Idle EXCEPT !.pc = "failed", !.asked = a]
             starts(a) == [Idle EXCEPT !.pc = "select", !.asked = a, !.health = disk,
                                       !.rr = IF a = None THEN 1 ELSE 0]
  <2>1. PICK a \in Providers \cup {None} :
          task' = [task EXCEPT ![t] = IF a \in Retired THEN fails(a) ELSE starts(a)]
    BY <1>2 DEF Begin
  <2>2. fails(a) \in HealthTask
    BY IdleIsTask DEF HealthTask
  <2>3. starts(a) \in HealthTask
    BY IdleIsTask DEF HealthTask, HealthInv
  <2> HIDE DEF fails, starts
  <2>4. task' \in [Tasks -> HealthTask]
    BY <2>1, <2>2, <2>3, TaskMoves
  <2> QED BY <1>2, <2>4 DEF Begin, HealthInv
<1>3. CASE Select(t)
  <2> DEFINE p == Choice(w)
             next == [w EXCEPT !.pc = "spawning", !.prov = p, !.tried = @ \cup {p}]
  <2>1. p \in Providers
    BY <1>1, ChoiceIsFresh
  <2>2. /\ task' = [task EXCEPT ![t].pc = "spawning", ![t].prov = p, ![t].tried = @ \cup {p}]
        /\ active' = [active EXCEPT ![p] = @ + 1]
    BY <1>3 DEF Select
  <2> HIDE DEF p
  <2>3. next \in HealthTask
    BY <1>1, <2>1 DEF HealthTask
  <2>4. task' = [task EXCEPT ![t] = next]
    BY <1>1, <2>2 DEF HealthTask
  <2> HIDE DEF next
  <2>5. task' \in [Tasks -> HealthTask]
    BY <2>3, <2>4, TaskMoves
  <2>6. active' \in [Providers -> Nat]
    <3>1. active \in [Providers -> Nat] /\ active[p] + 1 \in Nat
      BY <2>1 DEF HealthInv
    <3> QED BY <2>2, <3>1
  <2> QED BY <1>3, <2>5, <2>6 DEF Select, HealthInv
<1>4. CASE Spawned(t) \/ Retry(t)
  <2>1. \A pc \in {"running", "returned", "select"} : [w EXCEPT !.pc = pc] \in HealthTask
    BY <1>1 DEF HealthTask
  <2>2. \E pc \in {"running", "returned", "select"} :
          task' = [task EXCEPT ![t] = [w EXCEPT !.pc = pc]]
    BY <1>1, <1>4 DEF Spawned, Retry, HealthTask
  <2>3. task' \in [Tasks -> HealthTask]
    BY <2>1, <2>2, TaskMoves
  <2> QED BY <1>4, <2>3 DEF Spawned, Retry, HealthInv
<1>5. CASE SpawnFails(t) \/ HarnessEnds(t) \/ StallKillUnverified(t)
  <2>1. \A pc \in {"failed", "ended", "returned"} : [w EXCEPT !.pc = pc] \in HealthTask
    BY <1>1 DEF HealthTask
  <2>2. \E pc \in {"failed", "ended", "returned"} :
          task' = [task EXCEPT ![t] = [w EXCEPT !.pc = pc]]
    BY <1>1, <1>5 DEF SpawnFails, HarnessEnds, StallKillUnverified, HealthTask
  <2>3. task' \in [Tasks -> HealthTask]
    BY <2>1, <2>2, TaskMoves
  <2>4. Released(w.prov) \in [Providers -> Nat]
    <3> DEFINE q == w.prov
    <3>1. active \in [Providers -> Nat]
      BY DEF HealthInv
    <3>2. Released(q) = [active EXCEPT ![q] = IF active[q] > 0 THEN active[q] - 1 ELSE 0]
      BY DEF Released
    <3> HIDE DEF q
    <3>3. CASE q \in Providers
      <4> DEFINE c == IF active[q] > 0 THEN active[q] - 1 ELSE 0
      <4>1. c \in Nat
        BY <3>1, <3>3
      <4> HIDE DEF c
      <4>2. [active EXCEPT ![q] = c] \in [Providers -> Nat]
        BY <3>1, <4>1
      <4> QED BY <3>2, <4>2 DEF c, q
    <3>4. CASE q \notin Providers
      <4>1. Released(q) = active
        BY <3>1, <3>2, <3>4
      <4> QED BY <3>1, <4>1 DEF q
    <3> QED BY <3>3, <3>4
  <2>5. active' \in [Providers -> Nat] /\ leaked' \in [Providers -> Nat]
    BY <1>5, <2>4 DEF SpawnFails, HarnessEnds, StallKillUnverified, HealthInv
  <2> QED BY <1>5, <2>3, <2>5 DEF SpawnFails, HarnessEnds, StallKillUnverified, HealthInv
<1>6. CASE Persist(t)
  <2>1. PICK rc \in {0, 1, 42}, n \in Windows :
          LET p == w.prov
              merged == Updated(disk, p, rc, Now + 2 * n)
          IN /\ disk' = merged
             /\ limits' = [limits EXCEPT ![p] = IF rc = 42 THEN @ + 1
                                                ELSE IF rc = 0 THEN 0 ELSE @]
             /\ task' = [task EXCEPT ![t].health = merged, ![t].rr = 0,
                                     ![t].pc = IF rc = 42 THEN "throttled" ELSE "returned"]
    BY <1>6 DEF Persist
  <2> DEFINE merged == Updated(disk, w.prov, rc, Now + 2 * n)
             next == [w EXCEPT !.health = merged, !.rr = 0,
                               !.pc = IF rc = 42 THEN "throttled" ELSE "returned"]
  <2>2. Now + 2 * n = 2 * (clock + n) /\ clock + n \in Nat
    BY HealthAssumption DEF Now, HealthInv
  <2>3. merged \in [Providers -> OnTheTick]
    BY <2>2, UpdatedOnTick DEF HealthInv
  <2>4. disk' = merged
    BY <2>1
  <2>5. limits' \in [Providers -> Nat]
    <3> DEFINE p == w.prov
               c == IF rc = 42 THEN limits[p] + 1 ELSE IF rc = 0 THEN 0 ELSE limits[p]
    <3>1. limits \in [Providers -> Nat] /\ limits' = [limits EXCEPT ![p] = c]
      BY <2>1 DEF HealthInv
    <3>2. p \in Providers => c \in Nat
      BY <3>1
    <3> HIDE DEF c, p
    <3> QED BY <3>1, <3>2
  <2>6. task' = [task EXCEPT ![t].health = merged, ![t].rr = 0,
                             ![t].pc = IF rc = 42 THEN "throttled" ELSE "returned"]
    BY <2>1
  <2> HIDE DEF merged
  <2>7. next \in HealthTask
    BY <1>1, <2>3 DEF HealthTask
  <2>8. task' = [task EXCEPT ![t] = next]
    BY <1>1, <2>6 DEF HealthTask
  <2> HIDE DEF next
  <2>9. task' \in [Tasks -> HealthTask]
    BY <2>7, <2>8, TaskMoves
  <2> QED BY <1>6, <2>3, <2>4, <2>5, <2>9 DEF Persist, HealthInv
<1> QED BY <1>2, <1>3, <1>4, <1>5, <1>6 DEF Loop, Trouble

LEMMA HealthInvStep == HealthInv /\ [HealthNext]_healthVars => HealthInv'
<1> SUFFICES ASSUME HealthInv, [HealthNext]_healthVars PROVE HealthInv'
  OBVIOUS
<1>1. CASE \E t \in Tasks : Loop(t) \/ Trouble(t)
  BY <1>1, HealthLoopStep
<1>2. CASE Restart
  BY <1>2, IdleIsTask DEF Restart, HealthInv
<1>3. CASE AnHourPasses
  BY <1>3 DEF AnHourPasses, HealthInv
<1>4. CASE UNCHANGED healthVars
  BY <1>4 DEF healthVars, HealthInv
<1> QED BY <1>1, <1>2, <1>3, <1>4 DEF HealthNext

(* Whatever the activities, the file and the clock do, the routing's state *)
(* is what the code reads it as; in particular the loop always chooses one *)
(* of the providers (provider.py:165-207, translocase.py).                 *)
THEOREM RoutingTypes == HealthSpec => []HealthTypeOK
BY HealthInvInit, HealthInvStep, HealthInvTypes, PTL DEF HealthSpec

(* Only Select spawns, and what it spawns is what Choice says.             *)
LEMMA SelectsFresh ==
  ASSUME HealthInv, [HealthNext]_healthVars, NEW t \in Tasks,
         task[t].pc = "select", task'[t].pc = "spawning", task[t].tried # {}
  PROVE  \/ task'[t].prov \notin task[t].tried
         \/ \A p \in Routed \ task[t].tried :
              task[t].health[p].state = "open" /\ task[t].health[p].until > Later + 2
<1>1. task[t] \in HealthTask /\ task \in [Tasks -> HealthTask]
  BY DEF HealthInv
<1>2. task[t].pc # task'[t].pc
  OBVIOUS
<1>3. Select(t)
  <2>1. ~ UNCHANGED task
    BY <1>2
  <2>2. ~ Restart
    BY <1>1 DEF Restart, Idle
  <2>3. PICK u \in Tasks : Loop(u) \/ Trouble(u)
    BY <2>1, <2>2 DEF HealthNext, healthVars, AnHourPasses
  <2>4. CASE u # t
    BY <1>1, <1>2, <2>3, <2>4
       DEF Loop, Trouble, Begin, Select, Spawned, HarnessEnds, Persist, Retry, SpawnFails,
           StallKillUnverified
  <2>5. CASE u = t
    BY <2>3, <2>5
       DEF Loop, Trouble, Begin, Spawned, HarnessEnds, Persist, Retry, SpawnFails,
           StallKillUnverified
  <2> QED BY <2>4, <2>5
<1>4. task'[t].prov = Choice(task[t])
  BY <1>1, <1>3 DEF Select, HealthTask
<1> QED BY <1>1, <1>4, ChoiceIsFresh

(* A fallback goes to a provider this activity has not tried, unless every *)
(* other one is known to cool down for longer than the hour the tried ones *)
(* are given (translocase.py, _select_attempt_provider).                   *)
THEOREM FallbackGoesOn == HealthSpec => FallbackIsFresh
<1>1. HealthInv /\ [HealthNext]_healthVars =>
        [\A t \in Tasks :
           task[t].pc = "select" /\ task'[t].pc = "spawning" /\ task[t].tried # {} =>
             \/ task'[t].prov \notin task[t].tried
             \/ \A p \in Routed \ task[t].tried :
                  task[t].health[p].state = "open" /\ task[t].health[p].until > Later + 2]_healthVars
  BY SelectsFresh
<1> QED BY <1>1, HealthInvInit, HealthInvStep, PTL DEF HealthSpec, FallbackIsFresh

---------------------------------------------------------------------------
(* The reaper. *)

(* Start times only grow; the marker is inherited by the task's own, and a *)
(* parent that lives is of the task just when its child is.                *)
Lineage ==
  /\ looked <= births
  /\ \A p \in Living :
       /\ table[p].born <= births
       /\ table[p].marked => table[p].mine
       /\ table[p].born = 0 => p = Leader /\ table[p].mine
       /\ table[p].parent # 0 =>
            /\ table[p].parent \in Living
            /\ table[table[p].parent].mine = table[p].mine

Recorded == reaper.tracked \cup reaper.owned \cup reaper.conflict

(* What the reaper has on record was born before now, and what it is to    *)
(* signal is of the task, unless the wrapper's number was given away.      *)
RecordsOld == \A id \in Recorded : id[2] <= births
RecordsMine ==
  ~replaced => \A id \in reaper.tracked \cup reaper.owned : Alive(id) => table[id[1]].mine

(* Those of the processes the last look could see that must be on record.  *)
Visible == {p \in Living : table[p].born <= looked}

AllSeen ==
  /\ reaper.pc = "check" =>
       /\ reaper.tracked \subseteq reaper.owned
       /\ \A p \in Visible : /\ table[p].marked => Id(p) \in reaper.owned
                             /\ table[p].inside => Id(p) \in reaper.conflict
  /\ reaper.pc = "killed" =>
       /\ \A id \in reaper.tracked : Alive(id) => id \in reaper.owned
       /\ \A p \in Visible : /\ table[p].marked => Id(p) \in reaper.owned
                             /\ table[p].inside => Id(p) \in reaper.owned \cup reaper.conflict
  /\ reaper.pc \in {"group", "stopped"} =>
       /\ \A id \in reaper.tracked : ~Alive(id)
       /\ \A p \in Visible : ~table[p].marked /\ ~table[p].inside

ReapInv ==
  ReapTypeOK /\ Lineage /\ RecordsOld /\ RecordsMine /\ AllSeen /\ (struck => replaced)

LEMMA ReapShapes ==
  /\ ~Free.live /\ ~Free.mine /\ ~Free.marked /\ ~Free.inside
  /\ Free.born = 0 /\ Free.parent = 0 /\ Free.group = Leader /\ Free.dying = FALSE
  /\ Free \in Process /\ Wrapper \in Process
<1>1. 0 \in 0 .. MaxBirths /\ Leader \in Pids
  BY ReapAssumption
<1>2. Wrapper \in Process
  BY <1>1 DEF Wrapper, Process
<1>3. Free \in Process
  BY <1>2 DEF Free, Process
<1>4. ~Free.live /\ ~Free.mine /\ ~Free.marked /\ ~Free.inside
  BY <1>2 DEF Free, Process
<1>5. Free.born = 0 /\ Free.parent = 0 /\ Free.group = Leader /\ Free.dying = FALSE
  BY DEF Free, Wrapper
<1> QED BY <1>2, <1>3, <1>4, <1>5

(* The records of the processes and of the reaper keep their shape.        *)
LEMMA BornShape ==
  ASSUME ReapTypeOK, NEW q \in Pids, NEW new \in Process, Born(q, new)
  PROVE  ReapTypeOK'
<1>1. births + 1 \in 0 .. MaxBirths
  BY ReapAssumption DEF ReapTypeOK, Born
<1>2. [new EXCEPT !.born = births + 1] \in Process
  BY <1>1 DEF Process
<1>3. table' \in [Pids -> Process]
  BY <1>2 DEF ReapTypeOK, Born
<1> QED BY <1>1, <1>3 DEF ReapTypeOK, Born

LEMMA ForkShape ==
  ASSUME ReapTypeOK, NEW p \in Pids, NEW q \in Pids, NEW group \in {table[p].group, 0},
         NEW inside \in BOOLEAN, NEW marked \in BOOLEAN
  PROVE  [table[p] EXCEPT !.parent = p, !.group = IF group = 0 THEN q ELSE group,
                          !.inside = inside, !.marked = marked] \in Process
<1>1. table[p] \in Process
  BY DEF ReapTypeOK
<1>2. (IF group = 0 THEN q ELSE group) \in Pids
  BY <1>1 DEF Process
<1> QED BY <1>1, <1>2 DEF Process

LEMMA StrangerShape ==
  ASSUME NEW q \in Pids, NEW inside \in BOOLEAN
  PROVE  [Free EXCEPT !.live = TRUE, !.group = q, !.inside = inside] \in Process
BY ReapShapes DEF Process

(* A process that was there before a step and is there after it is as it   *)
(* was, in all that the reaper looks at.                                   *)
Endures ==
  \A p \in Pids : table'[p].live /\ table'[p].born <= births =>
    /\ table[p].live /\ table'[p].born = table[p].born /\ table'[p].mine = table[p].mine
    /\ table'[p].marked = table[p].marked /\ table'[p].inside = table[p].inside

(* What is on record and alive after such a step was alive before.         *)
LEMMA RecordsEndure ==
  ASSUME ReapTypeOK, RecordsOld, Endures, NEW id \in Recorded, Alive(id)'
  PROVE  Alive(id) /\ table'[id[1]].mine = table[id[1]].mine
<1>1. id \in Identities
  BY DEF ReapTypeOK, Recorded
<1>2. id[1] \in Pids /\ id[2] <= births
  BY <1>1 DEF Identities, RecordsOld
<1>3. table'[id[1]].live /\ table'[id[1]].born = id[2]
  BY DEF Alive
<1> QED BY <1>2, <1>3 DEF Endures, Alive

LEMMA VisibleEndure ==
  ASSUME Lineage, ReapTypeOK, ReapTypeOK', Endures, UNCHANGED looked, NEW p \in Visible'
  PROVE  /\ p \in Visible /\ Id(p)' = Id(p)
         /\ table'[p].marked = table[p].marked /\ table'[p].inside = table[p].inside
<1>1. p \in Pids /\ table'[p].live /\ table'[p].born <= looked
  BY DEF Visible, Living
<1>2. looked <= births /\ looked \in Nat /\ births \in Nat
  BY ReapAssumption DEF Lineage, ReapTypeOK
<1>3. table'[p].born <= births
  <2>1. table'[p].born \in 0 .. MaxBirths
    BY <1>1 DEF ReapTypeOK, Process
  <2> QED BY <1>1, <1>2, <2>1, ReapAssumption
<1>4. /\ table[p].live /\ table'[p].born = table[p].born
      /\ table'[p].marked = table[p].marked /\ table'[p].inside = table[p].inside
  BY <1>1, <1>3 DEF Endures
<1> QED BY <1>1, <1>4 DEF Visible, Living, Id

(* The host's steps leave the records as good as they were.                *)
LEMMA HostKeepsRecords ==
  ASSUME ReapInv, ReapTypeOK', Endures, births <= births',
         UNCHANGED <<reaper, looked, struck, replaced>>
  PROVE  RecordsOld' /\ RecordsMine' /\ AllSeen' /\ (struck => replaced)'
<1>1. ReapTypeOK /\ Lineage /\ RecordsOld /\ RecordsMine /\ AllSeen /\ (struck => replaced)
  BY DEF ReapInv
<1>2. \A id \in Recorded : Alive(id)' => Alive(id) /\ table'[id[1]].mine = table[id[1]].mine
  BY <1>1, RecordsEndure
<1>3. RecordsOld'
  <2>1. ASSUME NEW id \in Recorded
        PROVE  id[2] <= births'
    <3>1. id[2] \in Nat /\ id[2] <= births
      BY <1>1, ReapAssumption DEF RecordsOld, Recorded, ReapTypeOK, Identities
    <3>2. births \in Nat /\ births' \in Nat
      BY <1>1, ReapAssumption DEF ReapTypeOK
    <3> QED BY <3>1, <3>2
  <2> QED BY <2>1 DEF RecordsOld, Recorded
<1>4. RecordsMine'
  BY <1>1, <1>2 DEF RecordsMine, Recorded
<1>5. \A p \in Visible' : /\ p \in Visible /\ Id(p)' = Id(p)
                          /\ table'[p].marked = table[p].marked
                          /\ table'[p].inside = table[p].inside
  BY <1>1, VisibleEndure
<1>6. AllSeen'
  <2>1. CASE reaper.pc = "check"
    BY <1>1, <1>5, <2>1 DEF AllSeen
  <2>2. CASE reaper.pc = "killed"
    BY <1>1, <1>2, <1>5, <2>2 DEF AllSeen, Recorded
  <2>3. CASE reaper.pc \in {"group", "stopped"}
    BY <1>1, <1>2, <1>5, <2>3 DEF AllSeen, Recorded
  <2> QED BY <2>1, <2>2, <2>3 DEF AllSeen
<1> QED BY <1>1, <1>3, <1>4, <1>6

LEMMA BornKeeps ==
  ASSUME ReapInv, NEW q \in Unused, NEW new \in Process, Born(q, new),
         new.live, new.marked => new.mine,
         new.parent # 0 => new.parent \in Living /\ table[new.parent].mine = new.mine
  PROVE  ReapInv'
<1>1. ReapTypeOK /\ Lineage /\ q \in Pids /\ q \notin Living
  BY DEF ReapInv, Unused
<1>2. ReapTypeOK'
  BY <1>1, BornShape
<1>3. births' = births + 1 /\ births \in Nat /\ UNCHANGED <<reaper, looked, struck, replaced>>
  BY <1>1, ReapAssumption DEF Born, ReapTypeOK
<1>4. /\ table'[q] = [live |-> TRUE, born |-> births + 1, parent |-> new.parent,
                      group |-> new.group, mine |-> new.mine, marked |-> new.marked,
                      inside |-> new.inside, dying |-> new.dying]
      /\ \A p \in Pids : p # q => table'[p] = table[p]
  <2>1. new = [live |-> TRUE, born |-> new.born, parent |-> new.parent, group |-> new.group,
               mine |-> new.mine, marked |-> new.marked, inside |-> new.inside,
               dying |-> new.dying]
    BY DEF Process
  <2>2. table' = [table EXCEPT ![q] = [new EXCEPT !.born = births + 1]]
    BY DEF Born
  <2> QED BY <1>1, <2>1, <2>2 DEF ReapTypeOK
<1>5. Endures
  BY <1>1, <1>3, <1>4 DEF Endures
<1>6. Lineage'
  <2>1. looked' <= births'
    BY <1>1, <1>3, ReapAssumption DEF Lineage, ReapTypeOK
  <2>2. ASSUME NEW p \in Living', p # q
        PROVE  /\ table'[p].born <= births'
               /\ table'[p].marked => table'[p].mine
               /\ table'[p].born = 0 => p = Leader /\ table'[p].mine
               /\ table'[p].parent # 0 =>
                    /\ table'[p].parent \in Living'
                    /\ table'[table'[p].parent].mine = table'[p].mine
    <3>1. p \in Living /\ table'[p] = table[p]
      BY <1>4, <2>2 DEF Living
    <3>2. table[p].born \in Nat /\ table[p].born <= births
      BY <1>1, <3>1, ReapAssumption DEF Lineage, ReapTypeOK, Process, Living
    <3>3. table[p].parent # 0 => /\ table[p].parent \in Living /\ table[p].parent # q
                                 /\ table[table[p].parent].mine = table[p].mine
      BY <1>1, <3>1 DEF Lineage
    <3>4. table[p].parent # 0 => table'[table[p].parent] = table[table[p].parent]
      BY <1>4, <3>3 DEF Living
    <3> QED BY <1>1, <1>3, <3>1, <3>2, <3>3, <3>4 DEF Lineage, Living
  <2>3. ASSUME q \in Living'
        PROVE  /\ table'[q].born <= births'
               /\ table'[q].marked => table'[q].mine
               /\ table'[q].born = 0 => q = Leader /\ table'[q].mine
               /\ table'[q].parent # 0 =>
                    /\ table'[q].parent \in Living'
                    /\ table'[table'[q].parent].mine = table'[q].mine
    <3>1. new.parent # 0 => new.parent # q /\ table'[new.parent] = table[new.parent]
      BY <1>1, <1>4 DEF Living
    <3> QED BY <1>3, <1>4, <3>1 DEF Living
  <2> QED BY <2>1, <2>2, <2>3 DEF Lineage
<1>7. births <= births'
  BY <1>3
<1> QED BY <1>2, <1>3, <1>5, <1>6, <1>7, HostKeepsRecords DEF ReapInv

LEMMA ExitKeeps ==
  ASSUME ReapInv, NEW p \in Living, Exit(p)
  PROVE  ReapInv'
<1>1. ReapTypeOK /\ Lineage
  BY DEF ReapInv
<1>2. /\ UNCHANGED <<births, reaper, looked, struck, replaced>>
      /\ table' = [q \in Pids |-> IF q = p THEN Free
                                  ELSE IF table[q].parent = p THEN [table[q] EXCEPT !.parent = 0]
                                  ELSE table[q]]
  BY DEF Exit
<1>3. ASSUME NEW q \in Pids, q # p
      PROVE  /\ table'[q] \in Process
             /\ table'[q].live = table[q].live /\ table'[q].born = table[q].born
             /\ table'[q].mine = table[q].mine /\ table'[q].marked = table[q].marked
             /\ table'[q].inside = table[q].inside
             /\ table'[q].parent \in {0, table[q].parent} \ {p}
  <2>1. table[q] \in Process /\ p # 0
    BY <1>1, ReapAssumption DEF ReapTypeOK, Living
  <2>2. CASE table[q].parent = p
    <3>1. table'[q] = [table[q] EXCEPT !.parent = 0]
      BY <1>2, <1>3, <2>2
    <3> QED BY <2>1, <3>1 DEF Process
  <2>3. CASE table[q].parent # p
    BY <1>2, <1>3, <2>1, <2>3
  <2> QED BY <2>2, <2>3
<1>4. p \in Pids /\ table'[p] = Free /\ Free \in Process /\ ~table'[p].live
  BY <1>2, ReapShapes DEF Living
<1>5. ReapTypeOK'
  <2>1. table' \in [Pids -> Process]
    BY <1>2, <1>3, <1>4
  <2> QED BY <1>1, <1>2, <2>1 DEF ReapTypeOK
<1>6. Endures
  BY <1>3, <1>4 DEF Endures
<1>7. Lineage'
  <2>1. ASSUME NEW q \in Living'
        PROVE  /\ table'[q].born <= births'
               /\ table'[q].marked => table'[q].mine
               /\ table'[q].born = 0 => q = Leader /\ table'[q].mine
               /\ table'[q].parent # 0 =>
                    /\ table'[q].parent \in Living'
                    /\ table'[table'[q].parent].mine = table'[q].mine
    <3>1. q \in Pids /\ q # p /\ q \in Living
      BY <1>3, <1>4 DEF Living
    <3>2. table'[q].parent # 0 => /\ table'[q].parent = table[q].parent
                                  /\ table[q].parent \in Pids \ {p}
      BY <1>1, <1>3, <3>1 DEF Lineage, Living
    <3> QED BY <1>1, <1>2, <1>3, <3>1, <3>2 DEF Lineage, Living
  <2> QED BY <1>1, <1>2, <2>1 DEF Lineage
<1>8. births <= births'
  BY <1>1, <1>2, ReapAssumption DEF ReapTypeOK
<1> QED BY <1>2, <1>5, <1>6, <1>7, <1>8, HostKeepsRecords DEF ReapInv

LEMMA HostKeeps ==
  ASSUME ReapInv, Host
  PROVE  ReapInv'
<1>1. ReapTypeOK /\ Lineage
  BY DEF ReapInv
<1>2. CASE Stranger
  <2>1. PICK q \in Unused, inside \in BOOLEAN :
          Born(q, [Free EXCEPT !.live = TRUE, !.group = q, !.inside = inside])
    BY <1>2 DEF Stranger
  <2> DEFINE new == [Free EXCEPT !.live = TRUE, !.group = q, !.inside = inside]
  <2>2. new \in Process
    BY StrangerShape DEF Unused
  <2>3. new.live /\ ~new.marked /\ new.parent = 0
    BY ReapShapes
  <2> QED BY <2>1, <2>2, <2>3, BornKeeps
<1>3. ASSUME NEW p \in Pids, Fork(p)
      PROVE  ReapInv'
  <2>1. p \in Living /\ table[p] \in Process
    BY <1>1, <1>3 DEF Fork, ReapTypeOK
  <2>2. PICK q \in Unused, group \in {table[p].group, 0}, inside \in {table[p].inside, FALSE},
             marked \in {table[p].marked, FALSE} :
          Born(q, [table[p] EXCEPT !.parent = p, !.group = IF group = 0 THEN q ELSE group,
                                   !.inside = inside, !.marked = marked])
    BY <1>3 DEF Fork
  <2>3. inside \in BOOLEAN /\ marked \in BOOLEAN /\ q \in Pids
    BY <2>1, <2>2 DEF Process, Unused
  <2> DEFINE new == [table[p] EXCEPT !.parent = p, !.group = IF group = 0 THEN q ELSE group,
                                     !.inside = inside, !.marked = marked]
  <2>4. new \in Process
    BY <1>1, <2>2, <2>3, ForkShape
  <2>5. /\ new.live = table[p].live /\ new.mine = table[p].mine
        /\ new.marked = marked /\ new.parent = p
    BY <2>1 DEF Process
  <2>6. new.live /\ (new.marked => new.mine)
    BY <1>1, <2>1, <2>2, <2>5 DEF Lineage, Living
  <2> HIDE DEF new
  <2>7. Born(q, new)
    BY <2>2 DEF new
  <2> QED BY <2>1, <2>2, <2>4, <2>5, <2>6, <2>7, BornKeeps
<1> QED BY <1>2, <1>3, ExitKeeps DEF Host, Exit

---------------------------------------------------------------------------
(* What the reaper finds below the wrapper is of the task: the task's own  *)
(* processes contain the children of their members.                        *)
LEMMA DescendantsMine ==
  ASSUME ReapTypeOK, Lineage, ~(table[Leader].live /\ table[Leader].born # 0)
  PROVE  \A p \in Descendants : p \in Living /\ table[p].mine
<1> DEFINE family == {Leader} \cup {p \in Living : table[p].mine}
<1>1. family \in SUBSET Pids /\ Leader \in family
  BY ReapAssumption DEF Living
<1>2. ASSUME NEW q \in Living, table[q].parent \in family
      PROVE  q \in family
  <2>1. table[q].parent # 0
    BY <1>1, <1>2, ReapAssumption
  <2>2. table[q].parent \in Living /\ table[table[q].parent].mine = table[q].mine
    BY <2>1 DEF Lineage
  <2>3. table[table[q].parent].mine
    BY <1>2, <2>2 DEF Lineage, Living
  <2> QED BY <2>2, <2>3
<1>3. ASSUME NEW p \in Descendants
      PROVE  p \in Living /\ table[p].mine
  <2>1. p \in Living \ {Leader} /\ p \in family
    BY <1>1, <1>2, <1>3 DEF Descendants
  <2> QED BY <2>1
<1> QED BY <1>3

(* The steps of the reaper that look, and those that only move on.         *)
LEMMA LooksKeep ==
  ASSUME ReapInv, SnapshotTree \/ SnapshotLeader
  PROVE  ReapInv'
<1>1. /\ ReapTypeOK /\ Lineage /\ RecordsOld /\ RecordsMine /\ (struck => replaced)
      /\ UNCHANGED <<table, births, looked, struck>>
      /\ replaced' = (replaced \/ (table[Leader].live /\ table[Leader].born # 0))
  BY DEF ReapInv, SnapshotTree, SnapshotLeader, Replaced
<1>2. PICK found \in SUBSET Living, pc \in {"leader", "term", "scan"}, old \in {{}, reaper.tracked} :
        /\ reaper' = [reaper EXCEPT !.pc = pc, !.tracked = old \cup {Id(p) : p \in found}]
        /\ ~replaced' => \A p \in found : table[p].mine
  <2>1. CASE SnapshotTree
    <3>1. PICK found \in {{}, Descendants} :
            reaper' = [reaper EXCEPT !.pc = "leader", !.tracked = {Id(p) : p \in found}]
      BY <2>1 DEF SnapshotTree
    <3>2. found \in SUBSET Living
      BY <3>1 DEF Descendants
    <3>3. ~replaced' => \A p \in found : table[p].mine
      BY <1>1, <3>1, DescendantsMine
    <3>4. {Id(p) : p \in found} = {} \cup {Id(p) : p \in found}
      OBVIOUS
    <3> QED BY <3>1, <3>2, <3>3, <3>4
  <2>2. CASE SnapshotLeader
    <3>1. reaper' = [reaper EXCEPT !.pc = IF Unexited THEN "term" ELSE "scan",
                       !.tracked = reaper.tracked \cup {Id(p) : p \in Living \cap {Leader}}]
      BY <1>1, <2>2 DEF SnapshotLeader, ReapTypeOK
    <3>2. ~replaced' => \A p \in Living \cap {Leader} : table[p].mine
      BY <1>1 DEF Lineage, Living
    <3> QED BY <3>1, <3>2
  <2> QED BY <2>1, <2>2
<1>3. \A p \in found : Id(p) \in Identities /\ Id(p)[1] = p /\ Id(p)[2] = table[p].born
  BY <1>1 DEF ReapTypeOK, Process, Identities, Id, Living
<1>4. /\ reaper'.pc = pc /\ reaper'.tracked = old \cup {Id(p) : p \in found}
      /\ reaper'.owned = reaper.owned /\ reaper'.conflict = reaper.conflict
  BY <1>1, <1>2 DEF ReapTypeOK
<1>5. ReapTypeOK'
  <2>1. old \cup {Id(p) : p \in found} \in SUBSET Identities
    BY <1>1, <1>2, <1>3 DEF ReapTypeOK
  <2>2. replaced' \in BOOLEAN
    BY <1>1 DEF ReapTypeOK
  <2> QED BY <1>1, <1>2, <2>1, <2>2 DEF ReapTypeOK
<1>6. Lineage'
  BY <1>1 DEF Lineage, Living
<1>7. RecordsOld'
  <2>1. \A p \in found : Id(p)[2] <= births
    BY <1>1, <1>3 DEF Lineage
  <2> QED BY <1>1, <1>2, <1>4, <2>1 DEF RecordsOld, Recorded
<1>8. RecordsMine'
  <2> SUFFICES ASSUME ~replaced', NEW id \in reaper'.tracked \cup reaper'.owned, Alive(id)
               PROVE  table[id[1]].mine
    BY <1>1 DEF RecordsMine, Alive
  <2>1. CASE id \in {Id(p) : p \in found}
    BY <1>2, <1>3, <2>1
  <2>2. CASE id \in reaper.tracked \cup reaper.owned
    BY <1>1, <2>2 DEF RecordsMine
  <2> QED BY <1>2, <1>4, <2>1, <2>2
<1>9. AllSeen'
  BY <1>2, <1>4 DEF AllSeen
<1> QED BY <1>1, <1>5, <1>6, <1>7, <1>8, <1>9 DEF ReapInv

LEMMA ScanKeeps ==
  ASSUME ReapInv, Scan
  PROVE  ReapInv'
<1>1. /\ ReapTypeOK /\ Lineage /\ RecordsOld /\ RecordsMine /\ (struck => replaced)
      /\ UNCHANGED <<table, births, struck, replaced>> /\ looked' = births
  BY DEF ReapInv, Scan
<1> DEFINE marked == {Id(p) : p \in {q \in Living : table[q].marked}}
<1> DEFINE inside == {Id(p) : p \in {q \in Living : table[q].inside}}
<1>2. reaper' = [reaper EXCEPT !.pc = "check", !.owned = reaper.tracked \cup marked,
                               !.conflict = inside]
  BY <1>1 DEF Scan, ReapTypeOK
<1>3. /\ reaper'.pc = "check" /\ reaper'.tracked = reaper.tracked
      /\ reaper'.owned = reaper.tracked \cup marked /\ reaper'.conflict = inside
  BY <1>1, <1>2 DEF ReapTypeOK
<1>4. \A p \in Living : Id(p) \in Identities /\ Id(p)[1] = p /\ Id(p)[2] = table[p].born
  BY <1>1 DEF ReapTypeOK, Process, Identities, Id, Living
<1>5. ReapTypeOK'
  <2>1. marked \in SUBSET Identities /\ inside \in SUBSET Identities
    BY <1>4
  <2> HIDE DEF marked, inside
  <2>2. reaper.tracked \cup marked \in SUBSET Identities
    BY <1>1, <2>1 DEF ReapTypeOK
  <2> QED BY <1>1, <1>2, <2>1, <2>2 DEF ReapTypeOK
<1>6. Lineage'
  BY <1>1, ReapAssumption DEF Lineage, Living, ReapTypeOK
<1>7. RecordsOld'
  <2>1. \A p \in Living : Id(p)[2] <= births
    BY <1>1, <1>4 DEF Lineage
  <2> QED BY <1>1, <1>3, <2>1 DEF RecordsOld, Recorded
<1>8. RecordsMine'
  <2> SUFFICES ASSUME ~replaced, NEW id \in reaper.tracked \cup marked, Alive(id)
               PROVE  table[id[1]].mine
    BY <1>1, <1>3 DEF RecordsMine, Alive
  <2>1. CASE id \in marked
    BY <1>1, <1>4, <2>1 DEF Lineage
  <2>2. CASE id \in reaper.tracked
    BY <1>1, <2>2 DEF RecordsMine
  <2> QED BY <2>1, <2>2
<1>9. AllSeen'
  <2>1. \A p \in Living : /\ table[p].marked => Id(p) \in marked
                          /\ table[p].inside => Id(p) \in inside
    OBVIOUS
  <2>2. Visible' \subseteq Living /\ \A p : Id(p)' = Id(p)
    BY <1>1 DEF Visible, Living, Id
  <2> HIDE DEF marked, inside
  <2> QED BY <1>1, <1>3, <2>1, <2>2 DEF AllSeen
<1> QED BY <1>1, <1>5, <1>6, <1>7, <1>8, <1>9 DEF ReapInv

LEMMA CheckKeeps ==
  ASSUME ReapInv, Check
  PROVE  ReapInv'
<1>1. /\ ReapTypeOK /\ Lineage /\ RecordsOld /\ RecordsMine /\ AllSeen /\ (struck => replaced)
      /\ UNCHANGED <<births, looked, replaced>> /\ reaper.pc = "check"
  BY DEF ReapInv, Check
<1> DEFINE owned == {id \in reaper.owned : Alive(id)}
<1> DEFINE conflict == {id \in reaper.conflict : Alive(id) /\ id \notin owned}
<1> DEFINE next == IF owned # {} THEN "killed" ELSE IF conflict = {} THEN "group" ELSE "raised"
<1>2. /\ Killed(owned)
      /\ reaper' = [reaper EXCEPT !.owned = owned, !.conflict = conflict, !.pc = next]
  BY DEF Check
<1>3. /\ reaper'.pc = next /\ reaper'.tracked = reaper.tracked
      /\ reaper'.owned = owned /\ reaper'.conflict = conflict
  BY <1>1, <1>2 DEF ReapTypeOK
<1>4. ASSUME NEW p \in Pids
      PROVE  /\ table'[p] \in Process
             /\ table'[p].live = table[p].live /\ table'[p].born = table[p].born
             /\ table'[p].mine = table[p].mine /\ table'[p].marked = table[p].marked
             /\ table'[p].inside = table[p].inside /\ table'[p].parent = table[p].parent
  <2>1. table[p] \in Process
    BY <1>1 DEF ReapTypeOK
  <2>2. table'[p] \in {table[p], [table[p] EXCEPT !.dying = TRUE]}
    BY <1>2 DEF Killed
  <2> QED BY <2>1, <2>2 DEF Process
<1>5. owned \subseteq reaper.owned /\ conflict \subseteq reaper.conflict
  OBVIOUS
<1>6. struck' => replaced'
  <2>1. struck' = (struck \/ \E id \in owned : ~table[id[1]].mine)
    BY <1>2 DEF Killed, Signalled
  <2> QED BY <1>1, <2>1 DEF RecordsMine
<1>7. Endures
  BY <1>4 DEF Endures
<1>8. ReapTypeOK'
  <2>1. table' \in [Pids -> Process]
    BY <1>2, <1>4 DEF Killed
  <2>2. owned \in SUBSET Identities /\ conflict \in SUBSET Identities
    BY <1>1, <1>5 DEF ReapTypeOK
  <2>3. struck' \in BOOLEAN
    BY <1>2 DEF Killed, Signalled
  <2> HIDE DEF owned, conflict
  <2> QED BY <1>1, <1>2, <2>1, <2>2, <2>3 DEF ReapTypeOK
<1>9. Lineage'
  BY <1>1, <1>4, ReapAssumption DEF Lineage, Living, ReapTypeOK, Process
<1>10. RecordsOld'
  BY <1>1, <1>3, <1>5 DEF RecordsOld, Recorded
<1>11. RecordsMine'
  <2>1. \A id \in reaper.tracked \cup reaper.owned :
          Alive(id)' => Alive(id) /\ table'[id[1]].mine = table[id[1]].mine
    BY <1>1, <1>7, RecordsEndure DEF Recorded
  <2> QED BY <1>1, <1>3, <1>5, <2>1 DEF RecordsMine
<1>12. AllSeen'
  <2>1. \A p \in Visible' : /\ p \in Visible /\ Id(p)' = Id(p) /\ Alive(Id(p))
                            /\ table'[p].marked = table[p].marked
                            /\ table'[p].inside = table[p].inside
    BY <1>1, <1>7, <1>8, VisibleEndure DEF Visible, Living, Alive, Id
  <2>2. \A p \in Visible' : /\ table[p].marked => Id(p) \in owned
                            /\ table[p].inside => Id(p) \in owned \cup conflict
    BY <1>1, <2>1 DEF AllSeen
  <2>3. \A id \in reaper.tracked : Alive(id)' => id \in owned
    BY <1>1, <1>7, RecordsEndure DEF AllSeen, Recorded
  <2>4. next = "group" => owned = {} /\ conflict = {}
    OBVIOUS
  <2>5. next \in {"killed", "group", "raised"}
    OBVIOUS
  <2> HIDE DEF owned, conflict, next
  <2>6. CASE next = "killed"
    BY <1>3, <2>1, <2>2, <2>3, <2>6 DEF AllSeen
  <2>7. CASE next = "group"
    BY <1>3, <2>1, <2>2, <2>3, <2>4, <2>7 DEF AllSeen
  <2>8. CASE next = "raised"
    BY <1>3, <2>8 DEF AllSeen
  <2> QED BY <2>5, <2>6, <2>7, <2>8
<1> QED BY <1>6, <1>8, <1>9, <1>10, <1>11, <1>12 DEF ReapInv

LEMMA MovesOnKeeps ==
  ASSUME ReapInv, StartStop \/ Terminate \/ Again \/ AwaitGroup
  PROVE  ReapInv'
<1>1. /\ ReapTypeOK /\ Lineage /\ RecordsOld /\ RecordsMine /\ AllSeen /\ (struck => replaced)
      /\ UNCHANGED <<table, births, looked, replaced>>
  BY DEF ReapInv, StartStop, Terminate, Again, AwaitGroup
<1>2. PICK pc \in {"tree", "scan", "group", "raised", "stopped"} :
        /\ reaper' = [reaper EXCEPT !.pc = pc]
        /\ pc = "group" => /\ reaper.pc = "killed" /\ reaper.conflict = {}
                           /\ \A id \in reaper.owned : ~Alive(id)
        /\ pc = "stopped" => reaper.pc = "group"
  BY DEF StartStop, Terminate, Again, AwaitGroup
<1>3. /\ reaper'.pc = pc /\ reaper'.tracked = reaper.tracked
      /\ reaper'.owned = reaper.owned /\ reaper'.conflict = reaper.conflict
  BY <1>1, <1>2 DEF ReapTypeOK
<1>4. struck' \in BOOLEAN /\ (struck' => replaced')
  <2>1. struck' \in {struck, struck \/ \E id \in {i \in reaper.tracked : Alive(i)} :
                                                   ~table[id[1]].mine}
    BY DEF StartStop, Terminate, Again, AwaitGroup, Signalled
  <2>2. ~replaced => ~\E id \in {i \in reaper.tracked : Alive(i)} : ~table[id[1]].mine
    BY <1>1 DEF RecordsMine
  <2> QED BY <1>1, <2>1, <2>2 DEF ReapTypeOK
<1>5. ReapTypeOK'
  BY <1>1, <1>2, <1>4 DEF ReapTypeOK
<1>6. Lineage'
  BY <1>1 DEF Lineage, Living
<1>7. RecordsOld' /\ RecordsMine'
  BY <1>1, <1>3 DEF RecordsOld, RecordsMine, Recorded, Alive
<1>8. AllSeen'
  <2>1. Visible' = Visible /\ (\A p : Id(p)' = Id(p)) /\ (\A id : Alive(id)' <=> Alive(id))
    BY <1>1 DEF Visible, Living, Id, Alive
  <2>2. CASE pc = "group"
    <3>1. /\ \A id \in reaper.tracked : ~Alive(id)
          /\ \A p \in Visible : ~table[p].marked /\ ~table[p].inside
      <4>1. \A p \in Visible : Alive(Id(p))
        BY DEF Visible, Living, Alive, Id
      <4> QED BY <1>1, <1>2, <2>2, <4>1 DEF AllSeen
    <3> QED BY <1>1, <1>3, <2>1, <2>2, <3>1 DEF AllSeen
  <2>3. CASE pc = "stopped"
    BY <1>1, <1>2, <1>3, <2>1, <2>3 DEF AllSeen
  <2>4. CASE pc \in {"tree", "scan", "raised"}
    BY <1>3, <2>4 DEF AllSeen
  <2> QED BY <1>2, <2>2, <2>3, <2>4
<1> QED BY <1>4, <1>5, <1>6, <1>7, <1>8 DEF ReapInv

LEMMA ReapInit_Inv == ReapInit => ReapInv
<1> SUFFICES ASSUME ReapInit PROVE ReapInv
  OBVIOUS
<1>1. /\ table = [p \in Pids |-> IF p = Leader THEN Wrapper ELSE Free]
      /\ reaper = [pc |-> "run", tracked |-> {}, owned |-> {}, conflict |-> {}]
      /\ births = 0 /\ looked = 0 /\ struck = FALSE /\ replaced = FALSE
  BY DEF ReapInit
<1>2. ReapTypeOK
  <2>1. table \in [Pids -> Process]
    BY <1>1, ReapShapes
  <2>2. 0 \in 0 .. MaxBirths
    BY ReapAssumption
  <2> QED BY <1>1, <2>1, <2>2 DEF ReapTypeOK
<1>3. Living = {Leader} /\ table[Leader] = Wrapper
  BY <1>1, ReapShapes, ReapAssumption DEF Living, Wrapper
<1>4. Lineage
  <2>1. /\ Wrapper.born = 0 /\ Wrapper.parent = 0 /\ Wrapper.mine = TRUE
        /\ looked <= births
    BY <1>1 DEF Wrapper
  <2>2. \A p \in Living : p = Leader /\ table[p].born = 0 /\ table[p].parent = 0 /\ table[p].mine
    BY <1>3, <2>1
  <2> QED BY <1>1, <2>1, <2>2 DEF Lineage
<1>5. RecordsOld /\ RecordsMine /\ AllSeen
  BY <1>1 DEF RecordsOld, RecordsMine, AllSeen, Recorded
<1> QED BY <1>1, <1>2, <1>4, <1>5 DEF ReapInv

LEMMA ReapStep_Inv == ReapInv /\ [ReapNext]_reapVars => ReapInv'
<1> SUFFICES ASSUME ReapInv, [ReapNext]_reapVars PROVE ReapInv'
  OBVIOUS
<1>1. CASE UNCHANGED reapVars
  BY <1>1 DEF reapVars, ReapInv, ReapTypeOK, Lineage, RecordsOld, RecordsMine, AllSeen,
              Recorded, Living, Visible, Alive, Id
<1>2. CASE Host
  BY <1>2, HostKeeps
<1>3. CASE Reaper
  BY <1>3, LooksKeep, ScanKeeps, CheckKeeps, MovesOnKeeps DEF Reaper
<1> QED BY <1>1, <1>2, <1>3 DEF ReapNext

(* A stop that does not raise leaves nothing of the task that its last     *)
(* look could see, and only a number given away before the first look has  *)
(* it signal a stranger (translocase.py:472-517, 627-660).                 *)
THEOREM StopsAreExact == ReapSpec => []ReapIsExact
<1>1. ReapInv => ReapIsExact
  <2> SUFFICES ASSUME ReapInv PROVE ReapIsExact
    OBVIOUS
  <2>1. ReapTypeOK /\ AllSeen /\ (struck => replaced)
    BY DEF ReapInv
  <2>2. ASSUME reaper.pc = "stopped", NEW p \in Living, table[p].marked \/ table[p].inside
        PROVE  table[p].born > looked
    <3>1. ~(table[p].born <= looked)
      BY <2>1, <2>2 DEF AllSeen, Visible
    <3>2. table[p].born \in Nat /\ looked \in Nat
      BY <2>1, ReapAssumption DEF ReapTypeOK, Process, Living
    <3> QED BY <3>1, <3>2
  <2> QED BY <2>1, <2>2 DEF AllSeen, ReapIsExact
<1> QED BY <1>1, ReapInit_Inv, ReapStep_Inv, PTL DEF ReapSpec

(* Every process of the table, and every record of the reaper, has its     *)
(* kind.                                                                   *)
THEOREM ReapTypes == ReapSpec => []ReapTypeOK
<1>1. ReapInv => ReapTypeOK
  BY DEF ReapInv
<1> QED BY <1>1, ReapInit_Inv, ReapStep_Inv, PTL DEF ReapSpec

---------------------------------------------------------------------------
(* The stall detector. *)

(* A sample, counted from the last one. *)
Back(s, k) == s[Len(s) - k]

(* The samples kept are those the histories speak of: as many of them as   *)
(* are kept are without growth, or have the last hash.                     *)
QuietSeen ==
  \A k \in 0 .. Window - 1 :
    hashes # <<>> /\ quiet >= k => Len(grew) > k /\ \A j \in 0 .. k - 1 : ~Back(grew, j)
StillSeen ==
  \A k \in 0 .. Window - 1 :
    hashes # <<>> /\ still >= k =>
      Len(hashes) > k /\ \A j \in 0 .. k : Back(hashes, j) = Back(hashes, 0)

(* And without growth in what is kept there was as long a silence.         *)
SeenQuiet ==
  \A k \in 0 .. Window - 1 :
    Len(grew) > k /\ (\A j \in 0 .. k - 1 : ~Back(grew, j)) => quiet >= k

(* No counter runs ahead of the silence, and none lags behind it by more   *)
(* than the ramp and the window.                                           *)
Even == IF quiet < still THEN quiet ELSE still

CountersFollow ==
  /\ hashes = <<>> => tick = 0 /\ quiet = 0 /\ still = 0
  /\ tick < Ramp => empty = 0 /\ noOutput = 0
  /\ skip => empty = 0
  /\ ~skip => noOutput = 0
  /\ empty <= quiet /\ noOutput <= quiet + 1

NobodyWaits ==
  fate = "alive" =>
    /\ empty < EmptyKill /\ noOutput < SilentKill
    /\ ~skip /\ hashes # <<>> =>
         IF Back(hashes, 0) = "empty" THEN Even <= empty + tick
         ELSE Even <= warnings + tick + Frozen - 2

StallInv ==
  StallTypeOK /\ QuietSeen /\ StillSeen /\ SeenQuiet /\ CountersFollow /\ NobodyWaits
    /\ KilledOnlyWhenSilent

LEMMA Thresholds ==
  /\ Ramp \in Nat /\ Ramp > 1 /\ Frozen \in Nat /\ Frozen > 1
  /\ Oscillation \in Nat /\ Oscillation > 1 /\ KillAt \in Nat /\ KillAt > 0
  /\ EmptyWarn \in Nat /\ EmptyWarn > 0 /\ EmptyKill \in Nat /\ EmptyKill > EmptyWarn
  /\ SilentKill \in Nat /\ SilentKill > 0 /\ MaxQuiet \in Nat
  /\ MaxQuiet >= EmptyKill + Ramp /\ MaxQuiet >= Frozen + KillAt + Ramp
  /\ MaxQuiet >= Oscillation /\ MaxQuiet >= SilentKill
  /\ Patience \in Nat /\ Patience >= EmptyKill + Ramp /\ Patience >= Frozen + KillAt + Ramp
  /\ Window \in Nat /\ Window > Frozen /\ Window > Oscillation
<1>1. /\ Ramp \in Nat /\ Ramp > 1 /\ Frozen \in Nat /\ Frozen > 1
      /\ Oscillation \in Nat /\ Oscillation > 1 /\ KillAt \in Nat /\ KillAt > 0
      /\ EmptyWarn \in Nat /\ EmptyWarn > 0 /\ EmptyKill \in Nat /\ EmptyKill > EmptyWarn
      /\ SilentKill \in Nat /\ SilentKill > 0 /\ MaxQuiet \in Nat
      /\ MaxQuiet >= Patience /\ MaxQuiet >= Oscillation /\ MaxQuiet >= SilentKill
  BY StallAssumption
<1>2. Patience \in Nat /\ Patience >= EmptyKill + Ramp /\ Patience >= Frozen + KillAt + Ramp
  BY <1>1 DEF Patience
<1>3. Window \in Nat /\ Window > Frozen /\ Window > Oscillation
  BY <1>1 DEF Window
<1> QED BY <1>1, <1>2, <1>3

LEMMA Sums == \A m, n \in Nat : 0 <= m /\ 0 <= m + n /\ n <= m + n
OBVIOUS

(* A new sample shifts the kept ones by one place.                         *)
LEMMA NewSample ==
  ASSUME NEW S, NEW s \in Seq(S), Len(s) <= Window, NEW e \in S
  PROVE  LET r == Recent(Append(s, e))
         IN /\ r \in Seq(S) /\ r # <<>>
            /\ Len(r) = (IF Len(s) = Window THEN Window ELSE Len(s) + 1)
            /\ r[Len(r)] = e /\ Back(r, 0) = e
            /\ \A k \in 1 .. Len(r) - 1 : Back(r, k) = Back(s, k - 1)
<1> DEFINE a == Append(s, e)
           r == Recent(a)
<1>1. /\ a \in Seq(S) /\ Len(a) = Len(s) + 1 /\ a[Len(s) + 1] = e
      /\ \A i \in 1 .. Len(s) : a[i] = s[i]
  BY AppendProperties
<1>2. Window \in Nat /\ Window > 1 /\ Len(s) \in Nat
  BY Thresholds, LenProperties
<1>3. CASE Len(s) < Window
  <2>1. r = a
    BY <1>1, <1>2, <1>3 DEF Recent
  <2>2. \A k \in 1 .. Len(r) - 1 : Back(r, k) = Back(s, k - 1)
    <3> SUFFICES ASSUME NEW k \in 1 .. Len(r) - 1 PROVE Back(r, k) = Back(s, k - 1)
      OBVIOUS
    <3>1. Len(a) - k \in 1 .. Len(s) /\ Len(a) - k = Len(s) - (k - 1)
      BY <1>1, <1>2, <2>1
    <3> QED BY <1>1, <2>1, <3>1 DEF Back
  <2>3. Len(r) - 0 = Len(r) /\ r # <<>>
    BY <1>1, <1>2, <2>1, LenProperties
  <2> QED BY <1>1, <1>2, <1>3, <2>1, <2>2, <2>3 DEF Back
<1>4. CASE Len(s) = Window
  <2>1. r = Tail(a) /\ a # <<>>
    BY <1>1, <1>2, <1>4 DEF Recent
  <2>2. /\ r \in Seq(S) /\ Len(r) = Window
        /\ \A i \in 1 .. Window : r[i] = a[i + 1]
    BY <1>1, <1>2, <1>4, <2>1, HeadTailProperties
  <2>3. \A k \in 1 .. Len(r) - 1 : Back(r, k) = Back(s, k - 1)
    <3> SUFFICES ASSUME NEW k \in 1 .. Len(r) - 1 PROVE Back(r, k) = Back(s, k - 1)
      OBVIOUS
    <3>1. /\ Len(r) - k \in 1 .. Window /\ (Len(r) - k) + 1 = Len(s) - (k - 1)
          /\ Len(s) - (k - 1) \in 1 .. Len(s)
      BY <1>2, <1>4, <2>2
    <3> QED BY <1>1, <2>2, <3>1 DEF Back
  <2>4. Len(r) - 0 = Len(r) /\ r # <<>> /\ r[Len(r)] = e
    BY <1>1, <1>2, <1>4, <2>2
  <2> QED BY <1>1, <1>2, <1>4, <2>2, <2>3, <2>4 DEF Back
<1>5. Len(s) < Window \/ Len(s) = Window
  BY <1>2
<1> QED BY <1>3, <1>4, <1>5

(* What a tick does to the samples and to the two histories.               *)
Sampled(h, out) ==
  /\ hashes' = Recent(Append(hashes, h)) /\ grew' = Recent(Append(grew, out))
  /\ quiet' = (IF out \/ hashes = <<>> THEN 0 ELSE CountTo(quiet + 1, MaxQuiet))
  /\ still' = (IF hashes = <<>> \/ h # Last(hashes) THEN 0 ELSE CountTo(still + 1, MaxQuiet))
  /\ tick' = CountTo(tick + 1, Ramp)
  /\ UNCHANGED skip

LEMMA TickShape ==
  ASSUME StallInv, NEW h \in Hashes, NEW out \in BOOLEAN, Sampled(h, out)
  PROVE  /\ hashes' \in Seq(Hashes) /\ grew' \in Seq(BOOLEAN)
         /\ hashes' # <<>> /\ grew' # <<>> /\ Len(hashes') = Len(grew') /\ Len(hashes') <= Window
         /\ Len(hashes) \in Nat /\ Len(hashes') \in Nat /\ Len(grew) = Len(hashes)
         /\ Len(hashes') = (IF Len(hashes) = Window THEN Window ELSE Len(hashes) + 1)
         /\ hashes = <<>> <=> Len(hashes) = 0
         /\ Back(hashes', 0) = h /\ Back(grew', 0) = out
         /\ \A k \in 1 .. Len(hashes') - 1 : /\ Back(hashes', k) = Back(hashes, k - 1)
                                             /\ Back(grew', k) = Back(grew, k - 1)
         /\ quiet' \in 0 .. MaxQuiet /\ still' \in 0 .. MaxQuiet /\ tick' \in 0 .. Ramp
         /\ Last(hashes') = h
         /\ hashes # <<>> => Last(hashes) = Back(hashes, 0)
<1>1. /\ hashes \in Seq(Hashes) /\ grew \in Seq(BOOLEAN) /\ Len(hashes) = Len(grew)
      /\ Len(hashes) <= Window
      /\ quiet \in 0 .. MaxQuiet /\ still \in 0 .. MaxQuiet /\ tick \in 0 .. Ramp
  BY DEF StallInv, StallTypeOK
<1>2. /\ hashes' = Recent(Append(hashes, h)) /\ grew' = Recent(Append(grew, out))
  BY DEF Sampled
<1>3. /\ hashes' \in Seq(Hashes) /\ hashes' # <<>>
      /\ Len(hashes') = (IF Len(hashes) = Window THEN Window ELSE Len(hashes) + 1)
      /\ hashes'[Len(hashes')] = h /\ Back(hashes', 0) = h
      /\ \A k \in 1 .. Len(hashes') - 1 : Back(hashes', k) = Back(hashes, k - 1)
  <2> DEFINE r == Recent(Append(hashes, h))
  <2>1. /\ r \in Seq(Hashes) /\ r # <<>>
        /\ Len(r) = (IF Len(hashes) = Window THEN Window ELSE Len(hashes) + 1)
        /\ r[Len(r)] = h /\ Back(r, 0) = h
        /\ \A k \in 1 .. Len(r) - 1 : Back(r, k) = Back(hashes, k - 1)
    BY <1>1, NewSample, SMTT(30)
  <2>2. hashes' = r
    BY <1>2
  <2> HIDE DEF r
  <2> QED BY <2>1, <2>2
<1>4. /\ grew' \in Seq(BOOLEAN) /\ grew' # <<>>
      /\ Len(grew') = (IF Len(grew) = Window THEN Window ELSE Len(grew) + 1)
      /\ Back(grew', 0) = out
      /\ \A k \in 1 .. Len(grew') - 1 : Back(grew', k) = Back(grew, k - 1)
  <2> DEFINE r == Recent(Append(grew, out))
  <2>1. /\ r \in Seq(BOOLEAN) /\ r # <<>>
        /\ Len(r) = (IF Len(grew) = Window THEN Window ELSE Len(grew) + 1)
        /\ r[Len(r)] = out /\ Back(r, 0) = out
        /\ \A k \in 1 .. Len(r) - 1 : Back(r, k) = Back(grew, k - 1)
    BY <1>1, NewSample
  <2>2. grew' = r
    BY <1>2
  <2> HIDE DEF r
  <2> QED BY <2>1, <2>2
<1>5. /\ Len(hashes) \in Nat /\ (hashes = <<>> <=> Len(hashes) = 0) /\ Window \in Nat /\ Window > 0
      /\ MaxQuiet \in Nat /\ Ramp \in Nat
  BY <1>1, Thresholds, LenProperties
<1>6. quiet' \in 0 .. MaxQuiet /\ still' \in 0 .. MaxQuiet /\ tick' \in 0 .. Ramp
  BY <1>1, <1>5 DEF Sampled, CountTo
<1>7. Len(hashes') = Len(grew') /\ Len(hashes') <= Window /\ Len(hashes') \in Nat
  BY <1>1, <1>3, <1>4, <1>5
<1>8. Last(hashes') = h
  BY <1>3 DEF Last
<1>9. hashes # <<>> => Last(hashes) = Back(hashes, 0)
  BY <1>5 DEF Last, Back
<1> QED BY <1>1, <1>3, <1>4, <1>5, <1>6, <1>7, <1>8, <1>9

(* The histories go on saying what the samples say.                        *)
LEMMA HistoryKept ==
  ASSUME StallInv, NEW h \in Hashes, NEW out \in BOOLEAN, Sampled(h, out)
  PROVE  QuietSeen' /\ StillSeen' /\ SeenQuiet'
<1>1. /\ hashes' # <<>> /\ Len(grew') = Len(hashes') /\ Len(grew) = Len(hashes)
      /\ Len(hashes) \in Nat /\ Len(hashes') \in Nat
      /\ Len(hashes') = (IF Len(hashes) = Window THEN Window ELSE Len(hashes) + 1)
      /\ hashes = <<>> <=> Len(hashes) = 0
      /\ Back(hashes', 0) = h /\ Back(grew', 0) = out
      /\ \A k \in 1 .. Len(hashes') - 1 : /\ Back(hashes', k) = Back(hashes, k - 1)
                                          /\ Back(grew', k) = Back(grew, k - 1)
      /\ hashes # <<>> => Last(hashes) = Back(hashes, 0)
  BY TickShape
<1>2. /\ QuietSeen /\ StillSeen /\ SeenQuiet /\ Len(hashes) <= Window
      /\ quiet \in 0 .. MaxQuiet /\ still \in 0 .. MaxQuiet
  BY DEF StallInv, StallTypeOK
<1>3. Window \in Nat /\ MaxQuiet \in Nat /\ Window - 1 <= MaxQuiet
  BY Thresholds DEF Window
<1>4. QuietSeen'
  <2> SUFFICES ASSUME NEW k \in 0 .. Window - 1, quiet' >= k
               PROVE  Len(grew') > k /\ \A j \in 0 .. k - 1 : ~Back(grew', j)
    BY DEF QuietSeen, Back
  <2>1. CASE k = 0
    BY <1>1, <1>2, <1>3, <2>1
  <2>2. CASE k > 0
    <3>1. out = FALSE /\ hashes # <<>> /\ quiet >= k - 1 /\ k - 1 \in 0 .. Window - 1
      BY <1>2, <1>3, <2>2 DEF Sampled, CountTo
    <3>2. Len(grew) > k - 1 /\ \A j \in 0 .. (k - 1) - 1 : ~Back(grew, j)
      BY <1>2, <3>1 DEF QuietSeen
    <3>3. Len(grew') > k
      BY <1>1, <1>2, <1>3, <3>2
    <3>4. ASSUME NEW j \in 0 .. k - 1
          PROVE  ~Back(grew', j)
      <4>1. CASE j = 0
        BY <1>1, <3>1, <4>1
      <4>2. CASE j > 0
        <5>1. j \in 1 .. Len(hashes') - 1 /\ j - 1 \in 0 .. (k - 1) - 1
          BY <1>1, <3>3, <4>2
        <5> QED BY <1>1, <3>2, <5>1
      <4> QED BY <4>1, <4>2
    <3> QED BY <3>3, <3>4
  <2> QED BY <2>1, <2>2
<1>5. StillSeen'
  <2> SUFFICES ASSUME NEW k \in 0 .. Window - 1, still' >= k
               PROVE  /\ Len(hashes') > k
                      /\ \A j \in 0 .. k : Back(hashes', j) = Back(hashes', 0)
    BY DEF StillSeen, Back
  <2>1. CASE k = 0
    BY <1>1, <1>2, <1>3, <2>1
  <2>2. CASE k > 0
    <3>1. hashes # <<>> /\ h = Last(hashes) /\ still >= k - 1 /\ k - 1 \in 0 .. Window - 1
      BY <1>2, <1>3, <2>2 DEF Sampled, CountTo
    <3>2. /\ Len(hashes) > k - 1
          /\ \A j \in 0 .. k - 1 : Back(hashes, j) = Back(hashes, 0)
      BY <1>2, <3>1 DEF StillSeen
    <3>3. Len(hashes') > k
      BY <1>1, <1>2, <1>3, <3>2
    <3>4. ASSUME NEW j \in 0 .. k
          PROVE  Back(hashes', j) = Back(hashes', 0)
      <4>1. CASE j = 0
        BY <4>1
      <4>2. CASE j > 0
        <5>1. j \in 1 .. Len(hashes') - 1 /\ j - 1 \in 0 .. k - 1
          BY <1>1, <3>3, <4>2
        <5> QED BY <1>1, <3>1, <3>2, <5>1
      <4> QED BY <4>1, <4>2
    <3> QED BY <3>3, <3>4
  <2> QED BY <2>1, <2>2
<1>6. SeenQuiet'
  <2> SUFFICES ASSUME NEW k \in 0 .. Window - 1, Len(grew') > k,
                      \A j \in 0 .. k - 1 : ~Back(grew', j)
               PROVE  quiet' >= k
    BY DEF SeenQuiet, Back
  <2>0. quiet' \in 0 .. MaxQuiet
    BY TickShape
  <2>1. CASE k = 0
    BY <2>0, <2>1
  <2>2. CASE k > 0
    <3>1. ~Back(grew', 0)
      BY <2>2
    <3>2. out = FALSE /\ hashes # <<>> /\ Len(grew) > k - 1 /\ k - 1 \in 0 .. Window - 1
      BY <1>1, <1>2, <1>3, <2>2, <3>1
    <3>3. ASSUME NEW j \in 0 .. (k - 1) - 1
          PROVE  ~Back(grew, j)
      <4>1. j + 1 \in 1 .. Len(hashes') - 1 /\ j + 1 \in 0 .. k - 1 /\ (j + 1) - 1 = j
        BY <1>1, <2>2
      <4>2. ~Back(grew', j + 1)
        BY <4>1
      <4> QED BY <1>1, <4>1, <4>2
    <3>4. quiet >= k - 1
      BY <1>2, <3>2, <3>3 DEF SeenQuiet
    <3> QED BY <1>2, <1>3, <2>2, <3>2, <3>4 DEF Sampled, CountTo
  <2> QED BY <2>1, <2>2
<1> QED BY <1>4, <1>5, <1>6

(* How the two histories and their minimum move.                           *)
LEMMA SilenceMoves ==
  ASSUME StallInv, NEW h \in Hashes, NEW out \in BOOLEAN, Sampled(h, out)
  PROVE  /\ quiet \in 0 .. MaxQuiet /\ still \in 0 .. MaxQuiet /\ MaxQuiet \in Nat
         /\ Even \in 0 .. MaxQuiet /\ Even' \in 0 .. MaxQuiet /\ Even' <= Even + 1
         /\ Even' <= quiet' /\ Even' <= still'
         /\ out \/ hashes = <<>> => quiet' = 0
         /\ ~out /\ hashes # <<>> => quiet' = (IF quiet = MaxQuiet THEN MaxQuiet ELSE quiet + 1)
         /\ hashes = <<>> \/ Back(hashes', 0) # Back(hashes, 0) => Even' = 0
         /\ out => Even' = 0
<1>1. /\ quiet \in 0 .. MaxQuiet /\ still \in 0 .. MaxQuiet /\ MaxQuiet \in Nat
      /\ quiet' \in 0 .. MaxQuiet /\ still' \in 0 .. MaxQuiet
  BY Thresholds, TickShape DEF StallInv, StallTypeOK
<1>2. hashes # <<>> => Last(hashes) = Back(hashes, 0)
  BY TickShape
<1>3. Back(hashes', 0) = h
  BY TickShape
<1>4. /\ quiet' <= quiet + 1 /\ still' <= still + 1
      /\ out \/ hashes = <<>> => quiet' = 0
      /\ ~out /\ hashes # <<>> => quiet' = (IF quiet = MaxQuiet THEN MaxQuiet ELSE quiet + 1)
      /\ hashes = <<>> \/ h # Last(hashes) => still' = 0
  BY <1>1 DEF Sampled, CountTo
<1> QED BY <1>1, <1>2, <1>3, <1>4 DEF Even

(* What every tick does, whichever branch it takes.                        *)
LEMMA TickAssembles ==
  ASSUME StallInv, fate = "alive", NEW h \in Hashes, NEW out \in BOOLEAN, Sampled(h, out),
         warnings' \in 0 .. KillAt, empty' \in 0 .. EmptyKill, noOutput' \in 0 .. SilentKill,
         fate' \in {"alive", "no_output", "empty_diff", "stalled"},
         CountersFollow', NobodyWaits', KilledOnlyWhenSilent'
  PROVE  StallInv'
<1>1. QuietSeen' /\ StillSeen' /\ SeenQuiet'
  BY HistoryKept
<1>2. StallTypeOK'
  BY TickShape DEF StallTypeOK, StallInv, Sampled
<1> QED BY <1>1, <1>2 DEF StallInv

(* The facts a tick starts from. *)
LEMMA BeforeTick ==
  ASSUME StallInv, fate = "alive"
  PROVE  /\ skip \in BOOLEAN /\ tick \in 0 .. Ramp /\ warnings \in 0 .. KillAt
         /\ empty \in 0 .. EmptyKill - 1 /\ noOutput \in 0 .. SilentKill - 1
         /\ CountersFollow
         /\ ~skip /\ hashes # <<>> =>
              IF Back(hashes, 0) = "empty" THEN Even <= empty + tick
              ELSE Even <= warnings + tick + Frozen - 2
<1>1. /\ EmptyKill \in Nat /\ SilentKill \in Nat
  BY Thresholds
<1> QED BY <1>1 DEF StallInv, StallTypeOK, NobodyWaits

LEMMA ReadOnlyKeeps ==
  ASSUME StallInv, fate = "alive", NEW h \in Hashes, NEW out \in BOOLEAN, NEW err \in BOOLEAN,
         Sampled(h, out), ReadOnlyTick(out, err)
  PROVE  StallInv'
<1>1. /\ skip /\ skip' /\ empty' = empty /\ warnings' = warnings
      /\ noOutput' = (IF tick' < Ramp \/ (tick = Ramp /\ (out \/ err)) THEN 0 ELSE noOutput + 1)
      /\ fate' = (IF noOutput' >= SilentKill THEN "no_output" ELSE fate)
  BY DEF ReadOnlyTick, Sampled
<1>2. /\ tick \in 0 .. Ramp /\ warnings \in 0 .. KillAt
      /\ empty \in 0 .. EmptyKill - 1 /\ noOutput \in 0 .. SilentKill - 1 /\ CountersFollow
  BY BeforeTick
<1>3. /\ quiet \in 0 .. MaxQuiet /\ quiet' \in 0 .. MaxQuiet
      /\ ~out /\ hashes # <<>> => quiet' = (IF quiet = MaxQuiet THEN MaxQuiet ELSE quiet + 1)
      /\ hashes' # <<>> /\ tick' \in 0 .. Ramp
  BY SilenceMoves, TickShape
<1>4. /\ SilentKill \in Nat /\ SilentKill > 0 /\ Ramp \in Nat /\ Ramp > 1 /\ MaxQuiet \in Nat
      /\ EmptyKill \in Nat /\ EmptyKill > 0 /\ MaxQuiet >= SilentKill
  BY Thresholds
<1>5. empty = 0 /\ empty' = 0 /\ noOutput <= quiet + 1
  BY <1>1, <1>2 DEF CountersFollow
<1>6. noOutput' \in 0 .. SilentKill /\ noOutput' <= quiet' + 1
  <2>1. CASE tick' < Ramp \/ (tick = Ramp /\ (out \/ err))
    BY <1>1, <1>3, <1>4, <2>1
  <2>2. CASE ~(tick' < Ramp \/ (tick = Ramp /\ (out \/ err))) /\ tick = Ramp
    <3>1. ~out /\ hashes # <<>>
      BY <1>2, <1>4, <2>2 DEF CountersFollow
    <3>2. noOutput' = noOutput + 1
      BY <1>1, <2>2
    <3>3. quiet' = (IF quiet = MaxQuiet THEN MaxQuiet ELSE quiet + 1)
      BY <1>3, <3>1
    <3> QED BY <1>2, <1>3, <1>4, <1>5, <3>2, <3>3
  <2>3. CASE ~(tick' < Ramp \/ (tick = Ramp /\ (out \/ err))) /\ tick # Ramp
    <3>1. noOutput = 0
      BY <1>2, <1>4, <2>3 DEF CountersFollow
    <3>2. noOutput' = noOutput + 1
      BY <1>1, <2>3
    <3>3. noOutput' = 1 /\ quiet' \in Nat
      BY <1>3, <1>4, <3>1, <3>2
    <3>4. noOutput' <= quiet' + 1
      BY <3>3, Sums
    <3>5. 1 \in 0 .. SilentKill
      BY <1>4
    <3> QED BY <3>3, <3>4, <3>5
  <2> QED BY <2>1, <2>2, <2>3
<1>7. CountersFollow'
  BY <1>1, <1>3, <1>4, <1>5, <1>6 DEF CountersFollow
<1>8. NobodyWaits' /\ KilledOnlyWhenSilent'
  BY <1>1, <1>3, <1>4, <1>5, <1>6 DEF NobodyWaits, KilledOnlyWhenSilent
<1> QED BY <1>1, <1>2, <1>4, <1>5, <1>6, <1>7, <1>8, TickAssembles

LEMMA RampUpKeeps ==
  ASSUME StallInv, fate = "alive", NEW h \in Hashes, NEW out \in BOOLEAN, Sampled(h, out), RampUp
  PROVE  StallInv'
<1>1. /\ ~skip /\ ~skip' /\ tick' < Ramp /\ tick' = CountTo(tick + 1, Ramp)
      /\ empty' = empty /\ warnings' = warnings /\ noOutput' = noOutput /\ fate' = fate
  BY DEF RampUp, Sampled
<1>2. /\ tick \in 0 .. Ramp /\ warnings \in 0 .. KillAt
      /\ empty \in 0 .. EmptyKill - 1 /\ noOutput \in 0 .. SilentKill - 1 /\ CountersFollow
      /\ hashes # <<>> => IF Back(hashes, 0) = "empty" THEN Even <= empty + tick
                          ELSE Even <= warnings + tick + Frozen - 2
  BY <1>1, BeforeTick
<1>3. /\ quiet' \in 0 .. MaxQuiet /\ Even \in 0 .. MaxQuiet /\ Even' \in 0 .. MaxQuiet
      /\ Even' <= Even + 1 /\ hashes' # <<>>
      /\ hashes = <<>> \/ Back(hashes', 0) # Back(hashes, 0) => Even' = 0
  BY SilenceMoves, TickShape
<1>4. /\ SilentKill \in Nat /\ SilentKill > 0 /\ Ramp \in Nat /\ Ramp > 1 /\ MaxQuiet \in Nat
      /\ EmptyKill \in Nat /\ EmptyKill > 0 /\ Frozen \in Nat /\ Frozen > 1 /\ KillAt \in Nat
  BY Thresholds
<1>5. tick < Ramp /\ tick' = tick + 1
  BY <1>1, <1>2, <1>4 DEF CountTo
<1>6. empty' = 0 /\ noOutput' = 0
  BY <1>1, <1>2, <1>5 DEF CountersFollow
<1>7. CountersFollow'
  <2>1. quiet' \in Nat
    BY <1>3, <1>4
  <2>2. empty' <= quiet' /\ noOutput' <= quiet' + 1
    BY <1>6, <2>1, Sums
  <2> QED BY <1>3, <1>6, <2>2 DEF CountersFollow
<1>8. IF Back(hashes', 0) = "empty" THEN Even' <= empty' + tick'
      ELSE Even' <= warnings' + tick' + Frozen - 2
  <2>1. CASE hashes = <<>> \/ Back(hashes', 0) # Back(hashes, 0)
    BY <1>1, <1>2, <1>3, <1>4, <1>5, <1>6, <2>1
  <2>2. CASE hashes # <<>> /\ Back(hashes', 0) = Back(hashes, 0)
    BY <1>1, <1>2, <1>3, <1>4, <1>5, <1>6, <2>2
  <2> QED BY <2>1, <2>2
<1>9. NobodyWaits' /\ KilledOnlyWhenSilent'
  BY <1>1, <1>4, <1>6, <1>8 DEF NobodyWaits, KilledOnlyWhenSilent, Back
<1> QED BY <1>1, <1>2, <1>4, <1>6, <1>7, <1>9, TickAssembles

LEMMA EmptyDiffKeeps ==
  ASSUME StallInv, fate = "alive", NEW h \in Hashes, NEW out \in BOOLEAN, Sampled(h, out),
         EmptyDiff(out)
  PROVE  StallInv'
<1> DEFINE growing == out /\ Len(grew') >= 2
<1>1. /\ ~skip /\ ~skip' /\ tick' >= Ramp /\ tick' = CountTo(tick + 1, Ramp)
      /\ empty' = (IF growing THEN 0 ELSE empty + 1)
      /\ fate' = (IF empty' >= EmptyKill THEN "empty_diff" ELSE fate)
      /\ warnings' = (IF ~growing /\ empty' \in EmptyWarn .. EmptyKill - 1
                      THEN CountTo(warnings + 1, KillAt) ELSE warnings)
      /\ noOutput' = noOutput /\ Last(hashes') = "empty"
  BY DEF EmptyDiff, Sampled
<1>2. /\ tick \in 0 .. Ramp /\ warnings \in 0 .. KillAt
      /\ empty \in 0 .. EmptyKill - 1 /\ noOutput \in 0 .. SilentKill - 1 /\ CountersFollow
      /\ hashes # <<>> => IF Back(hashes, 0) = "empty" THEN Even <= empty + tick
                          ELSE Even <= warnings + tick + Frozen - 2
  BY <1>1, BeforeTick
<1>3. /\ quiet \in 0 .. MaxQuiet /\ quiet' \in 0 .. MaxQuiet
      /\ Even \in 0 .. MaxQuiet /\ Even' \in 0 .. MaxQuiet
      /\ Even' <= Even + 1 /\ hashes' # <<>> /\ (out => Even' = 0)
      /\ ~out /\ hashes # <<>> => quiet' = (IF quiet = MaxQuiet THEN MaxQuiet ELSE quiet + 1)
      /\ hashes = <<>> \/ Back(hashes', 0) # Back(hashes, 0) => Even' = 0
  BY SilenceMoves, TickShape
<1>4. /\ SilentKill \in Nat /\ SilentKill > 0 /\ Ramp \in Nat /\ Ramp > 1 /\ MaxQuiet \in Nat
      /\ EmptyKill \in Nat /\ EmptyKill > 0 /\ Frozen \in Nat /\ Frozen > 1
      /\ KillAt \in Nat /\ KillAt > 0 /\ MaxQuiet >= EmptyKill
  BY Thresholds
<1>5. tick' = Ramp /\ tick >= Ramp - 1
  BY <1>1, <1>2, <1>4 DEF CountTo
<1>6. hashes # <<>> /\ Len(grew') >= 2 /\ (growing <=> out)
  <2>1. hashes # <<>>
    BY <1>2, <1>4, <1>5 DEF CountersFollow
  <2>2. Window \in Nat /\ Window > 2
    BY Thresholds
  <2>3. Len(grew') >= 2
    BY <2>1, <2>2, TickShape
  <2> QED BY <2>1, <2>3
<1>7. Back(hashes', 0) = "empty"
  BY <1>1, TickShape
<1>8. /\ empty' \in 0 .. EmptyKill /\ empty' <= quiet' /\ warnings' \in 0 .. KillAt
      /\ noOutput' = 0 /\ noOutput = 0
  BY <1>1, <1>2, <1>3, <1>4, <1>6 DEF CountersFollow, CountTo
<1>9. CountersFollow'
  <2>1. noOutput' <= quiet' + 1 /\ ~(tick' < Ramp)
    <3>1. quiet' \in Nat /\ ~(Ramp < Ramp)
      BY <1>3, <1>4
    <3> QED BY <1>5, <1>8, <3>1, Sums
  <2> QED BY <1>1, <1>3, <1>8, <2>1 DEF CountersFollow
<1>10. Even' <= empty' + tick'
  <2>1. CASE Back(hashes, 0) = "empty" /\ ~out
    BY <1>1, <1>2, <1>3, <1>4, <1>5, <1>6, <2>1
  <2>2. CASE ~(Back(hashes, 0) = "empty" /\ ~out)
    <3>1. Even' = 0
      BY <1>3, <1>7, <2>2
    <3>2. empty' \in Nat /\ tick' \in Nat
      BY <1>4, <1>5, <1>8
    <3> QED BY <3>1, <3>2, Sums
  <2> QED BY <2>1, <2>2
<1>11. NobodyWaits'
  BY <1>1, <1>4, <1>7, <1>8, <1>10 DEF NobodyWaits, Back
<1>12. KilledOnlyWhenSilent'
  BY <1>1, <1>3, <1>4, <1>8 DEF KilledOnlyWhenSilent
<1> QED BY <1>1, <1>2, <1>4, <1>8, <1>9, <1>11, <1>12, TickAssembles

(* What the check compares is what the histories count. *)
LEMMA SilentOver ==
  ASSUME SeenQuiet', Len(grew') \in Nat, NEW n \in Nat, n > 1, n <= Window, Window \in Nat,
         Len(grew') >= n, ~GrewOver(grew', n)
  PROVE  quiet' >= n - 1
<1>1. ASSUME NEW j \in 0 .. (n - 1) - 1
      PROVE  ~Back(grew', j)
  <2>1. Len(grew') - j \in (Len(grew') - n + 2) .. Len(grew')
    OBVIOUS
  <2> QED BY <2>1 DEF GrewOver, Back
<1>2. n - 1 \in 0 .. Window - 1 /\ Len(grew') > n - 1
  OBVIOUS
<1> QED BY <1>1, <1>2 DEF SeenQuiet, Back

LEMMA FrozenOver ==
  ASSUME QuietSeen', StillSeen', hashes' \in Seq(Hashes), hashes' # <<>>,
         Len(grew') = Len(hashes'), quiet' >= Frozen - 1, still' >= Frozen - 1
  PROVE  IsFrozen(hashes', grew')
<1>1. /\ Frozen \in Nat /\ Frozen > 1 /\ Frozen - 1 \in 0 .. Window - 1
      /\ Len(hashes') \in Nat /\ Len(grew') \in Nat
  BY Thresholds, LenProperties
<1>2. Len(grew') > Frozen - 1 /\ \A j \in 0 .. (Frozen - 1) - 1 : ~Back(grew', j)
  BY <1>1 DEF QuietSeen, Back
<1>3. /\ Len(hashes') > Frozen - 1
      /\ \A j \in 0 .. Frozen - 1 : Back(hashes', j) = Back(hashes', 0)
  BY <1>1 DEF StillSeen, Back
<1>4. Len(hashes') >= Frozen
  BY <1>1, <1>3
<1>5. ASSUME NEW i \in 1 .. Frozen
      PROVE  LastOf(hashes', Frozen)[i] = Last(hashes')
  <2>1. /\ Len(hashes') - Frozen + 1 \in 1 .. Len(hashes') + 1
        /\ Len(hashes') \in Len(hashes') - Frozen + 1 - 1 .. Len(hashes')
        /\ i \in 1 .. (Len(hashes') - (Len(hashes') - Frozen + 1) + 1)
        /\ (Len(hashes') - Frozen + 1) + i - 1 = Len(hashes') - (Frozen - i)
        /\ Frozen - i \in 0 .. Frozen - 1 /\ Len(hashes') - 0 = Len(hashes')
    BY <1>1, <1>4
  <2>2. LastOf(hashes', Frozen)[i] = hashes'[(Len(hashes') - Frozen + 1) + i - 1]
    BY <2>1, SubSeqProperties DEF LastOf
  <2>3. Back(hashes', Frozen - i) = Back(hashes', 0)
    BY <1>3, <2>1
  <2> QED BY <2>1, <2>2, <2>3 DEF Back, Last
<1>6. ~GrewOver(grew', Frozen)
  <2> SUFFICES ASSUME NEW i \in (Len(grew') - Frozen + 2) .. Len(grew')
               PROVE  ~grew'[i]
    BY DEF GrewOver
  <2>1. /\ Len(grew') - i \in 0 .. (Frozen - 1) - 1
        /\ Len(grew') - (Len(grew') - i) = i
    BY <1>1
  <2>2. ~Back(grew', Len(grew') - i)
    BY <1>2, <2>1
  <2> QED BY <2>1, <2>2 DEF Back
<1> QED BY <1>4, <1>5, <1>6 DEF IsFrozen

LEMMA SomeDiffKeeps ==
  ASSUME StallInv, fate = "alive", NEW h \in Hashes, NEW out \in BOOLEAN, Sampled(h, out), SomeDiff
  PROVE  StallInv'
<1> DEFINE stalled == IsFrozen(hashes', grew') \/ IsOscillating(hashes', grew')
<1>1. /\ ~skip /\ ~skip' /\ tick' >= Ramp /\ tick' = CountTo(tick + 1, Ramp)
      /\ empty' = 0 /\ noOutput' = noOutput /\ Last(hashes') # "empty"
      /\ warnings' = (IF stalled THEN CountTo(warnings + 1, KillAt) ELSE warnings)
      /\ fate' = (IF stalled /\ warnings' >= KillAt THEN "stalled" ELSE fate)
  BY DEF SomeDiff, Sampled
<1>2. /\ tick \in 0 .. Ramp /\ warnings \in 0 .. KillAt
      /\ empty \in 0 .. EmptyKill - 1 /\ noOutput \in 0 .. SilentKill - 1 /\ CountersFollow
      /\ hashes # <<>> => IF Back(hashes, 0) = "empty" THEN Even <= empty + tick
                          ELSE Even <= warnings + tick + Frozen - 2
  BY <1>1, BeforeTick
<1>3. /\ quiet' \in 0 .. MaxQuiet /\ Even \in 0 .. MaxQuiet /\ Even' \in 0 .. MaxQuiet
      /\ Even' <= Even + 1 /\ Even' <= quiet' /\ Even' <= still' /\ still' \in 0 .. MaxQuiet
      /\ hashes' # <<>> /\ hashes' \in Seq(Hashes)
      /\ Len(hashes') \in Nat /\ Len(grew') = Len(hashes')
      /\ hashes = <<>> \/ Back(hashes', 0) # Back(hashes, 0) => Even' = 0
      /\ Back(hashes', 0) = h /\ Last(hashes') = h
  BY SilenceMoves, TickShape
<1>4. /\ SilentKill \in Nat /\ SilentKill > 0 /\ Ramp \in Nat /\ Ramp > 1 /\ MaxQuiet \in Nat
      /\ EmptyKill \in Nat /\ EmptyKill > 0 /\ Frozen \in Nat /\ Frozen > 1
      /\ Oscillation \in Nat /\ Oscillation > 1 /\ Window \in Nat
      /\ Frozen <= Window /\ Oscillation <= Window
      /\ KillAt \in Nat /\ KillAt > 0
  BY Thresholds
<1>5. tick' = Ramp
  BY <1>1, <1>2, <1>4 DEF CountTo
<1>6. warnings' \in 0 .. KillAt /\ noOutput' = 0
  BY <1>1, <1>2, <1>4 DEF CountersFollow, CountTo
<1>7. CountersFollow'
  <2>1. quiet' \in Nat /\ ~(tick' < Ramp)
    BY <1>3, <1>4, <1>5
  <2>2. empty' <= quiet' /\ noOutput' <= quiet' + 1
    BY <1>1, <1>6, <2>1, Sums
  <2> QED BY <1>1, <1>3, <1>6, <2>1, <2>2 DEF CountersFollow
<1>8. stalled => quiet' >= Frozen - 1 \/ quiet' >= Oscillation - 1
  <2>1. SeenQuiet'
    BY HistoryKept
  <2>2. CASE IsFrozen(hashes', grew')
    BY <1>3, <1>4, <2>1, <2>2, SilentOver DEF IsFrozen
  <2>3. CASE IsOscillating(hashes', grew')
    BY <1>3, <1>4, <2>1, <2>3, SilentOver DEF IsOscillating
  <2> QED BY <2>2, <2>3
<1>9. KilledOnlyWhenSilent'
  BY <1>1, <1>8 DEF KilledOnlyWhenSilent
<1>10. ASSUME fate' = "alive"
       PROVE  Even' <= warnings' + tick' + Frozen - 2
  <2>1. CASE Even' <= Frozen - 2
    <3>1. Even' \in Nat /\ warnings' \in Nat /\ tick' \in Nat /\ Frozen \in Nat
      BY <1>3, <1>4, <1>5, <1>6
    <3>2. \A w, t, e, f \in Nat : e <= f - 2 => e <= w + t + f - 2
      OBVIOUS
    <3> QED BY <2>1, <3>1, <3>2
  <2>2. CASE Even' > Frozen - 2
    <3>1. quiet' >= Frozen - 1 /\ still' >= Frozen - 1 /\ Even' # 0
      BY <1>3, <1>4, <2>2
    <3>2. QuietSeen' /\ StillSeen'
      BY HistoryKept
    <3>3. stalled
      BY <1>3, <3>1, <3>2, FrozenOver
    <3>4. warnings' = warnings + 1
      BY <1>1, <1>2, <1>4, <1>6, <1>10, <3>3 DEF CountTo
    <3>5. hashes # <<>> /\ Back(hashes, 0) # "empty"
      BY <1>1, <1>3, <3>1
    <3>6. tick \in Nat
      BY <1>2, <1>4
    <3>7. Even <= warnings + tick + Frozen - 2 /\ tick <= Ramp
      BY <1>2, <1>4, <3>5
    <3> QED BY <1>2, <1>3, <1>4, <1>5, <3>4, <3>6, <3>7
  <2> QED BY <1>3, <1>4, <2>1, <2>2
<1>11. NobodyWaits'
  BY <1>1, <1>3, <1>4, <1>6, <1>10 DEF NobodyWaits, Back
<1> QED BY <1>1, <1>2, <1>4, <1>6, <1>7, <1>9, <1>11, TickAssembles

LEMMA StallInit_Inv == StallInit => StallInv
<1> SUFFICES ASSUME StallInit PROVE StallInv
  OBVIOUS
<1>1. /\ skip \in BOOLEAN /\ tick = 0 /\ hashes = <<>> /\ grew = <<>>
      /\ warnings = 0 /\ empty = 0 /\ noOutput = 0 /\ fate = "alive" /\ quiet = 0 /\ still = 0
  BY DEF StallInit
<1>2. /\ Ramp \in Nat /\ Window \in Nat /\ KillAt \in Nat /\ EmptyKill \in Nat /\ EmptyKill > 0
      /\ SilentKill \in Nat /\ SilentKill > 0 /\ MaxQuiet \in Nat
  BY Thresholds
<1>3. StallTypeOK
  BY <1>1, <1>2, EmptySeq DEF StallTypeOK
<1>4. QuietSeen /\ StillSeen /\ CountersFollow /\ NobodyWaits /\ KilledOnlyWhenSilent
  BY <1>1, <1>2 DEF QuietSeen, StillSeen, CountersFollow, NobodyWaits, KilledOnlyWhenSilent
<1>5. SeenQuiet
  <2>1. Len(grew) = 0
    BY <1>1
  <2> QED BY <1>2, <2>1 DEF SeenQuiet
<1> QED BY <1>3, <1>4, <1>5 DEF StallInv

LEMMA StallStep_Inv == StallInv /\ [StallNext]_stallVars => StallInv'
<1> SUFFICES ASSUME StallInv, [StallNext]_stallVars PROVE StallInv'
  OBVIOUS
<1>1. CASE Tick
  <2>1. PICK h \in Hashes, out \in BOOLEAN, err \in BOOLEAN :
          /\ Sampled(h, out) /\ fate = "alive"
          /\ ReadOnlyTick(out, err) \/ RampUp \/ EmptyDiff(out) \/ SomeDiff
    BY <1>1 DEF Tick, Sampled
  <2> QED BY <2>1, ReadOnlyKeeps, RampUpKeeps, EmptyDiffKeeps, SomeDiffKeeps
<1>2. CASE UNCHANGED <<skip, tick, hashes, grew, warnings, empty, noOutput, quiet, still>>
           /\ (fate' \in {"cancelled", "exited"} \/ UNCHANGED fate)
  BY <1>2 DEF StallInv, StallTypeOK, QuietSeen, StillSeen, SeenQuiet, CountersFollow, NobodyWaits,
              KilledOnlyWhenSilent, Even, Back
<1> QED BY <1>1, <1>2 DEF StallNext, Cancelled, Exits, stallVars

(* The window and the counters stay within their thresholds.               *)
THEOREM StallTypes == StallSpec => []StallTypeOK
<1>1. StallInv => StallTypeOK
  BY DEF StallInv
<1> QED BY <1>1, StallInit_Inv, StallStep_Inv, PTL DEF StallSpec

(* No harness is killed for a stall without the silence the rule asks for  *)
(* (translocase.py:882-1009). *)
THEOREM StallKillsTheSilent == StallSpec => []KilledOnlyWhenSilent
<1>1. StallInv => KilledOnlyWhenSilent
  BY DEF StallInv
<1> QED BY <1>1, StallInit_Inv, StallStep_Inv, PTL DEF StallSpec

(* No harness stays silent and still for longer than the patience lasts    *)
(* (translocase.py:882-1009). *)
THEOREM SilenceDoesNotLast == StallSpec => []SilenceIsEnded
<1>1. ASSUME StallInv PROVE SilenceIsEnded
  <2> SUFFICES ASSUME fate = "alive", ~skip PROVE quiet < Patience \/ still < Patience
    BY DEF SilenceIsEnded
  <2>1. /\ tick \in 0 .. Ramp /\ warnings \in 0 .. KillAt /\ empty \in 0 .. EmptyKill - 1
        /\ hashes # <<>> => \/ Even <= empty + tick
                            \/ Even <= warnings + tick + Frozen - 2
        /\ hashes = <<>> => quiet = 0
        /\ quiet \in 0 .. MaxQuiet /\ still \in 0 .. MaxQuiet
    BY <1>1, BeforeTick DEF StallInv, StallTypeOK, CountersFollow
  <2>2. /\ Patience \in Nat /\ Patience >= EmptyKill + Ramp /\ Patience >= Frozen + KillAt + Ramp
        /\ EmptyKill \in Nat /\ EmptyKill > 0 /\ Ramp \in Nat /\ KillAt \in Nat /\ Frozen \in Nat
        /\ MaxQuiet \in Nat
    BY Thresholds
  <2>3. CASE hashes = <<>>
    BY <2>1, <2>2, <2>3
  <2>4. CASE hashes # <<>>
    <3>1. Even < Patience
      BY <2>1, <2>2, <2>4 DEF Even
    <3> QED BY <2>1, <2>2, <3>1 DEF Even
  <2> QED BY <2>3, <2>4
<1> QED BY <1>1, StallInit_Inv, StallStep_Inv, PTL DEF StallSpec

---------------------------------------------------------------------------
(* The verdict on a result. *)

(* A destructive command is flagged wherever it was found, in every mode.  *)
LEMMA DestructionIsFlagged ==
  ASSUME NEW r \in Result
  PROVE  /\ "destruction" \in Found(r) <=> "destruction" \in r.said \cup r.diff
         /\ "destruction" \in Flags(r) <=> "destruction" \in Found(r)
<1>1. /\ "destruction" \notin EvidenceFlags(r)
      /\ "destruction" \notin NumstatFlags(r)
      /\ "destruction" \notin ReflexBanFlags(r)
  BY DEF EvidenceFlags, NumstatFlags, ReflexBanFlags
<1>2. "destruction" \in OutputFlags(r) <=> "destruction" \in r.said \cup r.diff
  BY DEF OutputFlags
<1> QED BY <1>1, <1>2 DEF Found, Flags

(* An accepted result passed, and nothing destructive was found in it.     *)
LEMMA AcceptedPasses ==
  ASSUME NEW r \in Result, Approved(r)
  PROVE  /\ r.exit = 0 /\ Passes(r)
         /\ "destruction" \notin r.said \cup r.diff
         /\ ~ReadOnly(r) => /\ Found(r) \cap Blocking = {}
                            /\ Flags(r) = Found(r)
<1>1. "destruction" \notin Flags(r) /\ Passes(r)
  BY DEF Approved, VerdictOf, Accepted
<1> QED BY <1>1, DestructionIsFlagged DEF Passes, Flags

(* Build work that was accepted shows a change, of the paths asked for.    *)
LEMMA AcceptedShowsItsChange ==
  ASSUME NEW r \in Result, Approved(r), ~ReadOnly(r)
  PROVE  /\ PrimaryEvidence(r)
         /\ r.stat => ~r.missing
         /\ ~(r.grown /\ (Shrunk(r) \/ PureDeletion(r)))
<1>1. r.exit = 0 /\ Found(r) \cap Blocking = {}
  BY AcceptedPasses
<1>2. /\ "no_commit_on_success" \notin Found(r) /\ "target_file_missing" \notin Found(r)
      /\ "file_shrunk" \notin Found(r) /\ "pure_deletion" \notin Found(r)
  BY <1>1 DEF Blocking
<1>3. PrimaryEvidence(r) /\ (r.stat => ~r.missing)
  BY <1>1, <1>2 DEF Found, EvidenceFlags
<1>4. ~(r.grown /\ (Shrunk(r) \/ PureDeletion(r)))
  BY <1>2 DEF Found, NumstatFlags
<1> QED BY <1>3, <1>4

(* A rejection has a flag that blocks, or the exit code.                   *)
LEMMA RejectionIsExplained ==
  ASSUME NEW r \in Result, VerdictOf(r) = "rejected"
  PROVE  BlockingFlags(r) # {}
<1>1. "destruction" \in Flags(r) \/ (~Unfinished(r) /\ ~Passes(r))
  BY DEF VerdictOf
<1>2. CASE "destruction" \in Flags(r)
  BY <1>2 DEF BlockingFlags, Blocking
<1>3. CASE "destruction" \notin Flags(r) /\ ~Passes(r)
  <2>1. CASE r.exit # 0
    <3>1. "exit_code" \in Found(r)
      BY <2>1 DEF Found, OutputFlags
    <3> QED BY <3>1 DEF Flags, BlockingFlags
  <2>2. CASE r.exit = 0
    <3>1. ~ReadOnly(r) /\ Found(r) \cap Blocking # {}
      BY <1>3, <2>2, DestructionIsFlagged DEF Passes
    <3> QED BY <3>1 DEF Flags, BlockingFlags
  <2> QED BY <2>1, <2>2
<1> QED BY <1>1, <1>2, <1>3

(* What can be deducted from an accepted result.                           *)
LEMMA DeductionsOfAccepted ==
  ASSUME NEW r \in Result, Approved(r)
  PROVE  Deductions(r) \in 0 .. 55 /\ Bonuses(r) \in 0 .. 25
<1>1. r.exit = 0 /\ "destruction" \notin Flags(r)
  BY AcceptedPasses, DestructionIsFlagged
<1>2. ~ReadOnly(r) => "file_shrunk" \notin Flags(r) /\ "errors" \notin Flags(r)
  BY AcceptedPasses DEF Blocking
<1>3. Deductions(r) \in 0 .. 55
  BY <1>1, <1>2 DEF Deductions
<1>4. Bonuses(r) \in 0 .. 25
  BY DEF Bonuses
<1> QED BY <1>3, <1>4

(* The score is a number, capped for what was rejected.                    *)
LEMMA RejectedIsCapped ==
  ASSUME NEW r \in Result, VerdictOf(r) = "rejected"
  PROVE  Satisfaction(r) <= 40
<1>1. Deductions(r) \in Int /\ Bonuses(r) \in Int
  BY DEF Deductions, Bonuses
<1>2. Clamp(100 - Deductions(r) + Bonuses(r)) \in Int
  BY <1>1 DEF Clamp
<1> QED BY <1>2 DEF Satisfaction, AtMost

LEMMA AcceptedScores ==
  ASSUME NEW r \in Result, Approved(r)
  PROVE  Satisfaction(r) >= 45
<1>1. /\ Clamp(100 - Deductions(r) + Bonuses(r)) \in Int
      /\ Clamp(100 - Deductions(r) + Bonuses(r)) >= 45
  BY DeductionsOfAccepted DEF Clamp
<1>2. ReadOnly(r) \/ PrimaryEvidence(r)
  BY AcceptedShowsItsChange
<1>3. VerdictOf(r) # "rejected" /\ VerdictOf(r) # "incomplete"
  BY DEF Approved, Accepted
<1> QED BY <1>1, <1>2, <1>3 DEF Satisfaction

(* The result is one of the results, for good.                             *)
LEMMA ResultStays == ReviewSpec => [](result \in Result)
<1>1. ReviewInit => result \in Result
  BY ReviewAssumption DEF ReviewInit
<1>2. result \in Result /\ [UNCHANGED result]_result => (result \in Result)'
  OBVIOUS
<1> QED BY <1>1, <1>2, PTL DEF ReviewSpec

(* The score never contradicts the verdict, and a rejection has a reason in*)
(* its dossier (chaperone_review.py:564-664), whatever was found.          *)
THEOREM ScoreAgreesWithVerdict == ReviewSpec => []ScoreFollowsVerdict
<1>1. result \in Result => ScoreFollowsVerdict
  BY RejectedIsCapped, RejectionIsExplained, AcceptedScores
     DEF ScoreFollowsVerdict, Dossier
<1> QED BY <1>1, ResultStays, PTL

(* Accepted work is whole, for every result (chaperone_review.py:62-87,    *)
(* 528-597).                                                               *)
THEOREM AcceptedWorkIsWhole == ReviewSpec => []ApprovedIsWhole
<1>1. result \in Result => ApprovedIsWhole
  <2> SUFFICES ASSUME result \in Result, Approved(result)
               PROVE  /\ result.exit = 0 /\ "destruction" \notin result.said \cup result.diff
                      /\ ReadOnly(result) \/
                           /\ PrimaryEvidence(result)
                           /\ Dossier(result).blocking = {}
                           /\ result.stat => ~result.missing
                           /\ result.grown => \A f \in result.files :
                                ~(f.added = 0 /\ f.removed > LargeFileDeletionLines)
    BY DEF ApprovedIsWhole
  <2>1. result.exit = 0 /\ "destruction" \notin result.said \cup result.diff
    BY AcceptedPasses
  <2>2. ASSUME ~ReadOnly(result)
        PROVE  Dossier(result).blocking = {}
    <3>1. Flags(result) \cap Blocking = {} /\ "exit_code" \notin Flags(result)
      BY <2>1, <2>2, AcceptedPasses
         DEF Found, OutputFlags, EvidenceFlags, NumstatFlags, ReflexBanFlags, Result, Narrated
    <3> QED BY <3>1 DEF Dossier, BlockingFlags
  <2>3. ASSUME ~ReadOnly(result), result.grown, NEW f \in result.files
        PROVE  ~(f.added = 0 /\ f.removed > LargeFileDeletionLines)
    <3>1. ~PureDeletion(result)
      BY <2>3, AcceptedShowsItsChange
    <3>2. f \in [file : Nat, added : Nat, removed : Nat]
      BY DEF Result
    <3> QED BY <3>1, <3>2, <2>3 DEF PureDeletion, LargeFileDeletionLines
  <2> QED BY <2>1, <2>2, <2>3, AcceptedShowsItsChange
<1> QED BY <1>1, ResultStays, PTL
=============================================================================
