-------------------------------- MODULE Health --------------------------------
(***************************************************************************)
(* Provider routing in one worker: the circuit breaker kept in a file that *)
(* every activity reads and merges its results into, the slot counts kept  *)
(* in the memory of the worker, and the fallback loop of each activity.    *)
(*                                                                         *)
(* Time is a clock of half-hour ticks; an instant between two ticks is an   *)
(* odd number, so that a time taken later is a larger one.                 *)
(*                                                                         *)
(* src/mtor/worker/provider.py, and the loop of _translate_impl in         *)
(* src/mtor/worker/translocase.py                                          *)
(***************************************************************************)
EXTENDS Integers, Sequences, FiniteSets, SequencesExt

CONSTANTS
  Priority,     \* PROVIDER_PRIORITY
  Others,       \* providers a task may name that are not in it
  Retired,      \* RETIRED_PROVIDERS, among the others
  Limit,        \* PROVIDER_LIMITS
  Tasks,        \* activities of this worker
  Windows,      \* cooldown windows a rate limit states, in hours
  MaxClock,     \* bound: hours
  MaxLimits,    \* bound: rate limits in all
  MaxRestarts,  \* bound: restarts of the worker
  None

Routed    == ToSet(Priority)
Providers == Routed \cup Others

ASSUME HealthAssumption ==
  /\ Priority \in Seq(Routed)
  /\ Routed \cap Others = {} /\ Retired \subseteq Others /\ None \notin Providers
  /\ Routed # {} /\ Limit \in [Providers -> Nat \ {0}]
  /\ Windows \subseteq Nat \ {0} /\ IsFiniteSet(Tasks)
  /\ MaxClock \in Nat /\ MaxLimits \in Nat /\ MaxRestarts \in Nat

VARIABLES
  disk,      \* HEALTH_FILE: provider -> [state, until, failures]
  active,    \* _active_count
  clock,     \* hours
  task,      \* what each activity has in its local variables
  restarts,
  limits,    \* history: rate limits persisted for a provider since its last success
  leaked     \* history: slots whose release was skipped

healthVars == <<disk, active, clock, task, restarts, limits, leaked>>

Closed == [state |-> "closed", until |-> 0, failures |-> 0]
Now == 2 * clock
Later == Now + 1             \* an instant after everything saved at this tick

(* _is_available, at an instant t. *)
IsAvailable(h, p, t) == h[p].state # "open" \/ t >= h[p].until

(* _advance_expired_cooldowns, on the copy a task holds. *)
Advanced(h, t) ==
  [p \in DOMAIN h |-> IF p \in Routed /\ h[p].state = "open" /\ t >= h[p].until
                      THEN [h[p] EXCEPT !.state = "half_open"] ELSE h[p]]

(* The one of some providers that k of them precede in the list.           *)
Place(p)      == CHOOSE i \in DOMAIN Priority : Priority[i] = p
Before(ps, p) == {q \in ps : Place(q) < Place(p)}
Nth(ps, k)    == CHOOSE p \in ps : Cardinality(Before(ps, p)) = k

LeastLoaded(ps) == {p \in ps : \A q \in ps : active[p] <= active[q]}

(* _earliest_cooldown_provider: the first in the list among the earliest. *)
EarliestCooldown(h) ==
  LET open == {p \in Routed : h[p].state = "open"}
      soonest == {p \in open : \A q \in open : h[p].until <= h[q].until}
  IN IF open = {} THEN Head(Priority) ELSE Nth(soonest, 0)

(* select_provider without an override. *)
Routing(h0, idx, t) ==
  LET h == Advanced(h0, t)
      healthy == {p \in Routed : IsAvailable(h, p, t)}
      free == {p \in healthy : active[p] < Limit[p]}
      least == LeastLoaded(free)
  IN CASE free # {}                   -> Nth(least, idx % Cardinality(least))
       [] free = {} /\ healthy # {}   -> Nth(LeastLoaded(healthy), 0)
       [] OTHER                       -> EarliestCooldown(h)

(* Mutant: what was tried is not left out of the next choice. *)
ChoiceUnmasked(w) ==
  IF w.tried = {} THEN (IF w.asked = None THEN Routing(w.health, w.rr, Later) ELSE w.asked)
  ELSE Routing(w.health, 0, Later)

(* _select_attempt_provider: what was tried counts as open for an hour.    *)
(* The loop has returned before everything in the list has been tried.     *)
Choice(w) ==
  IF w.tried = {} THEN (IF w.asked = None THEN Routing(w.health, w.rr, Later) ELSE w.asked)
  ELSE Routing([p \in Routed |->
                  IF p \in w.tried THEN [state |-> "open", until |-> Later + 2, failures |-> 0]
                  ELSE w.health[p]], 0, Later)

Idle == [pc |-> "idle", asked |-> None, health |-> [p \in Providers |-> Closed],
         rr |-> 0, tried |-> {}, prov |-> None]

HealthInit ==
  /\ disk = [p \in Providers |-> Closed]
  /\ active = [p \in Providers |-> 0] /\ clock = 0
  /\ task = [t \in Tasks |-> Idle]
  /\ restarts = 0
  /\ limits = [p \in Providers |-> 0] /\ leaked = [p \in Providers |-> 0]

(* load_health, then select_provider for a value that the loop overwrites: *)
(* it moves the round robin index on when nothing was asked for.  No save  *)
(* carries that index, so every activity reads it as 0.                    *)
Begin(t) ==
  /\ task[t].pc = "idle"
  /\ \E asked \in Providers \cup {None} :
       task' = [task EXCEPT ![t] =
         IF asked \in Retired THEN [Idle EXCEPT !.pc = "failed", !.asked = asked]
         ELSE [Idle EXCEPT !.pc = "select", !.asked = asked, !.health = disk,
                           !.rr = IF asked = None THEN 1 ELSE 0]]
  /\ UNCHANGED <<disk, active, clock, restarts, limits, leaked>>

(* The slot is taken before the harness is spawned, without an await. *)
Select(t) ==
  /\ task[t].pc = "select"
  /\ LET p == Choice(task[t])
     IN /\ task' = [task EXCEPT ![t].pc = "spawning", ![t].prov = p,
                                ![t].tried = @ \cup {p}]
        /\ active' = [active EXCEPT ![p] = @ + 1]
  /\ UNCHANGED <<disk, clock, restarts, limits, leaked>>

Released(p) == [active EXCEPT ![p] = IF @ > 0 THEN @ - 1 ELSE 0]

Spawned(t) ==
  /\ task[t].pc = "spawning"
  /\ task' = [task EXCEPT ![t].pc = "running"]
  /\ UNCHANGED <<disk, active, clock, restarts, limits, leaked>>

(* Mutant: the slot is released in the finally block alone. *)
SpawnFailsHolding(t) ==
  /\ task[t].pc = "spawning"
  /\ task' = [task EXCEPT ![t].pc = "failed"]
  /\ UNCHANGED <<disk, active, clock, restarts, limits, leaked>>

SpawnFails(t) ==
  /\ task[t].pc = "spawning"
  /\ task' = [task EXCEPT ![t].pc = "failed"]
  /\ active' = Released(task[t].prov)
  /\ UNCHANGED <<disk, clock, restarts, limits, leaked>>

(* The harness has ended and the finally block has run; what follows, to   *)
(* persist_health_result, may still return without it (cancelled, coaching *)
(* file too large).                                                        *)
HarnessEnds(t) ==
  /\ task[t].pc = "running"
  /\ \E next \in {"ended", "returned"} : task' = [task EXCEPT ![t].pc = next]
  /\ active' = Released(task[t].prov)
  /\ UNCHANGED <<disk, clock, restarts, limits, leaked>>

(* The stall check killed the harness and could not see it gone: its task  *)
(* holds a RuntimeError, and awaiting it in the finally block raises there,*)
(* before the count is decremented.                                        *)
StallKillUnverified(t) ==
  /\ task[t].pc = "running"
  /\ task' = [task EXCEPT ![t].pc = "failed"]
  /\ leaked' = [leaked EXCEPT ![task[t].prov] = @ + 1]
  /\ UNCHANGED <<disk, active, clock, restarts, limits>>

(* update_health on a health dictionary. *)
Updated(h, p, rc, until) ==
  IF rc = 42 THEN [h EXCEPT ![p] = [state |-> "open", until |-> until, failures |-> @.failures + 1]]
  ELSE IF rc = 0 THEN [h EXCEPT ![p] = Closed] ELSE h

(* Mutant: the result is merged into what was loaded at the start. *)
PersistStale(t) ==
  /\ task[t].pc = "ended"
  /\ \E rc \in {0, 1, 42}, w \in Windows :
       LET p == task[t].prov
           merged == Updated(task[t].health, p, rc, Now + 2 * w)
       IN /\ rc = 42 => FoldFunctionOnSet(LAMBDA a, b : a + b, 0, limits, Providers) < MaxLimits
          /\ disk' = merged
          /\ limits' = [limits EXCEPT ![p] = IF rc = 42 THEN @ + 1 ELSE IF rc = 0 THEN 0 ELSE @]
          /\ task' = [task EXCEPT ![t].health = merged, ![t].rr = 0,
                                  ![t].pc = IF rc = 42 THEN "throttled" ELSE "returned"]
  /\ UNCHANGED <<active, clock, restarts, leaked>>

(* persist_health_result: load, update and save under the file's lock. The *)
(* merged dictionary is the task's from now on.                            *)
Persist(t) ==
  /\ task[t].pc = "ended"
  /\ \E rc \in {0, 1, 42}, w \in Windows :
       LET p == task[t].prov
           merged == Updated(disk, p, rc, Now + 2 * w)
       IN /\ rc = 42 => FoldFunctionOnSet(LAMBDA a, b : a + b, 0, limits, Providers) < MaxLimits
          /\ disk' = merged
          /\ limits' = [limits EXCEPT ![p] = IF rc = 42 THEN @ + 1 ELSE IF rc = 0 THEN 0 ELSE @]
          /\ task' = [task EXCEPT ![t].health = merged, ![t].rr = 0,
                                  ![t].pc = IF rc = 42 THEN "throttled" ELSE "returned"]
  /\ UNCHANGED <<active, clock, restarts, leaked>>

(* After the wait: all of PROVIDER_PRIORITY tried, or another round. *)
Retry(t) ==
  /\ task[t].pc = "throttled"
  /\ task' = [task EXCEPT ![t].pc =
                IF Routed \subseteq task[t].tried THEN "returned" ELSE "select"]
  /\ UNCHANGED <<disk, active, clock, restarts, limits, leaked>>

(* A restarted worker has its counts at zero and none of its activities. *)
Restart ==
  /\ restarts < MaxRestarts
  /\ restarts' = restarts + 1
  /\ active' = [p \in Providers |-> 0]
  /\ leaked' = [p \in Providers |-> 0]
  /\ task' = [t \in Tasks |->
                IF task[t].pc \in {"idle", "returned", "failed"} THEN task[t] ELSE Idle]
  /\ UNCHANGED <<disk, clock, limits>>

AnHourPasses ==
  /\ clock < MaxClock
  /\ clock' = clock + 1
  /\ UNCHANGED <<disk, active, task, restarts, limits, leaked>>

Loop(t) == Begin(t) \/ Select(t) \/ Spawned(t) \/ HarnessEnds(t) \/ Persist(t) \/ Retry(t)
Trouble(t) == SpawnFails(t) \/ StallKillUnverified(t)

HealthNext == (\E t \in Tasks : Loop(t) \/ Trouble(t)) \/ Restart \/ AnHourPasses
HealthSpec == HealthInit /\ [][HealthNext]_healthVars

HealthEntry == [state : {"closed", "open", "half_open"}, until : Nat, failures : Nat]

HealthTypeOK ==
  /\ disk \in [Providers -> HealthEntry]
  /\ active \in [Providers -> Nat] /\ leaked \in [Providers -> Nat]
  /\ limits \in [Providers -> Nat] /\ clock \in Nat /\ restarts \in Nat
  /\ task \in [Tasks -> [pc : {"idle", "select", "spawning", "running", "ended",
                               "throttled", "returned", "failed"},
                         asked : Providers \cup {None}, health : [Providers -> HealthEntry],
                         rr : Nat, tried : SUBSET Providers, prov : Providers \cup {None}]]

(* The slot count of a provider is the number of harnesses running on it,  *)
(* on every path through the loop, failures to spawn and restarts included *)
(* (translocase.py:1683-1692), plus the slots whose release was skipped by *)
(* a stall kill that raised.                                               *)
Running(p) == {t \in Tasks : task[t].pc \in {"spawning", "running"} /\ task[t].prov = p}
SlotsAreRunning == \A p \in Providers : active[p] = Cardinality(Running(p)) + leaked[p]

(* No result of another activity is lost from the file: a provider is open *)
(* just when it was rate limited after its last success, with that many    *)
(* failures (persist_health_result merges under a lock).                   *)
BreakerRemembers ==
  \A p \in Providers : /\ disk[p].failures = limits[p]
                       /\ (disk[p].state = "open") <=> (limits[p] > 0)

(* A fallback goes to a provider that this activity has not tried, unless  *)
(* every one that is left is cooling down for longer than the hour the     *)
(* tried ones are given.                                                   *)
FallbackIsFresh ==
  [][\A t \in Tasks :
       task[t].pc = "select" /\ task'[t].pc = "spawning" /\ task[t].tried # {} =>
         \/ task'[t].prov \notin task[t].tried
         \/ \A p \in Routed \ task[t].tried :
              task[t].health[p].state = "open" /\ task[t].health[p].until > Later + 2]_healthVars
=============================================================================
