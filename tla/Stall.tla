-------------------------------- MODULE Stall ---------------------------------
(***************************************************************************)
(* The stall detector beside a running harness: every tick it hashes the   *)
(* committed diff (`git diff main..HEAD`), reads how many bytes the        *)
(* harness has printed, and warns or kills.  What the byte counters are    *)
(* compared for is only whether they grew, so a tick is a hash and two     *)
(* bits of growth.                                                         *)
(*                                                                         *)
(* src/mtor/worker/translocase.py, _heartbeat_stall_check                  *)
(***************************************************************************)
EXTENDS Integers, Sequences, FiniteSets, SequencesExt

CONSTANTS
  Hashes,      \* values of the diff hash: "empty", "unknown" (git failed), others
  Ramp,        \* ticks before the first check (4)
  Frozen,      \* stall_frozen_threshold (20)
  Oscillation, \* stall_oscillation_threshold (12)
  EmptyWarn,   \* empty ticks before a warning (30)
  EmptyKill,   \* empty ticks before the kill (60)
  SilentKill,  \* ticks without output that end a read-only run (30)
  KillAt,      \* warnings_sent that kills (3)
  MaxQuiet     \* bound: quiet and still are counted up to it

(* How long a harness may neither print nor commit. *)
Patience == LET e == EmptyKill + Ramp
                f == Frozen + KillAt + Ramp
            IN IF e > f THEN e ELSE f

ASSUME StallAssumption ==
  /\ {Ramp, Frozen, Oscillation, EmptyWarn, EmptyKill, SilentKill, KillAt, MaxQuiet}
       \subseteq Nat \ {0}
  /\ EmptyWarn < EmptyKill /\ Ramp > 1 /\ Frozen > 1 /\ Oscillation > 1
  /\ MaxQuiet >= Patience /\ MaxQuiet >= Oscillation /\ MaxQuiet >= SilentKill

VARIABLES
  skip,      \* skip_stall: a read-only run
  tick,      \* ticks so far, counted up to Ramp
  hashes,    \* recent_hashes
  grew,      \* for each of them, whether stdout grew in that tick
  warnings,  \* warnings_sent, counted up to KillAt
  empty,     \* empty_ticks
  noOutput,  \* no_output_ticks
  fate,      \* "alive", "exited", or why it was killed
  quiet,     \* history: ticks on end without a new byte on stdout
  still      \* history: ticks on end with the same hash

stallVars == <<skip, tick, hashes, grew, warnings, empty, noOutput, fate, quiet, still>>

Window == 1 + (IF Frozen > Oscillation THEN Frozen ELSE Oscillation)

LastOf(s, n) == SubSeq(s, Len(s) - n + 1, Len(s))
Recent(s) == IF Len(s) > Window THEN Tail(s) ELSE s
CountTo(n, top) == IF n > top THEN top ELSE n

StallInit ==
  /\ skip \in BOOLEAN
  /\ tick = 0 /\ hashes = <<>> /\ grew = <<>>
  /\ warnings = 0 /\ empty = 0 /\ noOutput = 0
  /\ fate = "alive" /\ quiet = 0 /\ still = 0

(* Mutant: only the last two samples are compared. *)
GrewLately(g, n) == g[Len(g)]

(* Stdout is longer now than n - 1 ticks ago: [-1] > [-n]. *)
GrewOver(g, n) == \E i \in (Len(g) - n + 2) .. Len(g) : g[i]

IsFrozen(h, g) ==
  /\ Len(h) >= Frozen
  /\ \A i \in 1 .. Frozen : LastOf(h, Frozen)[i] = Last(h)
  /\ ~GrewOver(g, Frozen)

IsOscillating(h, g) ==
  /\ Len(h) >= Oscillation
  /\ Cardinality({LastOf(h, Oscillation)[i] : i \in 1 .. Oscillation}) = 2
  /\ \A i \in 1 .. Oscillation - 1 : LastOf(h, Oscillation)[i] # LastOf(h, Oscillation)[i + 1]
  /\ ~GrewOver(g, Oscillation)

(* A read-only run is judged by what it prints, stderr included; the first *)
(* comparison has nothing to compare with and counts as silent.            *)
ReadOnlyTick(out, err) ==
  /\ skip
  /\ noOutput' = IF tick' < Ramp \/ (tick = Ramp /\ (out \/ err)) THEN 0 ELSE noOutput + 1
  /\ fate' = IF noOutput' >= SilentKill THEN "no_output" ELSE fate
  /\ UNCHANGED <<warnings, empty>>

RampUp ==
  /\ ~skip /\ tick' < Ramp
  /\ UNCHANGED <<warnings, empty, noOutput, fate>>

(* Mutant: the warning starts the count of empty ticks afresh. *)
EmptyDiffForgiven(out) ==
  /\ ~skip /\ tick' >= Ramp
  /\ Last(hashes') = "empty"
  /\ LET growing == out /\ Len(grew') >= 2
     IN /\ empty' = IF growing \/ empty >= EmptyWarn THEN 0 ELSE empty + 1
        /\ fate' = IF empty' >= EmptyKill THEN "empty_diff" ELSE fate
        /\ warnings' = IF ~growing /\ empty' >= EmptyWarn
                       THEN CountTo(warnings + 1, KillAt) ELSE warnings
  /\ UNCHANGED noOutput

EmptyDiff(out) ==
  /\ ~skip /\ tick' >= Ramp
  /\ Last(hashes') = "empty"
  /\ LET growing == out /\ Len(grew') >= 2
     IN /\ empty' = IF growing THEN 0 ELSE empty + 1
        /\ fate' = IF empty' >= EmptyKill THEN "empty_diff" ELSE fate
        /\ warnings' = IF ~growing /\ empty' \in EmptyWarn .. EmptyKill - 1
                       THEN CountTo(warnings + 1, KillAt) ELSE warnings
  /\ UNCHANGED noOutput

(* warnings_sent is one counter for the empty diff and for both stalls. *)
SomeDiff ==
  /\ ~skip /\ tick' >= Ramp
  /\ Last(hashes') # "empty"
  /\ empty' = 0
  /\ LET stalled == IsFrozen(hashes', grew') \/ IsOscillating(hashes', grew')
     IN /\ warnings' = IF stalled THEN CountTo(warnings + 1, KillAt) ELSE warnings
        /\ fate' = IF stalled /\ warnings' >= KillAt THEN "stalled" ELSE fate
  /\ UNCHANGED noOutput

Tick ==
  /\ fate = "alive"
  /\ \E h \in Hashes, out \in BOOLEAN, err \in BOOLEAN :
       /\ err => skip             \* stderr counts in a read-only run alone,
       /\ skip => h = "empty"     \* whose hash nothing looks at
       /\ tick' = CountTo(tick + 1, Ramp)
       /\ hashes' = Recent(Append(hashes, h))
       /\ grew' = Recent(Append(grew, out))
       /\ quiet' = IF out \/ hashes = <<>> THEN 0 ELSE CountTo(quiet + 1, MaxQuiet)
       /\ still' = IF hashes = <<>> \/ h # Last(hashes) THEN 0 ELSE CountTo(still + 1, MaxQuiet)
       /\ ReadOnlyTick(out, err) \/ RampUp \/ EmptyDiff(out) \/ SomeDiff
  /\ UNCHANGED skip

(* The activity is cancelled: the check sees it before anything else. *)
Cancelled ==
  /\ fate = "alive" /\ fate' = "cancelled"
  /\ UNCHANGED <<skip, tick, hashes, grew, warnings, empty, noOutput, quiet, still>>

Exits ==
  /\ fate = "alive" /\ fate' = "exited"
  /\ UNCHANGED <<skip, tick, hashes, grew, warnings, empty, noOutput, quiet, still>>

StallNext == Tick \/ Cancelled \/ Exits
StallSpec == StallInit /\ [][StallNext]_stallVars

StallTypeOK ==
  /\ skip \in BOOLEAN /\ tick \in 0 .. Ramp
  /\ hashes \in Seq(Hashes) /\ grew \in Seq(BOOLEAN)
  /\ Len(hashes) = Len(grew) /\ Len(hashes) <= Window
  /\ warnings \in 0 .. KillAt /\ empty \in 0 .. EmptyKill /\ noOutput \in 0 .. SilentKill
  /\ fate \in {"alive", "exited", "cancelled", "no_output", "empty_diff", "stalled"}
  /\ quiet \in 0 .. MaxQuiet /\ still \in 0 .. MaxQuiet

(* A harness is killed for a stall only after as long a silence on stdout  *)
(* as the rule that killed it asks for, whatever mixture of empty diffs,   *)
(* failed git calls and new commits came before (translocase.py:923-933,   *)
(* "considered stalled only when BOTH").  A read-only run's first check    *)
(* counts as silent without a sample to compare with.                      *)
KilledOnlyWhenSilent ==
  /\ fate = "empty_diff" => quiet >= EmptyKill
  /\ fate = "stalled" => quiet >= Frozen - 1 \/ quiet >= Oscillation - 1
  /\ fate = "no_output" => quiet >= SilentKill - 1

(* A harness that neither prints nor commits does not live for ever: once  *)
(* it has been silent and its diff the same for long enough it is gone.    *)
SilenceIsEnded == fate = "alive" /\ ~skip => quiet < Patience \/ still < Patience
=============================================================================
