-------------------------------- MODULE Review --------------------------------
(***************************************************************************)
(* The verdict on one result, and what it must never be.                   *)
(***************************************************************************)
EXTENDS Verdict

CONSTANT Results  \* the results that are reviewed

Result ==
  [exit : Nat, mode : {"build", "scout", "research"}, said : SUBSET Narrated,
   diff : SUBSET InDiff, long : BOOLEAN, printed : {"none", "few", "enough"},
   stat : BOOLEAN, commits : Nat, listed : BOOLEAN, patch : BOOLEAN, grown : BOOLEAN,
   files : SUBSET [file : Nat, added : Nat, removed : Nat], nested : BOOLEAN, missing : BOOLEAN,
   tests : BOOLEAN, fallback : BOOLEAN]

ASSUME ReviewAssumption == Results \subseteq Result

VARIABLE result

ReviewInit == result \in Results
ReviewSpec == ReviewInit /\ [][UNCHANGED result]_result

(* A rejected result never scores as high as an accepted one, however the  *)
(* deductions, the bonuses and the two caps combine, and its dossier names *)
(* a finding that blocks (chaperone_review.py:564-664).                    *)
ScoreFollowsVerdict ==
  /\ VerdictOf(result) = "rejected" =>
       /\ Satisfaction(result) <= 40
       /\ Dossier(result).blocking # {}
  /\ Approved(result) => Satisfaction(result) >= 45

(* Accepted build work exited with 0, shows a diff with the requested paths*)
(* where there is a stat, and has deleted no large file whatever else was  *)
(* added beside it (chaperone_review.py:80-87), and its dossier names      *)
(* nothing that blocks; nothing accepted, of any mode, ran or added a      *)
(* destructive command.                                                    *)
ApprovedIsWhole ==
  Approved(result) =>
    /\ result.exit = 0 /\ "destruction" \notin result.said \cup result.diff
    /\ ReadOnly(result) \/
         /\ PrimaryEvidence(result)
         /\ Dossier(result).blocking = {}
         /\ result.stat => ~result.missing
         /\ result.grown => \A f \in result.files :
              ~(f.added = 0 /\ f.removed > LargeFileDeletionLines)
=============================================================================
