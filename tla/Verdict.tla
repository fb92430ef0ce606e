------------------------------- MODULE Verdict --------------------------------
(***************************************************************************)
(* The chaperone: from what one attempt returned to a verdict, a score and *)
(* a dossier.  What the regular expressions look for in the output and in  *)
(* the patch is a set of findings; the thresholds on the size of the       *)
(* change and the order in which verdict and score are decided are here.   *)
(*                                                                         *)
(* src/mtor/worker/chaperone_review.py                                     *)
(***************************************************************************)
EXTENDS Integers, FiniteSets, FiniteSetsExt

(* What is found in the output or in the added lines of the patch. *)
Narrated == {"destruction", "errors", "placeholders", "hardcoded_home_path",
             "py2_except_syntax", "dupe_future_import"}
InDiff   == {"destruction", "reflex_ban"}

LargeFileDeletionLines == 200

(* A result: exit, mode, the findings in the narration and in the diff,   *)
(* whether the task is long, how much was printed ("none", "few" words or  *)
(* "enough"), the change as `git diff` reports it, with one record of      *)
(* added and removed lines per file of the numstat, and the requested      *)
(* paths that the stat does not have.                                      *)
ReadOnly(r) == r.mode \in {"scout", "research"}

PrimaryEvidence(r) == r.stat \/ r.commits > 0 \/ r.listed \/ r.patch

NetPositive(r) ==
  FoldSet(LAMBDA f, n : n + f.added - f.removed, 0, r.files) > 0

Shrunk(r) ==
  \E f \in r.files : f.removed > 3 * f.added /\ f.removed > 10 /\ ~NetPositive(r)

(* Mutant: lines added elsewhere hide a deletion of any size. *)
PureDeletionNet(r) ==
  \E f \in r.files : f.added = 0 /\ f.removed > 5 /\ ~NetPositive(r)

PureDeletion(r) ==
  \E f \in r.files :
    /\ f.added = 0 /\ f.removed > 5
    /\ ~NetPositive(r) \/ f.removed > LargeFileDeletionLines

NumstatFlags(r) ==
  IF ~r.grown THEN {}
  ELSE (IF Shrunk(r) THEN {"file_shrunk"} ELSE {})
       \cup (IF PureDeletion(r) THEN {"pure_deletion"} ELSE {})

ReflexBanFlags(r) == r.diff \cap {"reflex_ban"}

EvidenceFlags(r) ==
  (IF r.stat /\ r.nested THEN {"nested_test_file"} ELSE {})
  \cup (IF r.exit = 0 /\ ~PrimaryEvidence(r) THEN {"no_commit_on_success"} ELSE {})
  \cup (IF r.exit = 0 /\ r.stat /\ r.missing THEN {"target_file_missing"} ELSE {})

OutputFlags(r) ==
  r.said
  \cup (IF r.exit # 0 THEN {"exit_code"} ELSE {})
  \cup (r.diff \cap {"destruction"})
  \cup (IF r.exit = 0 /\ r.long /\ r.printed # "enough" THEN {"thin_output"} ELSE {})
  \cup (IF r.exit = 0 /\ r.printed = "none" THEN {"empty_stdout_on_success"} ELSE {})

Found(r) == OutputFlags(r) \cup ReflexBanFlags(r) \cup EvidenceFlags(r) \cup NumstatFlags(r)

Blocking ==
  {"no_commit_on_success", "destruction", "errors", "file_shrunk", "pure_deletion",
   "target_file_missing", "py2_except_syntax", "nested_test_file", "reflex_ban"}

Unfinished(r) == r.exit # 0 /\ r.commits > 0

(* Read-only work need not show a diff: those two flags are dropped. *)
Flags(r) ==
  IF ReadOnly(r) /\ ~Unfinished(r)
  THEN Found(r) \ {"no_commit_on_success", "empty_stdout_on_success"}
  ELSE Found(r)

Passes(r) ==
  /\ r.exit = 0
  /\ IF ReadOnly(r) THEN "destruction" \notin Found(r)
     ELSE Found(r) \cap Blocking = {}

(* Destruction has the last word. *)
VerdictOf(r) ==
  IF "destruction" \in Flags(r) THEN "rejected"
  ELSE IF Unfinished(r) THEN "incomplete"
  ELSE IF ~Passes(r) THEN "rejected"
  ELSE IF Flags(r) = {} THEN "approved" ELSE "approved_with_flags"

Accepted == {"approved", "approved_with_flags"}
Approved(r) == VerdictOf(r) \in Accepted

Clamp(n) == IF n < 0 THEN 0 ELSE IF n > 100 THEN 100 ELSE n
AtMost(n, top) == IF n > top THEN top ELSE n

Deductions(r) ==
  (IF r.exit # 0 THEN 40 ELSE 0)
  + (IF ~r.stat /\ ~ReadOnly(r) THEN 30 ELSE 0)
  + (IF "destruction" \in Flags(r) THEN 50 ELSE 0)
  + (IF "file_shrunk" \in Flags(r) THEN 20 ELSE 0)
  + (IF "thin_output" \in Flags(r) THEN 15 ELSE 0)
  + (IF "placeholders" \in Flags(r) THEN 10 ELSE 0)
  + (IF "errors" \in Flags(r) THEN 10 ELSE 0)

Bonuses(r) ==
  (IF r.commits > 0 /\ r.exit = 0 /\ ~ReadOnly(r) THEN 10 ELSE 0)
  + (IF r.stat /\ r.tests THEN 5 ELSE 0)
  + (IF r.fallback /\ r.stat THEN 10 ELSE 0)

(* Mutant: a rejected result keeps its score. *)
SatisfactionUncapped(r) ==
  IF ~ReadOnly(r) /\ ~PrimaryEvidence(r) THEN 0
  ELSE Clamp(100 - Deductions(r) + Bonuses(r))

Satisfaction(r) ==
  LET score == Clamp(100 - Deductions(r) + Bonuses(r))
  IN CASE ~ReadOnly(r) /\ ~PrimaryEvidence(r) -> 0
       [] VerdictOf(r) = "rejected"           -> AtMost(score, 40)
       [] VerdictOf(r) = "incomplete"         -> AtMost(score, 60)
       [] OTHER                               -> score

RequeuePrompt(r) ==
  CASE VerdictOf(r) \in Accepted          -> "none"
    [] "thin_output" \in Flags(r)         -> "be_thorough"
    [] "file_shrunk" \in Flags(r)         -> "preserve_content"
    [] OTHER                              -> "none"

(* What the flags are listed as in the evidence of the decision. *)
BlockingFlags(r) == Flags(r) \cap (Blocking \cup {"exit_code"})
Warnings(r)      == Flags(r) \ BlockingFlags(r)

OperatorState(r) ==
  CASE Approved(r)                  -> "approved"
    [] VerdictOf(r) = "incomplete"  -> "incomplete"
    [] VerdictOf(r) = "rejected"    -> IF r.exit = 0 THEN "failed_review" ELSE "failed_process"
    [] OTHER                        -> "completed_unreviewed"

Dossier(r) ==
  [approved |-> Approved(r), verdict |-> VerdictOf(r), satisfaction |-> Satisfaction(r),
   blocking |-> BlockingFlags(r), warnings |-> Warnings(r), state |-> OperatorState(r),
   next |-> IF OperatorState(r) = "approved" THEN "review" ELSE "logs"]

(* What the activity returns to the workflow. *)
Chaperone(r) ==
  [approved |-> Approved(r), flags |-> Flags(r), verdict |-> VerdictOf(r),
   satisfaction |-> Satisfaction(r), requeue |-> RequeuePrompt(r), dossier |-> Dossier(r)]
=============================================================================
