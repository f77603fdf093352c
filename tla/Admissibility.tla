---------------------------- MODULE Admissibility ----------------------------
(***************************************************************************)
(* The decision core of ADMISSORIUM: from the findings of an audit to the  *)
(* report, from the report to the merge verdict, the check conclusion, the *)
(* finding lists, the repair plan and the three actuator plans.            *)
(*                                                                         *)
(* A finding is reduced to what a decision reads: its severity, whether an *)
(* automatic fix is allowed, its surface, and whether its id or its        *)
(* recommended action names quarantine.                                    *)
(***************************************************************************)
EXTENDS Naturals, FiniteSets

Severities == {"RED", "YELLOW", "GREEN"}

(* How a finding id mentions quarantine: not at all, in capitals, or in    *)
(* any other casing (two readers of the id differ on the casing).          *)
IdTags == {"plain", "QUARANTINE", "Quarantine"}

(***************************************************************************)
(* cli/admissorium.ts: verdict() and the counters of the report.           *)
(***************************************************************************)
BySeverity(fs, s) == {f \in fs : f.severity = s}

(* Mutant of ActionQuarantined: counts what names quarantine in its id.     *)
IdQuarantined(fs) == {f \in fs : f.idTag # "plain"}

ActionQuarantined(fs) == {f \in fs : f.quarantine}

AdmissibilityVerdict(fs) ==
  CASE BySeverity(fs, "RED") # {} -> "INADMISSIBLE"
    [] BySeverity(fs, "RED") = {} /\ BySeverity(fs, "YELLOW") # {}
         -> "ADMISSIBLE_AS_PROJECTION_REPAIR"
    [] OTHER -> "ADMISSIBLE"

Report(fs) ==
  [ findings   |-> fs,
    verdict    |-> AdmissibilityVerdict(fs),
    red        |-> Cardinality(BySeverity(fs, "RED")),
    yellow     |-> Cardinality(BySeverity(fs, "YELLOW")),
    green      |-> IF fs = {} THEN 1 ELSE 0,
    quarantine |-> Cardinality(ActionQuarantined(fs)) ]

(***************************************************************************)
(* reports/merge-verdict.ts                                                *)
(***************************************************************************)
MergeVerdict(r) ==
  IF r.verdict = "QUARANTINED" \/ r.quarantine > 0 THEN "QUARANTINED"
  ELSE IF r.verdict = "INADMISSIBLE" \/ r.red > 0
    THEN "BLOCKED_BY_CONSTITUTIONAL_DRIFT"
  ELSE IF r.verdict = "REQUIRES_ACCEPTANCE_ACT" THEN "REQUIRES_GOVERNANCE_REVIEW"
  ELSE IF r.verdict = "ADMISSIBLE_AS_PROJECTION_REPAIR" \/ r.yellow > 0
    THEN "PASS_WITH_PROJECTION_REPAIR"
  ELSE "PASS"

MergeAllowed(r) == MergeVerdict(r) \in {"PASS", "PASS_WITH_PROJECTION_REPAIR"}

(* Mutants of CheckConclusion: one that only quarantine fails, one that     *)
(* fails whatever is not clean.                                             *)
ConclusionOfQuarantine(r) ==
  IF MergeVerdict(r) = "QUARANTINED" THEN "failure" ELSE "success"

ConclusionOfClean(r) == IF MergeVerdict(r) = "PASS" THEN "success" ELSE "failure"

CheckConclusion(r) ==
  CASE MergeVerdict(r) \in {"PASS", "PASS_WITH_PROJECTION_REPAIR"} -> "success"
    [] MergeVerdict(r) = "REQUIRES_GOVERNANCE_REVIEW" -> "neutral"
    [] OTHER -> "failure"

(***************************************************************************)
(* reports/finding-lists.ts: the list a finding goes to depends on the     *)
(* finding, the count beside the list is copied from the report.           *)
(***************************************************************************)
QuarantineListed(fs) == {f \in fs : f.idTag = "QUARANTINE" \/ f.quarantine}

FindingLists(r) ==
  [ red        |-> [count |-> r.red, findings |-> BySeverity(r.findings, "RED")],
    yellow     |-> [count |-> r.yellow, findings |-> BySeverity(r.findings, "YELLOW")],
    green      |-> [count |-> r.green, findings |-> BySeverity(r.findings, "GREEN")],
    quarantine |-> [count |-> r.quarantine, findings |-> QuarantineListed(r.findings)] ]

(* compilers/repair-plan-compiler.ts: the items whose auto_pr_allowed is true. *)
AutoPrAllowed(fs) == {f \in fs : f.autofix}

(***************************************************************************)
(* app/projection-repair-pr-plan.ts. A surface is written as the path it   *)
(* is, or as the protected prefix it lies under.                           *)
(***************************************************************************)
ProtectedSurfacePrefixes ==
  {"law/", "freeze/", "epochs/current/", "current/", "authorities/current/",
   "receipts/current/", "verification/results/current/", "recognitions/current/",
   "claims/current/", "continuity/current/", "transfer/current/"}

IsProtectedSurface(s) == s \in ProtectedSurfacePrefixes

(* Mutant of ProjectionRepairFindings: autofix_allowed is not asked.        *)
YellowFindings(fs) == {f \in fs : f.severity = "YELLOW"}

ProjectionRepairFindings(fs) ==
  {f \in fs : f.severity = "YELLOW" /\ f.autofix}

RepairChanges(fs) ==
  {f \in ProjectionRepairFindings(fs) : ~IsProtectedSurface(f.surface)}

ProjectionRepairPrPlan(r) ==
  [ required |-> RepairChanges(r.findings) # {},
    changes  |-> RepairChanges(r.findings),
    blocked  |-> ProjectionRepairFindings(r.findings) \ RepairChanges(r.findings) ]

(***************************************************************************)
(* app/quarantine-issue-plan.ts: once the report counts a quarantine, all  *)
(* of its findings go into the issue.                                      *)
(***************************************************************************)
QuarantineRelevantFindings(r) ==
  IF r.quarantine > 0 THEN r.findings
  ELSE {f \in r.findings : f.idTag # "plain" \/ f.quarantine}

QuarantineIssuePlan(r) ==
  [ required |-> r.quarantine > 0 \/ QuarantineRelevantFindings(r) # {},
    findings |-> QuarantineRelevantFindings(r) ]

(* Mutants of ExitStatus: the number of red findings; yellow is no error.   *)
ExitCount(r) == IF r.red > 0 THEN r.red + 1 ELSE IF r.yellow > 0 THEN 1 ELSE 0

ExitOnRed(r) == IF r.red > 0 THEN 2 ELSE 0

(* cli/admissorium.ts:241, the exit status of a completed audit. *)
ExitStatus(r) == IF r.red > 0 THEN 2 ELSE IF r.yellow > 0 THEN 1 ELSE 0
=============================================================================
