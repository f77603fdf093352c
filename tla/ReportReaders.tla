----------------------------- MODULE ReportReaders -----------------------------
(***************************************************************************)
(* Four parts of the program read the same findings with predicates of     *)
(* their own: the report's counters, the finding lists, the merge verdict  *)
(* behind the check run, and the plans for the repair pull request and the *)
(* quarantine issue.  Findings of a catalogue are detected one by one, in  *)
(* any order and combination, and the readers are compared.                *)
(***************************************************************************)
EXTENDS Admissibility

CONSTANT Catalogue  \* every finding an invariant of invariants/ can push

(* What the literals of invariants/ have in common: an id that names        *)
(* quarantine comes with an action that does, only YELLOW findings allow    *)
(* an automatic fix, and only RED ones ask for quarantine.                  *)
ASSUME CatalogueAssumption ==
  /\ IsFiniteSet(Catalogue)
  /\ \A f \in Catalogue :
       /\ f.severity \in Severities
       /\ f.autofix \in BOOLEAN
       /\ f.quarantine \in BOOLEAN
       /\ f.idTag \in IdTags
       /\ f.idTag # "plain" => f.quarantine
       /\ f.autofix => f.severity = "YELLOW"
       /\ f.quarantine => f.severity = "RED"

VARIABLE findings

Init == findings = {}

Detect(f) == findings' = findings \cup {f}

Next == \E f \in Catalogue \ findings : Detect(f)

Spec == Init /\ [][Next]_findings

-----------------------------------------------------------------------------
(* Type invariant. *)
TypeOK == findings \subseteq Catalogue

(* The three independent notions of quarantine coincide: the merge verdict  *)
(* (counter of cli/admissorium.ts:168), the quarantine list (ids in         *)
(* capitals) and the issue plan (ids in any casing) always agree, so no     *)
(* run is quarantined on the check and left without an issue, or opens an   *)
(* issue beside a green check.                                              *)
QuarantineReadersAgree ==
  LET r == Report(findings) IN
    /\ (MergeVerdict(r) = "QUARANTINED") <=> (QuarantineListed(findings) # {})
    /\ (MergeVerdict(r) = "QUARANTINED") <=> QuarantineIssuePlan(r).required

(* The repair plan of the CLI (auto_pr_allowed) and the plan of the repair  *)
(* pull request are compiled apart; together, its changes and its blocked   *)
(* findings are exactly the findings the repair plan would automate.        *)
RepairReadersAgree ==
  LET pr == ProjectionRepairPrPlan(Report(findings)) IN
    AutoPrAllowed(findings) = pr.changes \cup pr.blocked

(* A red or quarantining finding fails the check, whatever else was found,  *)
(* and no finding fails a check by being repairable.                        *)
CheckFailsExactlyOnRed ==
  (CheckConclusion(Report(findings)) = "failure")
    <=> \E f \in findings : f.severity = "RED" \/ f.quarantine

(* The red, yellow and quarantine lists carry the number of the findings    *)
(* in them, though list and number are computed by different modules.       *)
ListsCarryTheirCount ==
  LET lists == FindingLists(Report(findings)) IN
    \A l \in {"red", "yellow", "quarantine"} :
      lists[l].count = Cardinality(lists[l].findings)

(* docs/PROTECTED_TRUTH_PATHS.md:3 "Projection repair must not touch them"  *)
(* where LICENSE is a protected path (app/permissions.ts:137).              *)
RepairLeavesLicenseAlone ==
  \A f \in ProjectionRepairPrPlan(Report(findings)).changes : f.surface # "LICENSE"
=============================================================================
