-------------------------- MODULE ReportReadersProofs --------------------------
(***************************************************************************)
(* The readers of the findings agree for every catalogue that keeps the    *)
(* conventions of invariants/ (CatalogueAssumption).                       *)
(***************************************************************************)
EXTENDS ReportReaders, AdmissibilityLemmas

LEMMA FiniteFindings == TypeOK => IsFiniteSet(findings)
BY CatalogueAssumption, FS_Subset DEF TypeOK

(* The findings stay in the catalogue. *)
THEOREM ReadersTypeCorrect == Spec => []TypeOK
<1>1. Init => TypeOK
  BY DEF Init, TypeOK
<1>2. TypeOK /\ [Next]_findings => TypeOK'
  BY DEF TypeOK, Next, Detect
<1> QED
  BY <1>1, <1>2, PTL DEF Spec

(* No catalogue that keeps the conventions of invariants/ can make the      *)
(* check, the quarantine list and the issue plan disagree on quarantine.    *)
THEOREM QuarantineAgreement == Spec => []QuarantineReadersAgree
<1>1. TypeOK => QuarantineReadersAgree
  <2> SUFFICES ASSUME TypeOK PROVE QuarantineReadersAgree
    OBVIOUS
  <2>1. IsFiniteSet(findings)
    BY FiniteFindings
  <2>2. (MergeVerdict(Report(findings)) = "QUARANTINED") <=> (ActionQuarantined(findings) # {})
    BY <2>1, MergeVerdictOf
  <2>3. \A f \in findings : f.idTag # "plain" => f.quarantine
    BY CatalogueAssumption DEF TypeOK
  <2>4. QuarantineListed(findings) = ActionQuarantined(findings)
    BY <2>3 DEF QuarantineListed, ActionQuarantined
  <2>5. QuarantineIssuePlan(Report(findings)).required <=> (ActionQuarantined(findings) # {})
    <3>1. (Report(findings).quarantine > 0) <=> (ActionQuarantined(findings) # {})
      BY <2>1, CountersCount
    <3>2. Report(findings).findings = findings
      BY DEF Report
    <3> QED
      BY <2>3, <3>1, <3>2 DEF QuarantineIssuePlan, QuarantineRelevantFindings, ActionQuarantined
  <2> QED
    BY <2>2, <2>4, <2>5 DEF QuarantineReadersAgree
<1> QED
  BY <1>1, ReadersTypeCorrect, PTL

(* The repair pull request changes or blocks exactly what the repair plan   *)
(* of the CLI automates, because only YELLOW findings allow a fix.          *)
THEOREM RepairAgreement == Spec => []RepairReadersAgree
<1>1. TypeOK => RepairReadersAgree
  <2> SUFFICES ASSUME TypeOK PROVE RepairReadersAgree
    OBVIOUS
  <2>1. \A f \in findings : f.autofix => f.severity = "YELLOW"
    BY CatalogueAssumption DEF TypeOK
  <2>2. Report(findings).findings = findings
    BY DEF Report
  <2> QED
    BY <2>1, <2>2 DEF RepairReadersAgree, ProjectionRepairPrPlan, RepairChanges,
      ProjectionRepairFindings, AutoPrAllowed
<1> QED
  BY <1>1, ReadersTypeCorrect, PTL

(* The check fails exactly on a red or quarantining finding.                *)
THEOREM FailureExactlyOnRed == Spec => []CheckFailsExactlyOnRed
<1>1. TypeOK => CheckFailsExactlyOnRed
  BY FiniteFindings, FailureMeansRed DEF CheckFailsExactlyOnRed, BySeverity, ActionQuarantined
<1> QED
  BY <1>1, ReadersTypeCorrect, PTL

(* Red, yellow and quarantine lists carry the number of their findings.     *)
THEOREM ListCounts == Spec => []ListsCarryTheirCount
<1>1. TypeOK => ListsCarryTheirCount
  <2> SUFFICES ASSUME TypeOK PROVE ListsCarryTheirCount
    OBVIOUS
  <2>1. QuarantineListed(findings) = ActionQuarantined(findings)
    BY CatalogueAssumption DEF TypeOK, QuarantineListed, ActionQuarantined
  <2> QED
    BY <2>1 DEF ListsCarryTheirCount, FindingLists, Report
<1> QED
  BY <1>1, ReadersTypeCorrect, PTL
=============================================================================
