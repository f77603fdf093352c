-------------------------- MODULE AdmissibilityLemmas --------------------------
(***************************************************************************)
(* What a report's counters and verdicts say of its findings, for every    *)
(* finite set of findings.                                                 *)
(***************************************************************************)
EXTENDS Admissibility, TLAPS, FiniteSetTheorems

(* A counter of the report is positive exactly when it counted something.   *)
LEMMA CountersCount ==
  ASSUME NEW fs, IsFiniteSet(fs)
  PROVE LET r == Report(fs) IN
        /\ (r.red > 0) <=> (BySeverity(fs, "RED") # {})
        /\ (r.yellow > 0) <=> (BySeverity(fs, "YELLOW") # {})
        /\ (r.quarantine > 0) <=> (ActionQuarantined(fs) # {})
<1>1. ASSUME NEW S, S \subseteq fs PROVE (Cardinality(S) > 0) <=> (S # {})
  <2>1. IsFiniteSet(S)
    BY <1>1, FS_Subset
  <2>2. Cardinality(S) \in Nat /\ ((Cardinality(S) = 0) <=> (S = {}))
    BY <2>1, FS_CardinalityType, FS_EmptySet
  <2> QED
    BY <2>2
<1>2. /\ BySeverity(fs, "RED") \subseteq fs
      /\ BySeverity(fs, "YELLOW") \subseteq fs
      /\ ActionQuarantined(fs) \subseteq fs
  BY DEF BySeverity, ActionQuarantined
<1>3. /\ Report(fs).red = Cardinality(BySeverity(fs, "RED"))
      /\ Report(fs).yellow = Cardinality(BySeverity(fs, "YELLOW"))
      /\ Report(fs).quarantine = Cardinality(ActionQuarantined(fs))
  BY DEF Report
<1>4. /\ (Report(fs).red > 0) <=> (BySeverity(fs, "RED") # {})
      /\ (Report(fs).yellow > 0) <=> (BySeverity(fs, "YELLOW") # {})
      /\ (Report(fs).quarantine > 0) <=> (ActionQuarantined(fs) # {})
  BY <1>1, <1>2, <1>3
<1> QED
  BY <1>4

(* The merge verdict of a report, in terms of its findings alone.           *)
LEMMA MergeVerdictOf ==
  ASSUME NEW fs, IsFiniteSet(fs)
  PROVE LET v == MergeVerdict(Report(fs)) IN
        /\ (v = "QUARANTINED") <=> (ActionQuarantined(fs) # {})
        /\ (v = "BLOCKED_BY_CONSTITUTIONAL_DRIFT") <=>
             (ActionQuarantined(fs) = {} /\ BySeverity(fs, "RED") # {})
        /\ v \in {"QUARANTINED", "BLOCKED_BY_CONSTITUTIONAL_DRIFT",
                  "PASS_WITH_PROJECTION_REPAIR", "PASS"}
<1>1. /\ (Report(fs).red > 0) <=> (BySeverity(fs, "RED") # {})
      /\ (Report(fs).quarantine > 0) <=> (ActionQuarantined(fs) # {})
  BY CountersCount
<1>2. Report(fs).verdict = AdmissibilityVerdict(fs)
  BY DEF Report
<1>3. /\ AdmissibilityVerdict(fs) \in {"INADMISSIBLE", "ADMISSIBLE_AS_PROJECTION_REPAIR",
                                       "ADMISSIBLE"}
      /\ (AdmissibilityVerdict(fs) = "INADMISSIBLE") <=> (BySeverity(fs, "RED") # {})
  BY DEF AdmissibilityVerdict
<1> QED
  BY <1>1, <1>2, <1>3 DEF MergeVerdict

(* The check run fails exactly for a red or a quarantining finding.         *)
LEMMA FailureMeansRed ==
  ASSUME NEW fs, IsFiniteSet(fs)
  PROVE (CheckConclusion(Report(fs)) = "failure")
          <=> (BySeverity(fs, "RED") # {} \/ ActionQuarantined(fs) # {})
BY MergeVerdictOf DEF CheckConclusion
=============================================================================
