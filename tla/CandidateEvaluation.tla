-------------------------- MODULE CandidateEvaluation --------------------------
(***************************************************************************)
(* The v0.2.0 spine: a candidate mutation is classified three times,       *)
(* compared with the accepted graph, and turned into a verdict, an         *)
(* admission receipt, a quarantine record, a dry-run repair packet and     *)
(* the packets of the simulated writers.                                   *)
(*                                                                         *)
(* A candidate is reduced to what the classifiers look for in its paths    *)
(* and in its serialised text.  The signature of an object is a function   *)
(* of the object, so a digest of it is the object.                         *)
(***************************************************************************)
EXTENDS Naturals, FiniteSets

Facets == {"truth", "projection", "package", "workflow"}

(* language-boundary.js.  "denied" is a denial in the form the mask knows,  *)
(* which exists for two of the phrases; any other denial is "asserted".     *)
Phrases ==
  {"decides truth", "accepted truth", "terminal recognition", "assigns recourse",
   "issues authority", "source of truth"}
MaskedPhrases == {"accepted truth", "source of truth"}

Mentions ==
  [phrase : Phrases, form : {"asserted"}] \cup [phrase : MaskedPhrases, form : {"denied"}]

Signals == {"contents_write", "package_publish", "secret"}

(* facets: what some changed path is; mentions and signals: in the text.    *)
IsCandidate(c) ==
  c.facets \subseteq Facets /\ c.mentions \subseteq Mentions /\ c.signals \subseteq Signals

DangerText(c) == {m.phrase : m \in {n \in c.mentions : n.form = "asserted"}}

HasSovereignDanger(c) == DangerText(c) # {}

ClassifySurface(c) ==
  [ facets    |-> c.facets,
    sovereign |-> HasSovereignDanger(c),
    class     |->
      IF "truth" \in c.facets THEN "PROTECTED_TRUTH_SURFACE"
      ELSE IF HasSovereignDanger(c) THEN "SOVEREIGN_LANGUAGE_PROJECTION"
      ELSE IF "projection" \in c.facets THEN "PROJECTION_SURFACE"
      ELSE IF "package" \in c.facets THEN "PACKAGE_SURFACE"
      ELSE IF "workflow" \in c.facets THEN "WORKFLOW_SURFACE"
      ELSE "UNKNOWN" ]

(* Three of the six phrases collapse a role, all six are sovereign.         *)
RolePhrases == {"decides truth", "source of truth", "accepted truth"}

MutationClasses(c, surface) ==
  {k \in {"protected_truth_mutation"} : "truth" \in surface.facets}
  \cup {k \in {"projection_repair"} : "projection" \in surface.facets}
  \cup {k \in {"package_boundary_mutation"} : "package" \in surface.facets}
  \cup {k \in {"workflow_boundary_mutation"} : "workflow" \in surface.facets}
  \cup {k \in {"contents_write_request"} : "contents_write" \in c.signals}
  \cup {k \in {"package_publish_path"} : "package_publish" \in c.signals}
  \cup {k \in {"secret_bearing_artifact"} : "secret" \in c.signals}
  \cup {k \in {"role_collapse"} : DangerText(c) \cap RolePhrases # {}}

RedClasses ==
  {"protected_truth_mutation", "contents_write_request", "package_publish_path",
   "secret_bearing_artifact", "role_collapse"}

ClassifyMutation(c, surface) ==
  LET found == MutationClasses(c, surface)
  IN [ classes    |-> IF found = {} THEN {"ordinary_materialization"} ELSE found,
       redClasses |-> found \cap RedClasses ]

(* Mutant of RiskReasons: the mutation's classes only.                      *)
RiskOfMutation(surface, mutation) == mutation.redClasses

RiskReasons(surface, mutation) ==
  {k \in {"protected_truth_path_touched"} : "truth" \in surface.facets}
  \cup {k \in {"sovereign_language_detected"} : surface.sovereign}
  \cup (mutation.redClasses \cap (RedClasses \cup {"direct_main_write_attempt"}))

ClassifyTruthRisk(surface, mutation) ==
  [ reasons  |-> RiskReasons(surface, mutation),
    risk     |-> IF RiskReasons(surface, mutation) # {} THEN "RED" ELSE "GREEN",
    noTruth  |-> "truth" \notin surface.facets
                   /\ "protected_truth_mutation" \notin mutation.redClasses,
    noSecret |-> "secret_bearing_artifact" \notin mutation.redClasses ]

(* Mutant of Contradictions: the comparator looks at paths and graph only.  *)
ContradictionsOfPaths(acceptedRepos, c, surface, mutation, risk) ==
  {k \in {"repo_not_in_accepted_graph"} : c.repo \notin acceptedRepos}
  \cup {k \in {"protected_truth_path_mutation"} : "truth" \in surface.facets}

Contradictions(acceptedRepos, c, surface, mutation, risk) ==
  {k \in {"repo_not_in_accepted_graph"} : c.repo \notin acceptedRepos}
  \cup {k \in {"protected_truth_path_mutation"} : "truth" \in surface.facets}
  \cup {k \in {"sovereign_language_projection"} : surface.sovereign}
  \cup {k \in {"red_mutation_class_present"} : mutation.redClasses # {}}
  \cup {k \in {"red_truth_risk"} : risk.risk = "RED"}

CompareAcceptedVsCandidate(acceptedRepos, c) ==
  LET surface == ClassifySurface(c)
      mutation == ClassifyMutation(c, surface)
      risk == ClassifyTruthRisk(surface, mutation)
      admissible == Contradictions(acceptedRepos, c, surface, mutation, risk) = {}
  IN [ verdict       |-> IF admissible THEN "ADMISSIBLE_REPORT_ONLY"
                         ELSE "INADMISSIBLE_OR_QUARANTINE",
       mergeAllowed  |-> admissible,
       repairAllowed |-> admissible /\ "projection" \in surface.facets ]

-----------------------------------------------------------------------------
(* The verdict classifies again and does not consult the accepted graph.    *)
CompileActuatorVerdict(c) ==
  LET surface == ClassifySurface(c)
      risk == ClassifyTruthRisk(surface, ClassifyMutation(c, surface))
  IN [ state    |-> IF risk.risk # "GREEN" THEN "INADMISSIBLE_OR_QUARANTINE"
                    ELSE "ADMISSIBLE_REPORT_ONLY",
       risk     |-> risk.risk,
       noTruth  |-> risk.noTruth,
       noSecret |-> risk.noSecret,
       reasons  |-> risk.reasons ]

Blocked(verdict) == verdict.state # "ADMISSIBLE_REPORT_ONLY"

CompileAdmissionReceipt(verdict) ==
  [ verdictHash |-> verdict,
    admission   |-> IF verdict.state = "ADMISSIBLE_REPORT_ONLY"
                    THEN "REPORT_ONLY_ADMISSION" ELSE "NOT_ADMITTED" ]

RouteQuarantine(verdict, receipt) ==
  [ required    |-> Blocked(verdict),
    route       |-> IF Blocked(verdict) THEN "PRIVATE_REVIEW_QUARANTINE"
                    ELSE "NO_QUARANTINE_REPORT_ONLY",
    admission   |-> receipt.admission,
    verdictHash |-> verdict,
    receiptHash |-> receipt ]

CompileDryRunRepairPacket(verdict, receipt, quarantine) ==
  [ mode           |-> "DRY_RUN_ONLY",
    proposed       |-> IF Blocked(verdict) THEN "review" ELSE "preserve",
    verdictHash    |-> verdict,
    quarantineHash |-> quarantine ]

(* v020/route-quarantine-repair.js, one candidate file.                     *)
QuarantineResult(c) ==
  LET verdict == CompileActuatorVerdict(c)
      receipt == CompileAdmissionReceipt(verdict)
      quarantine == RouteQuarantine(verdict, receipt)
  IN [ verdictState |-> verdict.state,
       quarantine   |-> quarantine,
       repair       |-> CompileDryRunRepairPacket(verdict, receipt, quarantine) ]

(* operator/compile-operator-review-bundle.js, one case.                    *)
OperatorCase(result) ==
  [ required       |-> result.quarantine.required,
    action         |-> IF result.quarantine.required THEN "REVIEW_PRIVATE_QUARANTINE"
                       ELSE "ACK_REPORT_ONLY_PASS",
    quarantineHash |-> result.quarantine,
    repairHash     |-> result.repair ]

(* writer-sim/compile-test-mode-writer-simulation.js: a check run and a     *)
(* pull request for every case, an issue for the quarantined ones.          *)
SimulatedConclusion(case) == IF case.required THEN "neutral" ELSE "success"
=============================================================================
