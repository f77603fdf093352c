------------------------------ MODULE Permissions ------------------------------
(***************************************************************************)
(* app/permissions.ts: who may write what.  decideWrite combines the mode, *)
(* the write class, the paths a change touches, the emergency stop and     *)
(* executeWrite into one decision.                                         *)
(*                                                                         *)
(* A protected class is an id and a set of globs; a path is written as the *)
(* glob it matches (the globs are disjoint), or "projection" if none.      *)
(***************************************************************************)
EXTENDS Naturals, Sequences

LocalClasses == {"REPORT", "LOCAL_REPORT", "LOCAL_VERDICT", "AUDIT"}
RepairClasses ==
  {"PROJECTION_REPAIR_BRANCH", "PROJECTION_REPAIR_PR", "PROJECTION_REPAIR"}

(* The write classes that need executeWrite; two repair classes do not.     *)
RemoteWriteClasses ==
  {"CHECK_RUN", "PROJECTION_REPAIR_BRANCH", "QUARANTINE_ISSUE", "PR_COMMENT",
   "ISSUE", "LABEL", "BRANCH", "CONTENTS"}

WriteClasses == LocalClasses \cup RepairClasses \cup RemoteWriteClasses
                \cup {"REGISTRY_CANDIDATE_PULL_REQUEST"}

ModePolicy(checks, repairs, issues) ==
  [checkRuns |-> checks, repairPr |-> repairs, quarantineIssue |-> issues]

DefaultModes ==
  [ audit             |-> ModePolicy(FALSE, FALSE, FALSE),
    block             |-> ModePolicy(TRUE, FALSE, FALSE),
    projection_repair |-> ModePolicy(TRUE, TRUE, FALSE),
    quarantine        |-> ModePolicy(TRUE, FALSE, TRUE) ]

(* The modes of a policy file replace the defaults one by one, so a mode    *)
(* that the file leaves out stays.                                          *)
WithPermissionDefaults(modes) ==
  [m \in DOMAIN modes \cup DOMAIN DefaultModes |->
     IF m \in DOMAIN modes THEN modes[m] ELSE DefaultModes[m]]

(* policies/permission-policy.json leaves the mode quarantine out.          *)
LoadedModes ==
  WithPermissionDefaults([m \in {"audit", "block", "projection_repair"} |-> DefaultModes[m]])

Class(id, paths) == [id |-> id, paths |-> paths]

DefaultProtectedClasses ==
  << Class("constitutional-law", {"law/**", "laws/**"}),
     Class("freeze", {"freeze/**", "freezes/**"}),
     Class("accepted-state", {"current/**", "epochs/current/**", "state/current/**"}),
     Class("authority", {"authorities/current/**"}),
     Class("execution-receipts", {"receipts/current/**"}),
     Class("verification-results", {"verification/results/current/**"}),
     Class("terminal-recognition", {"recognitions/current/**"}),
     Class("terminal-recourse", {"recourse/current/**", "recourses/current/**"}),
     Class("claims", {"claims/current/**"}),
     Class("continuity-transfer", {"continuity/current/**", "transfer/current/**"}),
     Class("release-identity", {"LICENSE", "package.json", ".github/workflows/*release*"}),
     Class("governance-registries",
           {".github/GOVERNED_REPOS.txt", ".github/LICENSES.json",
            ".github/PACKAGES.json", ".github/REPO_CLASSES.json"}) >>

NoClass == "none"

Protects(class, path) == path \in class.paths

(* The first class in the order of the policy; the first path in the order  *)
(* of the change.                                                           *)
IsProtected(path, classes) == \E i \in DOMAIN classes : Protects(classes[i], path)

ProtectedPathClassFor(path, classes) ==
  IF ~IsProtected(path, classes) THEN NoClass
  ELSE classes[CHOOSE i \in DOMAIN classes :
                 /\ Protects(classes[i], path)
                 /\ \A j \in 1 .. (i - 1) : ~Protects(classes[j], path)].id

(* Mutant of TouchesProtected: each path overrides what was found before.   *)
LastPathProtected(paths, classes) ==
  paths # <<>> /\ IsProtected(paths[Len(paths)], classes)

TouchesProtected(paths, classes) ==
  \E i \in DOMAIN paths : IsProtected(paths[i], classes)

(* Mutant of MatchedProtectedClass: the class of the first path.            *)
ClassOfFirstPath(paths, classes) ==
  IF paths = <<>> THEN NoClass ELSE ProtectedPathClassFor(paths[1], classes)

MatchedProtectedClass(paths, classes) ==
  IF ~TouchesProtected(paths, classes) THEN NoClass
  ELSE ProtectedPathClassFor(
         paths[CHOOSE i \in DOMAIN paths :
                 /\ IsProtected(paths[i], classes)
                 /\ \A j \in 1 .. (i - 1) : ~IsProtected(paths[j], classes)],
         classes)

-----------------------------------------------------------------------------
(* The spellings of a mode: '-' is read as '_', and one alias is renamed;   *)
(* an unknown mode gets the permissions of audit without being audit.       *)
NormalMode(mode) ==
  CASE mode \in {"repair-projection", "repair_projection", "projection-repair"}
         -> "projection_repair"
    [] mode = "candidate-registry" -> "candidate_registry"
    [] OTHER -> mode

PolicyOf(modes, mode) == IF mode \in DOMAIN modes THEN modes[mode] ELSE modes.audit

(* A request for a write.                                                   *)
WriteRequest(mode, class, paths, execute) ==
  [mode |-> mode, class |-> class, paths |-> paths, execute |-> execute]

ProjectionRepairAllowed(req, modes, review) ==
  /\ req.class \in RepairClasses
  /\ ~review
  /\ \/ PolicyOf(modes, NormalMode(req.mode)).repairPr
     \/ NormalMode(req.mode) \in {"audit", "projection_repair"}

(* Mutant of AllowedByClass: protected paths do not matter.                 *)
AllowedByMode(req, modes, review) ==
  \/ req.class \in LocalClasses
  \/ /\ NormalMode(req.mode) # "audit"
     /\ \/ req.class = "CHECK_RUN" /\ PolicyOf(modes, NormalMode(req.mode)).checkRuns
        \/ ProjectionRepairAllowed(req, modes, FALSE)

AllowedByClass(req, modes, review) ==
  LET policy == PolicyOf(modes, NormalMode(req.mode)) IN
  /\ \/ req.class \in LocalClasses
     \/ req.class = "CHECK_RUN" /\ policy.checkRuns
     \/ ProjectionRepairAllowed(req, modes, review)
     \/ req.class = "QUARANTINE_ISSUE" /\ policy.quarantineIssue
  /\ NormalMode(req.mode) = "audit" => req.class \in LocalClasses
  /\ review => req.class \in LocalClasses \cup {"CHECK_RUN"}

DecideWrite(req, modes, classes, stop) ==
  LET review == TouchesProtected(req.paths, classes)
      matched == MatchedProtectedClass(req.paths, classes)
      byClass == AllowedByClass(req, modes, review)
      refusal == IF ~review THEN "DENY"
                 ELSE IF matched = "governance-registries"
                   THEN "REQUIRES_GOVERNANCE_REVIEW" ELSE "DENY_PROTECTED_PATH"
  IN [ decision |-> IF stop THEN "DENY_WRITE_DISABLED"
                    ELSE IF byClass THEN "ALLOW" ELSE refusal,
       allowed  |-> /\ ~stop
                    /\ byClass
                    /\ req.class \in RemoteWriteClasses => req.execute,
       matched  |-> matched ]
=============================================================================
