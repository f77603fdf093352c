------------------------------- MODULE AuditRun -------------------------------
(***************************************************************************)
(* One run of the audit CLI (cli/admissorium.ts): the registries and the   *)
(* local repositories are loaded, the wired invariants append findings in  *)
(* a fixed order, and the report is compiled from them.                    *)
(*                                                                         *)
(* The "world" is what the run reads from the file system.  It does not    *)
(* change during the run: the CLI is synchronous and reads each file once. *)
(***************************************************************************)
EXTENDS Admissibility

CONSTANTS
  Repos,            \* repositories that may be governed or materialized
  Admissorium,      \* Verifrax/ADMISSORIUM
  Auctoriseal,      \* Verifrax/AUCTORISEAL, whose README wording is audited
  Packages,         \* package names
  PerimeterSize,    \* the number of governed repositories the CLI insists on
  Worlds            \* the worlds a run may find

LicenseStates == {"unlisted", "matches", "differs", "missing"}

WorldType ==
  [ governed   : SUBSET Repos,               \* names in GOVERNED_REPOS.txt
    repeated   : Nat,                        \* lines of it that repeat a name
    live       : SUBSET Repos,               \* directories with a .git
    classes    : {"absent", "present"},      \* REPO_CLASSES.json
    entries    : [Repos -> 0..2],            \* class entries per repository
    roleOk     : BOOLEAN,                    \* ADMISSORIUM's own entry is right
    license    : [Repos -> LicenseStates],   \* LICENSE against LICENSES.json
    gplReadme  : BOOLEAN,                    \* AGPL expected, README says GPL
    packages   : {"absent", "present"},      \* PACKAGES.json
    sources    : [Packages -> SUBSET Repos], \* registered source repositories
    observed   : [Packages -> SUBSET Repos], \* repositories materializing it
    corrupt    : {"none", "registry", "package.json"} ] \* a file JSON rejects

ASSUME AuditAssumption ==
  /\ Admissorium \in Repos /\ Auctoriseal \in Repos
  /\ PerimeterSize \in Nat
  /\ Worlds \subseteq WorldType

ASSUME FiniteAssumption == IsFiniteSet(Repos) /\ IsFiniteSet(Packages)

VARIABLES
  world,     \* what is on disk
  phase,     \* the next stage of main()
  findings,  \* the findings pushed so far
  report,    \* the compiled report, or NoReport
  exit       \* the exit status of the process, or NoExit

vars == <<world, phase, findings, report, exit>>

NoReport == [verdict |-> "none"]
NoExit == 99

Phases == {"load", "perimeter", "classes", "licenses", "packages", "count",
           "compile", "done", "crashed"}

(***************************************************************************)
(* Findings, one constructor per literal in invariants/.  No id pushed by  *)
(* the wired invariants names quarantine, and no action of theirs does.    *)
(***************************************************************************)
Finding(id, subject, severity, surface, autofix) ==
  [ id |-> id, subject |-> subject, severity |-> severity, surface |-> surface,
    autofix |-> autofix, idTag |-> "plain", quarantine |-> FALSE ]

(* Mutant of RepoPerimeterInvariant: extra live repositories are no drift.  *)
PerimeterCovered(governed, live) ==
  IF governed \subseteq live THEN {}
  ELSE {Finding("RED-REPO-PERIMETER-MISMATCH", "hub", "RED", "registry", FALSE)}

(* invariants/repo-perimeter.ts *)
RepoPerimeterInvariant(governed, live) ==
  IF governed = live THEN {}
  ELSE {Finding("RED-REPO-PERIMETER-MISMATCH", "hub", "RED", "registry", FALSE)}

(* invariants/repo-class-registry.ts *)
RepoClassRegistryInvariant(w) ==
  {Finding("RED-REPO-CLASS-DUPLICATE", r, "RED", "registry", FALSE) :
     r \in {r \in Repos : w.entries[r] > 1}}
  \cup
  {Finding("RED-REPO-CLASS-PERIMETER-MISMATCH", "hub", "RED", "registry", FALSE) :
     mismatch \in {r \in Repos : (w.entries[r] > 0) # (r \in w.governed)}}
  \cup
  {Finding("RED-ADMISSORIUM-ROLE-BOUNDARY", r, "RED", "registry", FALSE) :
     r \in {r \in {Admissorium} : w.entries[r] > 0 /\ ~w.roleOk}}

(* invariants/license-consistency.ts: a missing LICENSE returns early. *)
LicenseConsistencyInvariant(w, r) ==
  IF w.license[r] = "missing"
  THEN {Finding("YELLOW-LICENSE-MISSING", r, "YELLOW", "LICENSE", TRUE)}
  ELSE {Finding("YELLOW-LICENSE-FILE-MISMATCH", q, "YELLOW", "LICENSE", TRUE) :
          q \in {q \in {r} : w.license[q] = "differs"}}
       \cup
       {Finding("YELLOW-AUCTORISEAL-LICENSE-WORDING", q, "YELLOW", "README.md", TRUE) :
          q \in {q \in {r} : q = Auctoriseal /\ w.gplReadme}}

(* invariants/package-registry.ts *)
PackageRegistryInvariant(w) ==
  {Finding("RED-PACKAGE-REGISTRY-SOURCE-CONFLICT", p, "RED", "package", FALSE) :
     p \in {p \in Packages : Cardinality(w.sources[p]) > 1}}
  \cup
  {Finding("YELLOW-PACKAGE-REGISTRY-MISSING-LIVE-PACKAGE", p, "YELLOW", "package", FALSE) :
     p \in {p \in Packages : w.sources[p] # {} /\ w.observed[p] \cap w.live = {}}}
  \cup
  {Finding("YELLOW-LIVE-PACKAGE-MISSING-FROM-REGISTRY", po, "YELLOW", "package.json", FALSE) :
     po \in {po \in Packages \X w.live : w.sources[po[1]] = {} /\ po[2] \in w.observed[po[1]]}}

-----------------------------------------------------------------------------
SingleRepositoryCiMode == world.live = {}

Init ==
  /\ world \in Worlds
  /\ phase = "load"
  /\ findings = {}
  /\ report = NoReport
  /\ exit = NoExit

(* Mutant of Crash: the error is caught, and the audit goes on to its end   *)
(* without the file.                                                        *)
CrashIgnored ==
  /\ phase' = "count"
  /\ UNCHANGED <<world, findings, report, exit>>

(* A registry that JSON.parse rejects ends the process before any report. *)
Crash ==
  /\ phase' = "crashed"
  /\ exit' = 1
  /\ UNCHANGED <<world, findings, report>>

(* Mutant of Stage: assigns the findings of the stage instead of pushing.   *)
StageAssigns(from, to, found) ==
  /\ phase = from
  /\ phase' = to
  /\ findings' = found
  /\ UNCHANGED <<world, report, exit>>

Stage(from, to, found) ==
  /\ phase = from
  /\ phase' = to
  /\ findings' = findings \cup found
  /\ UNCHANGED <<world, report, exit>>

LoadRegistries ==
  \/ /\ world.corrupt # "registry"
     /\ Stage("load", IF SingleRepositoryCiMode THEN "count" ELSE "perimeter", {})
  \/ /\ world.corrupt = "registry"
     /\ phase = "load"
     /\ Crash

CheckPerimeter ==
  Stage("perimeter", "classes", RepoPerimeterInvariant(world.governed, world.live))

CheckClasses ==
  Stage("classes", "licenses",
        IF world.classes = "present" THEN RepoClassRegistryInvariant(world) ELSE {})

CheckLicenses ==
  Stage("licenses", "packages",
        UNION {LicenseConsistencyInvariant(world, r) :
                 r \in {r \in world.live : world.license[r] # "unlisted"}})

(* Every package.json of the inventory is parsed, with no try around it. *)
CheckPackages ==
  \/ /\ world.packages = "present" => world.corrupt # "package.json"
     /\ Stage("packages", "count",
              IF world.packages = "present" THEN PackageRegistryInvariant(world) ELSE {})
  \/ /\ phase = "packages"
     /\ world.packages = "present"
     /\ world.corrupt = "package.json"
     /\ Crash

(* acceptedGraph has a node for every line of GOVERNED_REPOS.txt.          *)
GovernedLines(w) == Cardinality(w.governed) + w.repeated

CheckCount ==
  Stage("count", "compile",
        IF GovernedLines(world) # PerimeterSize
        THEN {Finding("RED-GOVERNED-REPO-COUNT", "hub", "RED", "registry", FALSE)}
        ELSE {})

CompileReport ==
  /\ phase = "compile"
  /\ phase' = "done"
  /\ report' = Report(findings)
  /\ exit' = ExitStatus(Report(findings))
  /\ UNCHANGED <<world, findings>>

Next ==
  \/ LoadRegistries \/ CheckPerimeter \/ CheckClasses \/ CheckLicenses
  \/ CheckPackages \/ CheckCount \/ CompileReport

(* main() is synchronous: nothing but the end of the process stops it. *)
Spec == Init /\ [][Next]_vars /\ WF_vars(Next)
-----------------------------------------------------------------------------
(* Type invariant of the audit run. *)
TypeOK ==
  /\ world \in WorldType
  /\ phase \in Phases
  /\ \A f \in findings : f.severity \in Severities /\ f.autofix \in BOOLEAN
  /\ report = NoReport \/ report = Report(findings)
  /\ exit \in {0, 1, 2, NoExit}

(***************************************************************************)
(* Drift, stated on the world and not through the invariants' code.        *)
(***************************************************************************)
LicenseDrift(w, r) ==
  \/ w.license[r] \in {"differs", "missing"}
  \/ r = Auctoriseal /\ w.gplReadme /\ w.license[r] # "unlisted"

PackageDrift(w, p) ==
  \/ Cardinality(w.sources[p]) > 1
  \/ (w.sources[p] = {}) # (w.observed[p] \cap w.live = {})

ClassDrift(w) ==
  \/ \E r \in Repos : w.entries[r] # (IF r \in w.governed THEN 1 ELSE 0)
  \/ w.entries[Admissorium] > 0 /\ ~w.roleOk

RedDrift(w) ==
  \/ GovernedLines(w) # PerimeterSize
  \/ w.live # {} /\ w.governed # w.live
  \/ w.live # {} /\ w.classes = "present" /\ ClassDrift(w)
  \/ /\ w.live # {} /\ w.packages = "present"
     /\ \E p \in Packages : Cardinality(w.sources[p]) > 1

YellowDrift(w) ==
  \/ \E r \in w.live : LicenseDrift(w, r)
  \/ w.live # {} /\ w.packages = "present" /\ \E p \in Packages : PackageDrift(w, p)

(* An audit that completes blocks exactly the worlds with red drift, and    *)
(* asks for projection repair exactly for those with only yellow drift: the *)
(* five stages miss nothing and invent nothing, whatever the early return   *)
(* of the license check and the order of the stages.  An audit that finds   *)
(* no repository is judged by the number of registered lines alone.         *)
VerdictMatchesDrift ==
  phase = "done" =>
    report.verdict =
      CASE RedDrift(world) -> "INADMISSIBLE"
        [] ~RedDrift(world) /\ YellowDrift(world) -> "ADMISSIBLE_AS_PROJECTION_REPAIR"
        [] OTHER -> "ADMISSIBLE"

(* The exit status that CI reads and the merge verdict that the check run   *)
(* shows are computed apart (cli/admissorium.ts:241, merge-verdict.ts); a   *)
(* completed audit exits 2 exactly when the check fails, 0 exactly on PASS. *)
ExitAgreesWithCheck ==
  phase = "done" =>
    /\ (exit = 2) = (CheckConclusion(report) = "failure")
    /\ (exit = 0) = (MergeVerdict(report) = "PASS")

(* A stage never turns a check that would fail into one that would pass.    *)
StagesNeverExcuse ==
  [][CheckConclusion(Report(findings)) = "failure"
       => CheckConclusion(Report(findings')) = "failure"]_vars

(* The run comes to read a file that JSON.parse rejects: the registries are *)
(* always loaded, a package.json only with repositories and a registry to   *)
(* compare it with.                                                         *)
ReadsCorruptFile(w) ==
  \/ w.corrupt = "registry"
  \/ w.corrupt = "package.json" /\ w.live # {} /\ w.packages = "present"

RightEnd ==
  IF ReadsCorruptFile(world)
  THEN phase = "crashed" /\ exit = 1 /\ report = NoReport
  ELSE phase = "done" /\ exit = ExitStatus(report) /\ report # NoReport

(* Every run ends for good: with status 1 and no report if it comes to read *)
(* a corrupt file, however far it is by then, and with a report and its own *)
(* status otherwise.  A yellow report has status 1 too, so that the report  *)
(* is all that tells the two apart (cli/admissorium.ts:50-64, 108, 240).    *)
RunEnds == <>[]RightEnd
=============================================================================
