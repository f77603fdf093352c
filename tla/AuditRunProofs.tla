----------------------------- MODULE AuditRunProofs -----------------------------
(***************************************************************************)
(* The audit proved for any repositories, packages and worlds.  The        *)
(* invariant says what has been found at each stage: what the stages that  *)
(* are over find in the world, nothing more and nothing less.  The two     *)
(* theorems about counters need finitely many repositories and packages.   *)
(***************************************************************************)
EXTENDS AuditRun, AdmissibilityLemmas

ByClasses == IF world.classes = "present" THEN RepoClassRegistryInvariant(world) ELSE {}

ByLicenses ==
  UNION {LicenseConsistencyInvariant(world, r) :
           r \in {r \in world.live : world.license[r] # "unlisted"}}

ByPackages == IF world.packages = "present" THEN PackageRegistryInvariant(world) ELSE {}

ByCount ==
  IF GovernedLines(world) # PerimeterSize
  THEN {Finding("RED-GOVERNED-REPO-COUNT", "hub", "RED", "registry", FALSE)}
  ELSE {}

ByPerimeter == RepoPerimeterInvariant(world.governed, world.live)

ByInventory ==
  IF SingleRepositoryCiMode THEN {}
  ELSE ((ByPerimeter \cup ByClasses) \cup ByLicenses) \cup ByPackages

FoundSoFar ==
  /\ phase \in {"load", "perimeter"} => findings = {}
  /\ phase = "classes" => findings = ByPerimeter
  /\ phase = "licenses" => findings = ByPerimeter \cup ByClasses
  /\ phase = "packages" => findings = (ByPerimeter \cup ByClasses) \cup ByLicenses
  /\ phase = "count" => findings = ByInventory
  /\ phase \in {"compile", "done"} => findings = ByInventory \cup ByCount
  /\ phase = "crashed" =>
       findings \in {{}, (ByPerimeter \cup ByClasses) \cup ByLicenses}

Outcome ==
  /\ phase = "done" => report = Report(findings) /\ exit = ExitStatus(report)
  /\ phase # "done" => report = NoReport
  /\ phase = "crashed" => exit = 1
  /\ phase \notin {"done", "crashed"} => exit = NoExit

IInv ==
  /\ world \in Worlds
  /\ phase \in Phases
  /\ phase \in {"perimeter", "classes", "licenses", "packages"} => ~SingleRepositoryCiMode
  /\ FoundSoFar
  /\ Outcome

LEMMA InitInvariant == Init => IInv
BY DEF Init, IInv, Phases, FoundSoFar, Outcome

(* A stage that pushes what it finds and goes on to the next.               *)
LEMMA StepInvariant == IInv /\ [Next]_vars => IInv'
<1> SUFFICES ASSUME IInv, [Next]_vars PROVE IInv'
  OBVIOUS
<1> DEFINE Same == world' = world
<1>0. ASSUME world' = world
      PROVE  /\ ByPerimeter' = ByPerimeter /\ ByClasses' = ByClasses /\ ByLicenses' = ByLicenses
             /\ ByPackages' = ByPackages /\ ByCount' = ByCount /\ ByInventory' = ByInventory
             /\ SingleRepositoryCiMode' = SingleRepositoryCiMode
  BY <1>0 DEF ByPerimeter, ByClasses, ByLicenses, ByPackages, ByCount, ByInventory,
              SingleRepositoryCiMode
<1>1. CASE LoadRegistries
  <2>1. CASE /\ phase = "load" /\ findings' = findings \cup {} /\ UNCHANGED <<world, report, exit>>
             /\ phase' = IF SingleRepositoryCiMode THEN "count" ELSE "perimeter"
    <3>1. CASE SingleRepositoryCiMode
      <4>1. findings' = {} /\ ByInventory = {}
        BY <2>1, <3>1 DEF IInv, FoundSoFar, ByInventory
      <4> QED
        BY <1>0, <2>1, <3>1, <4>1 DEF IInv, FoundSoFar, Outcome, Phases
    <3>2. CASE ~SingleRepositoryCiMode
      BY <1>0, <2>1, <3>2 DEF IInv, FoundSoFar, Outcome, Phases
    <3> QED
      BY <3>1, <3>2
  <2>2. CASE phase = "load" /\ Crash
    BY <1>0, <2>2 DEF IInv, FoundSoFar, Outcome, Phases, Crash
  <2> QED
    BY <1>1, <2>1, <2>2 DEF LoadRegistries, Stage
<1>2. CASE CheckPerimeter
  BY <1>0, <1>2 DEF IInv, FoundSoFar, Outcome, Phases, CheckPerimeter, Stage, ByPerimeter
<1>3. CASE CheckClasses
  BY <1>0, <1>3 DEF IInv, FoundSoFar, Outcome, Phases, CheckClasses, Stage, ByClasses
<1>4. CASE CheckLicenses
  BY <1>0, <1>4 DEF IInv, FoundSoFar, Outcome, Phases, CheckLicenses, Stage, ByLicenses
<1>5. CASE CheckPackages
  <2>1. CASE Stage("packages", "count", ByPackages)
    <3>1. findings' = ByInventory
      BY <2>1 DEF IInv, FoundSoFar, Stage, ByInventory
    <3> QED
      BY <1>0, <2>1, <3>1 DEF IInv, FoundSoFar, Outcome, Phases, Stage
  <2>2. CASE phase = "packages" /\ Crash
    BY <1>0, <2>2 DEF IInv, FoundSoFar, Outcome, Phases, Crash
  <2> QED
    BY <1>5, <2>1, <2>2 DEF CheckPackages, ByPackages
<1>6. CASE CheckCount
  <2>1. Stage("count", "compile", ByCount)
    BY <1>6 DEF CheckCount, ByCount
  <2> QED
    BY <1>0, <2>1 DEF IInv, FoundSoFar, Outcome, Phases, Stage
<1>7. CASE CompileReport
  BY <1>0, <1>7 DEF IInv, FoundSoFar, Outcome, Phases, CompileReport
<1>8. CASE UNCHANGED vars
  <2>1. /\ world' = world /\ phase' = phase /\ findings' = findings
        /\ report' = report /\ exit' = exit
    BY <1>8 DEF vars
  <2> QED
    BY <1>0, <2>1 DEF IInv, FoundSoFar, Outcome
<1> QED
  BY <1>1, <1>2, <1>3, <1>4, <1>5, <1>6, <1>7, <1>8 DEF Next

LEMMA Invariant == Spec => []IInv
BY InitInvariant, StepInvariant, PTL DEF Spec

-----------------------------------------------------------------------------
(* What each stage finds, by severity.                                      *)
LEMMA PerimeterFinds ==
  /\ (\E f \in ByPerimeter : f.severity = "RED") <=> world.governed # world.live
  /\ \A f \in ByPerimeter : f.severity = "RED" /\ f.autofix = FALSE
<1> DEFINE found == Finding("RED-REPO-PERIMETER-MISMATCH", "hub", "RED", "registry", FALSE)
<1>1. found.severity = "RED" /\ found.autofix = FALSE
  BY DEF Finding
<1> HIDE DEF found
<1>2. ByPerimeter = IF world.governed = world.live THEN {} ELSE {found}
  BY DEF ByPerimeter, RepoPerimeterInvariant, found
<1> QED
  BY <1>1, <1>2

LEMMA CountFinds ==
  /\ (\E f \in ByCount : f.severity = "RED") <=> GovernedLines(world) # PerimeterSize
  /\ \A f \in ByCount : f.severity = "RED" /\ f.autofix = FALSE
<1> DEFINE found == Finding("RED-GOVERNED-REPO-COUNT", "hub", "RED", "registry", FALSE)
<1>1. found.severity = "RED" /\ found.autofix = FALSE
  BY DEF Finding
<1> HIDE DEF found
<1>2. ByCount = IF GovernedLines(world) # PerimeterSize THEN {found} ELSE {}
  BY DEF ByCount, found
<1> QED
  BY <1>1, <1>2

LEMMA ClassesFind ==
  ASSUME world \in WorldType
  PROVE  /\ (\E f \in ByClasses : f.severity = "RED")
              <=> world.classes = "present" /\ ClassDrift(world)
         /\ \A f \in ByClasses : f.severity = "RED" /\ f.autofix = FALSE
<1>1. /\ world.entries \in [Repos -> 0..2] /\ world.governed \subseteq Repos
      /\ Admissorium \in Repos
  BY AuditAssumption DEF WorldType
<1>2. \A f \in RepoClassRegistryInvariant(world) : f.severity = "RED" /\ f.autofix = FALSE
  BY DEF RepoClassRegistryInvariant, Finding
<1>3. (RepoClassRegistryInvariant(world) # {}) <=>
        \/ \E r \in Repos : world.entries[r] > 1
        \/ \E r \in Repos : (world.entries[r] > 0) # (r \in world.governed)
        \/ world.entries[Admissorium] > 0 /\ ~world.roleOk
  BY DEF RepoClassRegistryInvariant
<1>4. ASSUME NEW r \in Repos
      PROVE (world.entries[r] # (IF r \in world.governed THEN 1 ELSE 0)) <=>
              (world.entries[r] > 1 \/ (world.entries[r] > 0) # (r \in world.governed))
  <2>1. world.entries[r] \in 0..2
    BY <1>1
  <2>2. CASE r \in world.governed
    BY <2>1, <2>2
  <2>3. CASE r \notin world.governed
    BY <2>1, <2>3
  <2> QED
    BY <2>2, <2>3
<1>5. (RepoClassRegistryInvariant(world) # {}) <=> ClassDrift(world)
  BY <1>3, <1>4 DEF ClassDrift
<1> QED
  BY <1>2, <1>5 DEF ByClasses

LEMMA LicensesFind ==
  ASSUME world \in WorldType
  PROVE  /\ (\E f \in ByLicenses : f.severity = "YELLOW")
              <=> \E r \in world.live : LicenseDrift(world, r)
         /\ \A f \in ByLicenses : f.severity = "YELLOW" /\ f.autofix = TRUE
<1>1. world.live \subseteq Repos /\ \A r \in Repos : world.license[r] \in LicenseStates
  BY DEF WorldType
<1>2. ASSUME NEW r
      PROVE \A f \in LicenseConsistencyInvariant(world, r) : f.severity = "YELLOW" /\ f.autofix = TRUE
  BY DEF LicenseConsistencyInvariant, Finding
<1>3. ASSUME NEW r \in world.live
      PROVE LicenseDrift(world, r) <=>
              (world.license[r] # "unlisted" /\ LicenseConsistencyInvariant(world, r) # {})
  <2>1. world.license[r] \in LicenseStates
    BY <1>1
  <2>2. CASE world.license[r] = "missing"
    BY <2>2 DEF LicenseDrift, LicenseConsistencyInvariant
  <2>3. CASE world.license[r] # "missing"
    <3>1. (LicenseConsistencyInvariant(world, r) # {}) <=>
            (world.license[r] = "differs" \/ (r = Auctoriseal /\ world.gplReadme))
      BY <2>3 DEF LicenseConsistencyInvariant
    <3> QED
      BY <2>1, <2>3, <3>1 DEF LicenseDrift, LicenseStates
  <2> QED
    BY <2>2, <2>3
<1>4. (ByLicenses # {}) <=> \E r \in world.live : LicenseDrift(world, r)
  BY <1>3 DEF ByLicenses
<1>5. \A f \in ByLicenses : f.severity = "YELLOW" /\ f.autofix = TRUE
  BY <1>2 DEF ByLicenses
<1> QED
  BY <1>4, <1>5

LEMMA PackagesFind ==
  ASSUME world \in WorldType
  PROVE  /\ (\E f \in ByPackages : f.severity = "RED")
              <=> /\ world.packages = "present"
                  /\ \E p \in Packages : Cardinality(world.sources[p]) > 1
         /\ (\E f \in ByPackages : f.severity = "YELLOW")
              <=> /\ world.packages = "present"
                  /\ \E p \in Packages :
                       (world.sources[p] = {}) # (world.observed[p] \cap world.live = {})
         /\ \A f \in ByPackages : f.severity \in Severities /\ f.autofix = FALSE
<1> DEFINE conflict == {Finding("RED-PACKAGE-REGISTRY-SOURCE-CONFLICT", p, "RED", "package", FALSE) :
                          p \in {p \in Packages : Cardinality(world.sources[p]) > 1}}
           missing == {Finding("YELLOW-PACKAGE-REGISTRY-MISSING-LIVE-PACKAGE", p, "YELLOW", "package", FALSE) :
                         p \in {p \in Packages : world.sources[p] # {} /\ world.observed[p] \cap world.live = {}}}
           unlisted == {Finding("YELLOW-LIVE-PACKAGE-MISSING-FROM-REGISTRY", po, "YELLOW", "package.json", FALSE) :
                          po \in {po \in Packages \X world.live :
                                    world.sources[po[1]] = {} /\ po[2] \in world.observed[po[1]]}}
<1>1. PackageRegistryInvariant(world) = (conflict \cup missing) \cup unlisted
  BY DEF PackageRegistryInvariant
<1>2. /\ \A f \in conflict : f.severity = "RED" /\ f.autofix = FALSE
      /\ \A f \in missing : f.severity = "YELLOW" /\ f.autofix = FALSE
      /\ \A f \in unlisted : f.severity = "YELLOW" /\ f.autofix = FALSE
  BY DEF Finding
<1>3. (conflict # {}) <=> \E p \in Packages : Cardinality(world.sources[p]) > 1
  OBVIOUS
<1>4. (missing # {}) <=>
        \E p \in Packages : world.sources[p] # {} /\ world.observed[p] \cap world.live = {}
  OBVIOUS
<1>5. (unlisted # {}) <=>
        \E p \in Packages : world.sources[p] = {} /\ world.observed[p] \cap world.live # {}
  <2>1. ASSUME NEW p \in Packages, world.sources[p] = {},
               NEW r \in world.observed[p] \cap world.live
        PROVE  unlisted # {}
    <3> DEFINE po == <<p, r>>
    <3>1. po \in Packages \X world.live /\ po[1] = p /\ po[2] = r
      BY <2>1
    <3> HIDE DEF po
    <3>2. world.sources[po[1]] = {} /\ po[2] \in world.observed[po[1]]
      BY <2>1, <3>1
    <3> QED
      BY <3>1, <3>2
  <2>2. ASSUME NEW f \in unlisted
        PROVE  \E p \in Packages : world.sources[p] = {} /\ world.observed[p] \cap world.live # {}
    <3>1. PICK po \in Packages \X world.live :
            world.sources[po[1]] = {} /\ po[2] \in world.observed[po[1]]
      BY <2>2
    <3> QED
      BY <3>1
  <2> QED
    BY <2>1, <2>2
<1> HIDE DEF conflict, missing, unlisted
<1> QED
  BY <1>1, <1>2, <1>3, <1>4, <1>5 DEF ByPackages, Severities
-----------------------------------------------------------------------------
(* All that is found, by severity, is the drift of the world.               *)
LEMMA FoundIsDrift ==
  ASSUME world \in WorldType
  PROVE  LET all == ByInventory \cup ByCount
         IN  /\ (BySeverity(all, "RED") # {}) <=> RedDrift(world)
             /\ ~RedDrift(world) => ((BySeverity(all, "YELLOW") # {}) <=> YellowDrift(world))
<1> DEFINE all == ByInventory \cup ByCount
<1>1. /\ (BySeverity(all, "RED") # {}) <=> \E f \in all : f.severity = "RED"
      /\ (BySeverity(all, "YELLOW") # {}) <=> \E f \in all : f.severity = "YELLOW"
  BY DEF BySeverity
<1>2. CASE SingleRepositoryCiMode
  <2>1. all = ByCount
    BY <1>2 DEF ByInventory
  <2>2. /\ RedDrift(world) <=> GovernedLines(world) # PerimeterSize
        /\ ~YellowDrift(world)
    BY <1>2 DEF RedDrift, YellowDrift, SingleRepositoryCiMode
  <2>3. \A f \in ByCount : f.severity # "YELLOW"
    BY CountFinds
  <2> QED
    BY <1>1, <2>1, <2>2, <2>3, CountFinds
<1>3. CASE ~SingleRepositoryCiMode
  <2>0. world.live # {}
    BY <1>3 DEF SingleRepositoryCiMode
  <2>1. all = (((ByPerimeter \cup ByClasses) \cup ByLicenses) \cup ByPackages) \cup ByCount
    BY <1>3 DEF ByInventory
  <2> HIDE DEF all
  <2>2. (\E f \in all : f.severity = "RED") <=>
          \/ \E f \in ByPerimeter : f.severity = "RED"
          \/ \E f \in ByClasses : f.severity = "RED"
          \/ \E f \in ByPackages : f.severity = "RED"
          \/ \E f \in ByCount : f.severity = "RED"
    BY <2>1, LicensesFind
  <2>3. (\E f \in all : f.severity = "YELLOW") <=>
          \/ \E f \in ByLicenses : f.severity = "YELLOW"
          \/ \E f \in ByPackages : f.severity = "YELLOW"
    BY <2>1, PerimeterFinds, ClassesFind, CountFinds
  <2>4. (\E f \in all : f.severity = "RED") <=> RedDrift(world)
    BY <2>0, <2>2, PerimeterFinds, ClassesFind, PackagesFind, CountFinds DEF RedDrift
  <2>5. ~RedDrift(world) => ((\E f \in all : f.severity = "YELLOW") <=> YellowDrift(world))
    BY <2>0, <2>3, LicensesFind, PackagesFind DEF RedDrift, YellowDrift, PackageDrift
  <2> QED
    BY <1>1, <2>4, <2>5 DEF all
<1> QED
  BY <1>2, <1>3

(* The verdict of every audit that completes is the drift of its world, for *)
(* any repositories, packages and worlds.                                   *)
THEOREM VerdictIsDrift == Spec => []VerdictMatchesDrift
<1>1. IInv => VerdictMatchesDrift
  <2> SUFFICES ASSUME IInv, phase = "done"
               PROVE  report.verdict =
                        CASE RedDrift(world) -> "INADMISSIBLE"
                          [] ~RedDrift(world) /\ YellowDrift(world)
                               -> "ADMISSIBLE_AS_PROJECTION_REPAIR"
                          [] OTHER -> "ADMISSIBLE"
    BY DEF VerdictMatchesDrift
  <2>1. world \in WorldType
    BY AuditAssumption DEF IInv
  <2>2. findings = ByInventory \cup ByCount /\ report = Report(findings)
    BY DEF IInv, FoundSoFar, Outcome
  <2>3. report.verdict = AdmissibilityVerdict(findings)
    BY <2>2 DEF Report
  <2>4. /\ (BySeverity(findings, "RED") # {}) <=> RedDrift(world)
        /\ ~RedDrift(world) => ((BySeverity(findings, "YELLOW") # {}) <=> YellowDrift(world))
    BY <2>1, <2>2, FoundIsDrift
  <2> QED
    BY <2>3, <2>4 DEF AdmissibilityVerdict
<1> QED
  BY <1>1, Invariant, PTL

(* The run stays in its types.                                              *)
THEOREM RunTypeCorrect == Spec => []TypeOK
<1>1. IInv => TypeOK
  <2> SUFFICES ASSUME IInv PROVE TypeOK
    OBVIOUS
  <2>1. world \in WorldType
    BY AuditAssumption DEF IInv
  <2>2. \A f \in (((ByPerimeter \cup ByClasses) \cup ByLicenses) \cup ByPackages) \cup ByCount :
          f.severity \in Severities /\ f.autofix \in BOOLEAN
    BY <2>1, PerimeterFinds, ClassesFind, LicensesFind, PackagesFind, CountFinds DEF Severities
  <2>3. findings \subseteq (((ByPerimeter \cup ByClasses) \cup ByLicenses) \cup ByPackages) \cup ByCount
    BY DEF IInv, FoundSoFar, ByInventory, Phases
  <2>4. exit \in {0, 1, 2, NoExit} /\ (report = NoReport \/ report = Report(findings))
    BY DEF IInv, Outcome, ExitStatus
  <2> QED
    BY <2>1, <2>2, <2>3, <2>4 DEF TypeOK, IInv
<1> QED
  BY <1>1, Invariant, PTL

-----------------------------------------------------------------------------
(* All the findings of one kind about the subjects of S.                    *)
Kind(id, S, severity, surface, autofix) ==
  {Finding(id, x, severity, surface, autofix) : x \in S}

(* One kind of finding about finitely many subjects is finitely many.       *)
LEMMA FiniteKind ==
  ASSUME NEW id, NEW severity, NEW surface, NEW autofix, NEW S, IsFiniteSet(S)
  PROVE  IsFiniteSet(Kind(id, S, severity, surface, autofix))
<1> DEFINE T == {Finding(id, x, severity, surface, autofix) : x \in S}
           f == [x \in S |-> Finding(id, x, severity, surface, autofix)]
<1>1. f \in Surjection(S, T)
  BY DEF Surjection
<1> QED
  BY <1>1, FS_Surjection DEF Kind

LEMMA FiniteInventory ==
  ASSUME world \in WorldType
  PROVE  /\ IsFiniteSet(ByPerimeter) /\ IsFiniteSet(ByClasses) /\ IsFiniteSet(ByLicenses)
         /\ IsFiniteSet(ByPackages) /\ IsFiniteSet(ByCount)
<1>1. IsFiniteSet(ByPerimeter)
  <2>1. ByPerimeter = {} \/ \E f : ByPerimeter = {f}
    BY DEF ByPerimeter, RepoPerimeterInvariant
  <2> QED
    BY <2>1, FS_EmptySet, FS_Singleton
<1>2. IsFiniteSet(ByCount)
  <2>1. ByCount = {} \/ \E f : ByCount = {f}
    BY DEF ByCount
  <2> QED
    BY <2>1, FS_EmptySet, FS_Singleton
<1>3. IsFiniteSet(ByClasses)
  <2> DEFINE duplicate == Kind("RED-REPO-CLASS-DUPLICATE", Repos, "RED", "registry", FALSE)
             mismatch == Kind("RED-REPO-CLASS-PERIMETER-MISMATCH", {"hub"}, "RED", "registry", FALSE)
             role == Kind("RED-ADMISSORIUM-ROLE-BOUNDARY", Repos, "RED", "registry", FALSE)
  <2>1. IsFiniteSet(duplicate) /\ IsFiniteSet(mismatch) /\ IsFiniteSet(role)
    <3>1. IsFiniteSet(duplicate)
      BY FiniteKind, FiniteAssumption
    <3>2. IsFiniteSet(mismatch)
      <4>1. IsFiniteSet({"hub"})
        BY FS_Singleton
      <4> QED
        BY <4>1, FiniteKind
    <3>3. IsFiniteSet(role)
      BY FiniteKind, FiniteAssumption
    <3> QED
      BY <3>1, <3>2, <3>3
  <2>2. IsFiniteSet((duplicate \cup mismatch) \cup role)
    <3> HIDE DEF duplicate, mismatch, role
    <3> QED
      BY <2>1, FS_Union
  <2>3. RepoClassRegistryInvariant(world) \subseteq (duplicate \cup mismatch) \cup role
    BY AuditAssumption DEF RepoClassRegistryInvariant, Kind
  <2> HIDE DEF duplicate, mismatch, role
  <2> QED
    BY <2>2, <2>3, FS_Subset, FS_EmptySet DEF ByClasses
<1>4. IsFiniteSet(ByLicenses)
  <2> DEFINE missing == Kind("YELLOW-LICENSE-MISSING", Repos, "YELLOW", "LICENSE", TRUE)
             differs == Kind("YELLOW-LICENSE-FILE-MISMATCH", Repos, "YELLOW", "LICENSE", TRUE)
             wording == Kind("YELLOW-AUCTORISEAL-LICENSE-WORDING", Repos, "YELLOW", "README.md", TRUE)
  <2>1. IsFiniteSet(missing) /\ IsFiniteSet(differs) /\ IsFiniteSet(wording)
    <3>1. IsFiniteSet(missing)
      BY FiniteKind, FiniteAssumption
    <3>2. IsFiniteSet(differs)
      BY FiniteKind, FiniteAssumption
    <3>3. IsFiniteSet(wording)
      BY FiniteKind, FiniteAssumption
    <3> QED
      BY <3>1, <3>2, <3>3
  <2>2. IsFiniteSet((missing \cup differs) \cup wording)
    <3> HIDE DEF missing, differs, wording
    <3> QED
      BY <2>1, FS_Union
  <2>3. world.live \subseteq Repos
    BY DEF WorldType
  <2>4. \A r \in Repos : LicenseConsistencyInvariant(world, r)
                          \subseteq (missing \cup differs) \cup wording
    BY DEF LicenseConsistencyInvariant, Kind
  <2>5. ByLicenses \subseteq (missing \cup differs) \cup wording
    <3> HIDE DEF missing, differs, wording
    <3> QED
      BY <2>3, <2>4 DEF ByLicenses
  <2> HIDE DEF missing, differs, wording
  <2> QED
    BY <2>2, <2>5, FS_Subset
<1>5. IsFiniteSet(ByPackages)
  <2> DEFINE conflict == Kind("RED-PACKAGE-REGISTRY-SOURCE-CONFLICT", Packages, "RED", "package", FALSE)
             missing == Kind("YELLOW-PACKAGE-REGISTRY-MISSING-LIVE-PACKAGE", Packages, "YELLOW", "package", FALSE)
             unlisted == Kind("YELLOW-LIVE-PACKAGE-MISSING-FROM-REGISTRY", Packages \X world.live, "YELLOW", "package.json", FALSE)
  <2>1. IsFiniteSet(world.live)
    BY FiniteAssumption, FS_Subset DEF WorldType
  <2>2. IsFiniteSet(Packages \X world.live)
    BY <2>1, FiniteAssumption, FS_Product
  <2>3. IsFiniteSet(conflict) /\ IsFiniteSet(missing) /\ IsFiniteSet(unlisted)
    <3>1. IsFiniteSet(conflict)
      BY FiniteKind, FiniteAssumption
    <3>2. IsFiniteSet(missing)
      BY FiniteKind, FiniteAssumption
    <3>3. IsFiniteSet(unlisted)
      BY <2>2, FiniteKind, FiniteAssumption
    <3> QED
      BY <3>1, <3>2, <3>3
  <2>4. IsFiniteSet((conflict \cup missing) \cup unlisted)
    <3> HIDE DEF conflict, missing, unlisted
    <3> QED
      BY <2>3, FS_Union
  <2>5. PackageRegistryInvariant(world) \subseteq (conflict \cup missing) \cup unlisted
    BY DEF PackageRegistryInvariant, Kind
  <2> HIDE DEF conflict, missing, unlisted
  <2> QED
    BY <2>4, <2>5, FS_Subset, FS_EmptySet DEF ByPackages
<1> QED
  BY <1>1, <1>2, <1>3, <1>4, <1>5

(* At every moment an audit has found finitely much.                        *)
FinitelyFound == IsFiniteSet(findings)

LEMMA FiniteFindings == IInv => FinitelyFound
<1> SUFFICES ASSUME IInv PROVE IsFiniteSet(findings)
  BY DEF FinitelyFound
<1> DEFINE all == (((ByPerimeter \cup ByClasses) \cup ByLicenses) \cup ByPackages) \cup ByCount
<1>1. world \in WorldType
  BY AuditAssumption DEF IInv
<1>2. IsFiniteSet(all)
  BY <1>1, FiniteInventory, FS_Union
<1>3. findings \subseteq all
  BY DEF IInv, FoundSoFar, ByInventory, Phases
<1> QED
  BY <1>2, <1>3, FS_Subset

(* No finding of the wired invariants asks for quarantine.                  *)
LEMMA NothingQuarantined == IInv => ActionQuarantined(findings) = {}
<1> SUFFICES ASSUME IInv PROVE ActionQuarantined(findings) = {}
  OBVIOUS
<1>1. /\ \A f \in ByPerimeter : f.quarantine = FALSE
      /\ \A f \in ByCount : f.quarantine = FALSE
  BY DEF ByPerimeter, RepoPerimeterInvariant, ByCount, Finding
<1>2. \A f \in ByClasses : f.quarantine = FALSE
  BY DEF ByClasses, RepoClassRegistryInvariant, Finding
<1>3. \A f \in ByLicenses : f.quarantine = FALSE
  BY DEF ByLicenses, LicenseConsistencyInvariant, Finding
<1>4. \A f \in ByPackages : f.quarantine = FALSE
  BY DEF ByPackages, PackageRegistryInvariant, Finding
<1>5. findings \subseteq (((ByPerimeter \cup ByClasses) \cup ByLicenses) \cup ByPackages) \cup ByCount
  BY DEF IInv, FoundSoFar, ByInventory, Phases
<1> QED
  BY <1>1, <1>2, <1>3, <1>4, <1>5 DEF ActionQuarantined

(* The exit status and the check of every completed audit say the same.     *)
THEOREM ExitMatchesCheck == Spec => []ExitAgreesWithCheck
<1>1. IInv => ExitAgreesWithCheck
  <2> SUFFICES ASSUME IInv, phase = "done"
               PROVE  /\ (exit = 2) <=> (CheckConclusion(report) = "failure")
                      /\ (exit = 0) <=> (MergeVerdict(report) = "PASS")
    BY DEF ExitAgreesWithCheck
  <2>1. report = Report(findings) /\ exit = ExitStatus(Report(findings))
    BY DEF IInv, Outcome
  <2>2. IsFiniteSet(findings) /\ ActionQuarantined(findings) = {}
    BY FiniteFindings, NothingQuarantined DEF FinitelyFound
  <2>3. /\ (Report(findings).red > 0) <=> (BySeverity(findings, "RED") # {})
        /\ (Report(findings).yellow > 0) <=> (BySeverity(findings, "YELLOW") # {})
        /\ ~(Report(findings).quarantine > 0)
    BY <2>2, CountersCount
  <2>4. Report(findings).verdict = AdmissibilityVerdict(findings)
    BY DEF Report
  <2>5. (exit = 2) <=> (CheckConclusion(report) = "failure")
    BY <2>1, <2>2, <2>3, FailureMeansRed DEF ExitStatus
  <2>6. (exit = 0) <=> (MergeVerdict(report) = "PASS")
    BY <2>1, <2>3, <2>4 DEF ExitStatus, MergeVerdict, AdmissibilityVerdict
  <2> QED
    BY <2>5, <2>6
<1> QED
  BY <1>1, Invariant, PTL

(* No stage excuses what an earlier one found.                              *)
THEOREM NothingIsExcused == Spec => StagesNeverExcuse
<1>1. FinitelyFound /\ FinitelyFound' /\ [Next]_vars =>
        [CheckConclusion(Report(findings)) = "failure"
           => CheckConclusion(Report(findings')) = "failure"]_vars
  <2> SUFFICES ASSUME FinitelyFound, FinitelyFound', [Next]_vars, CheckConclusion(Report(findings)) = "failure"
               PROVE  CheckConclusion(Report(findings')) = "failure"
    OBVIOUS
  <2>1. findings \subseteq findings'
    BY DEF Next, vars, LoadRegistries, CheckPerimeter, CheckClasses, CheckLicenses,
           CheckPackages, CheckCount, CompileReport, Stage, Crash
  <2>2. IsFiniteSet(findings) /\ IsFiniteSet(findings')
    BY DEF FinitelyFound
  <2>3. BySeverity(findings, "RED") # {} \/ ActionQuarantined(findings) # {}
    BY <2>2, FailureMeansRed
  <2>4. BySeverity(findings', "RED") # {} \/ ActionQuarantined(findings') # {}
    BY <2>1, <2>3 DEF BySeverity, ActionQuarantined
  <2> QED
    BY <2>2, <2>4, FailureMeansRed
<1> QED
  BY <1>1, Invariant, FiniteFindings, PTL DEF Spec, StagesNeverExcuse

-----------------------------------------------------------------------------
(* The stages still to run.                                                 *)
StagesLeft ==
  CASE phase = "load" -> 7
    [] phase = "perimeter" -> 6
    [] phase = "classes" -> 5
    [] phase = "licenses" -> 4
    [] phase = "packages" -> 3
    [] phase = "count" -> 2
    [] phase = "compile" -> 1
    [] phase \in {"done", "crashed"} -> 0

(* A run that is past a stage did not come to read a corrupt file in it,    *)
(* and one that crashed did.                                                *)
ReadSoFar ==
  /\ phase \notin {"load", "crashed"} => world.corrupt # "registry"
  /\ phase \in {"count", "compile", "done"} => ~ReadsCorruptFile(world)
  /\ phase = "crashed" => ReadsCorruptFile(world)

LEMMA InitRead == Init => ReadSoFar
BY DEF Init, ReadSoFar

LEMMA StepRead == IInv /\ ReadSoFar /\ [Next]_vars => ReadSoFar'
<1> SUFFICES ASSUME IInv, ReadSoFar, [Next]_vars PROVE ReadSoFar'
  OBVIOUS
<1>1. CASE LoadRegistries
  BY <1>1 DEF ReadSoFar, ReadsCorruptFile, LoadRegistries, Stage, Crash, SingleRepositoryCiMode
<1>2. CASE CheckPerimeter \/ CheckClasses \/ CheckLicenses
  BY <1>2 DEF ReadSoFar, ReadsCorruptFile, CheckPerimeter, CheckClasses, CheckLicenses, Stage
<1>3. CASE CheckPackages
  BY <1>3 DEF IInv, ReadSoFar, ReadsCorruptFile, CheckPackages, Stage, Crash,
              SingleRepositoryCiMode
<1>4. CASE CheckCount
  BY <1>4 DEF ReadSoFar, ReadsCorruptFile, CheckCount, Stage
<1>5. CASE CompileReport
  BY <1>5 DEF ReadSoFar, ReadsCorruptFile, CompileReport
<1>6. CASE UNCHANGED vars
  BY <1>6 DEF ReadSoFar, ReadsCorruptFile, vars
<1> QED
  BY <1>1, <1>2, <1>3, <1>4, <1>5, <1>6 DEF Next

(* cli/admissorium.ts main(): no stage is entered twice, so that a run      *)
(* takes at most seven of them, and where none is left the run has the end  *)
(* that its files call for: crashed with status 1 and no report exactly if  *)
(* it came to read a corrupt one, and otherwise a report and its status.    *)
(* This is the safety half of RunEnds; that a stage which is left runs is   *)
(* fairness.                                                                *)
THEOREM RunsWindDown ==
  Spec => [](StagesLeft \in Nat /\ (StagesLeft = 0 => RightEnd))
            /\ [][StagesLeft' < StagesLeft]_vars
<1>1. IInv /\ ReadSoFar => StagesLeft \in Nat /\ (StagesLeft = 0 => RightEnd)
  <2> SUFFICES ASSUME IInv, ReadSoFar
               PROVE  StagesLeft \in Nat /\ (StagesLeft = 0 => RightEnd)
    OBVIOUS
  <2>1. StagesLeft \in Nat /\ (StagesLeft = 0 => phase \in {"done", "crashed"})
    BY DEF IInv, Phases, StagesLeft
  <2>2. CASE phase = "done"
    <3>1. report.verdict = AdmissibilityVerdict(findings) /\ exit = ExitStatus(report)
      BY <2>2 DEF IInv, Outcome, Report
    <3>2. AdmissibilityVerdict(findings) # "none" /\ NoReport.verdict = "none"
      BY DEF AdmissibilityVerdict, NoReport
    <3>3. ~ReadsCorruptFile(world)
      BY <2>2 DEF ReadSoFar
    <3> QED
      BY <2>1, <2>2, <3>1, <3>2, <3>3 DEF RightEnd
  <2>3. CASE phase = "crashed"
    BY <2>1, <2>3 DEF IInv, Outcome, ReadSoFar, RightEnd
  <2> QED
    BY <2>1, <2>2, <2>3
<1>2. [Next]_vars => [StagesLeft' < StagesLeft]_vars
  <2> SUFFICES ASSUME Next PROVE StagesLeft' < StagesLeft
    OBVIOUS
  <2>1. \/ phase = "load" /\ phase' \in {"perimeter", "count", "crashed"}
        \/ phase = "perimeter" /\ phase' = "classes"
        \/ phase = "classes" /\ phase' = "licenses"
        \/ phase = "licenses" /\ phase' = "packages"
        \/ phase = "packages" /\ phase' \in {"count", "crashed"}
        \/ phase = "count" /\ phase' = "compile"
        \/ phase = "compile" /\ phase' = "done"
    BY DEF Next, LoadRegistries, CheckPerimeter, CheckClasses, CheckLicenses,
           CheckPackages, CheckCount, CompileReport, Stage, Crash
  <2> QED
    BY <2>1 DEF StagesLeft
<1> QED
  BY <1>1, <1>2, Invariant, InitRead, StepRead, PTL DEF Spec
=============================================================================
