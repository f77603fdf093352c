SPECIFICATION FairSpec
CONSTANTS
  d1 = d1
  r1 = r1
  r2 = r2
  malformed = malformed
  s1 = s1
  NoRepo = NoRepo
  NoSha = NoSha
  ZeroSha = ZeroSha
  Repos <- MCRepos
  MalformedRepos = {malformed}
  Shas = {s1}
  RequestChoices <- MCRequests
  Reports <- MCReports
  Jobs = {d1}
  Kinds = {"check_run", "issue"}
  Overrides = {NoRepo, r2}
  RefChoices <- MCFullRefs
  PlanEnvs = {"omitted", "live", "bare"}
  WriterEnvs = {"live"}
INVARIANTS
  TypeOK OnlyEarnedEffects GreenLightSound SummaryAgreesWithDecision
  CheckRunOnDeliveredCommit AcceptedMeansPlanned IntakesAgree
PROPERTIES KeepsPromise
