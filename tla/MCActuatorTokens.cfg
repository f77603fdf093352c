SPECIFICATION FairSpec
CONSTANTS
  d1 = d1
  r1 = r1
  r2 = r2
  malformed = malformed
  s1 = s1
  NoRepo = NoRepo
  NoSha = NoSha
  ZeroSha = ZeroSha
  Repos <- MCRepos
  MalformedRepos = {malformed}
  Shas = {s1}
  RequestChoices <- MCFewRequests
  Reports <- MCRepairReports
  Jobs = {d1}
  Kinds = {"pull_request", "token"}
  Overrides = {NoRepo}
  RefChoices <- MCRefs
  PlanEnvs = {"omitted", "live", "bare"}
  WriterEnvs = {"live"}
PROPERTIES KeepsPromise StopQuiesces
