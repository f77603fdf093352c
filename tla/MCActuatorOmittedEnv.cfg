SPECIFICATION FairSpec
CONSTANTS
  d1 = d1
  r1 = r1
  r2 = r2
  malformed = malformed
  s1 = s1
  NoRepo = NoRepo
  NoSha = NoSha
  ZeroSha = ZeroSha
  Repos <- MCRepos
  MalformedRepos = {malformed}
  Shas = {s1}
  RequestChoices <- MCFewRequests
  Reports <- MCReports
  Jobs = {d1}
  Kinds = {"check_run"}
  Overrides = {NoRepo}
  RefChoices <- MCFullRefs
  PlanEnvs = {"live"}
  WriterEnvs = {"omitted"}
PROPERTY StopPreventsClientCall
