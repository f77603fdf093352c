SPECIFICATION Spec
CONSTANTS
  admissorium = admissorium
  auctoriseal = auctoriseal
  other = other
  stray = stray
  p1 = p1
  p2 = p2
  Admissorium = admissorium
  Auctoriseal = auctoriseal
  Repos <- MCRepos
  Packages <- MCPackages
  PerimeterSize = 3
  Worlds <- MCWorlds
INVARIANTS TypeOK VerdictMatchesDrift ExitAgreesWithCheck
PROPERTIES StagesNeverExcuse RunEnds
CHECK_DEADLOCK FALSE
