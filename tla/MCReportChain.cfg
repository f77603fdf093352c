SPECIFICATION Spec
CONSTANTS
  f1 = f1
  f2 = f2
  p1 = p1
  p2 = p2
  Files <- MCFiles
  Procs <- MCProcs
  Candidates <- MCCandidates
  AcceptedRepos = {"VERIFRAX"}
  ExpectedQuarantined = 1
  MaxEdits = 1
INVARIANTS
  DangerNeverSucceeds SuitesAgree LoneChainFits LoneBundleBinds
   FailuresSealNothing
SYMMETRY Symmetry
CHECK_DEADLOCK FALSE
