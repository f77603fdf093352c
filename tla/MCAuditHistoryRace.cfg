SPECIFICATION Spec
CONSTANTS
  p1 = p1
  p2 = p2
  p3 = p3
  graph = graph
  report = report
  verdict = verdict
  Absent = Absent
  Torn = Torn
  Audits = {p1, p2, p3}
  RunIds = {t1, t2}
  Artifacts = {graph, report, verdict}
  CurrentOrder <- MCCurrentOrder
  HistoryOrder <- MCHistoryOrder
  SameMillisecond = TRUE
SYMMETRY Symmetry
PROPERTY SnapshotImmutable
CHECK_DEADLOCK FALSE
