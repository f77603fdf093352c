--------------------------- MODULE MCReportReaders ---------------------------
(* The catalogue: the kinds of finding that the modules of invariants/ push. *)
EXTENDS ReportReaders

Kind(id, severity, surface, autofix, quarantine) ==
  [ id |-> id, severity |-> severity, surface |-> surface, autofix |-> autofix,
    idTag |-> "plain", quarantine |-> quarantine ]

MCCatalogue ==
  { Kind("RED-REPO-PERIMETER-MISMATCH", "RED", "registry", FALSE, FALSE),
    Kind("RED-REPO-CLASS-DUPLICATE", "RED", "registry", FALSE, FALSE),
    Kind("RED-AUTHORITY-SCOPE-MISMATCH", "RED", "authority", FALSE, FALSE),
    Kind("RED-RECEIPT-IDENTITY-COLLISION", "RED", "receipts", FALSE, TRUE),
    Kind("RED-ACTIVE-TRUTH-DUPLICATE", "RED", "truth", FALSE, TRUE),
    Kind("YELLOW-LICENSE-MISSING", "YELLOW", "LICENSE", TRUE, FALSE),
    Kind("YELLOW-LICENSE-FILE-MISMATCH", "YELLOW", "LICENSE", TRUE, FALSE),
    Kind("YELLOW-AUCTORISEAL-LICENSE-WORDING", "YELLOW", "README.md", TRUE, FALSE),
    Kind("YELLOW-REPO-README-MISSING", "YELLOW", "README.md", TRUE, FALSE),
    Kind("YELLOW-LIVE-PACKAGE-MISSING-FROM-REGISTRY", "YELLOW", "package.json", FALSE, FALSE) }
=============================================================================
