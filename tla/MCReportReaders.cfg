SPECIFICATION Spec
CONSTANT Catalogue <- MCCatalogue
INVARIANTS
  QuarantineReadersAgree RepairReadersAgree CheckFailsExactlyOnRed
CHECK_DEADLOCK FALSE
