SPECIFICATION Spec
CONSTANT Catalogue <- MCCatalogue
INVARIANT RepairLeavesLicenseAlone
CHECK_DEADLOCK FALSE
