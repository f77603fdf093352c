--------------------------- MODULE MCPermissionDesk ---------------------------
(* One path of each sort: protected by both policies, by the defaults only,  *)
(* a registry, and an ordinary one; every spelling that a test or a doc uses. *)
EXTENDS PermissionDesk

MCModes ==
  {"audit", "block", "repair-projection", "projection_repair", "quarantine",
   "candidate-registry"}

MCPool == {"projection", "LICENSE", "current/**", ".github/LICENSES.json"}
=============================================================================
