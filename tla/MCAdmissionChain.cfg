SPECIFICATION Spec
CONSTANTS
  Changes <- MCChanges
  MaxCommits = 2
  MaxWithheld = 1
INVARIANTS GreenChainIsGrounded SubstitutionSeenTwice NoLinkRewritesItsGround OrdersAgree ShownCountsAreAccepted
PROPERTIES MoreEvidenceNeverExcuses
CHECK_DEADLOCK FALSE
