SPECIFICATION Spec
CONSTANTS
  Pool <- MCPool
PROPERTY PassMeansBlocked
CHECK_DEADLOCK FALSE
