SPECIFICATION Spec
CONSTANTS
  Modes <- MCModes
  Pool <- MCPool
  MaxPaths = 2
INVARIANTS
  TypeOK ProtectedNeverWritten AnswersAreCoherent
PROPERTY MorePathsNeverAllow
